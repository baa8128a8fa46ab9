---------------------------- MODULE CoversProofs ----------------------------
(***************************************************************************)
(* Proofs about Covers, for any number of books, files, requests and       *)
(* failures: a cover that was answered is never taken off the disk while a *)
(* row names it.                                                           *)
(***************************************************************************)
EXTENDS Covers, TLAPS

\* The types of the tables, the directory and the requests.
Typed ==
    /\ books \in [Books -> Book]
    /\ temporary \subseteq drawn /\ files \subseteq drawn
    /\ drawn \subseteq Covers /\ abandoned \subseteq drawn /\ replaced \subseteq drawn
    /\ req \in [Requests -> Request]
    /\ errors \in 0 .. MaxErrors

\* A name is drawn before anything knows it.
Known ==
    /\ \A b \in Books : books[b].cover \in drawn \cup {None}
    /\ \A r \in Requests :
         req[r].old \in drawn \cup {None} /\ req[r].new \in drawn \cup {None}

\* A book that is gone has no cover, and a picture belongs to one book, also
\* while a request still remembers it.
Owned ==
    /\ \A b \in Books : books[b].row # "present" => books[b].cover = None
    /\ \A a, b \in Books :
         books[a].cover = books[b].cover /\ a # b => books[a].cover = None
    /\ \A r \in Requests, b \in Books :
         req[r].old # None /\ books[b].cover = req[r].old => req[r].book = b

\* What a request may rely on at each step.
SlotOK(r) ==
    /\ req[r].step # "idle" => req[r].book \in Books
    /\ req[r].step \in {"publish", "attach"} =>
         /\ req[r].new # None
         /\ \A b \in Books : books[b].cover # req[r].new
         /\ \A s \in Requests : req[s].old # req[r].new
         /\ \A s \in Requests \ {r} : req[s].new # req[r].new
    /\ req[r].step = "publish" => req[r].new \in temporary
    /\ req[r].step = "attach" => req[r].new \in files
    /\ req[r].step = "remove_old" =>
         \A b \in Books : books[b].cover = req[r].old => req[r].old = None
    /\ req[r].step = "remove_new" => req[r].new \in abandoned

Sound ==
    /\ Typed /\ Known /\ Owned
    /\ \A r \in Requests : SlotOK(r)
    /\ NamedCoversStored

-----------------------------------------------------------------------------
\* What a step makes of the request it belongs to, field by field.
Slot(r, step, b, old, new) ==
    \A s \in Requests :
      /\ s = r => /\ req'[s].step = step /\ req'[s].book = b
                  /\ req'[s].old = old /\ req'[s].new = new
      /\ s # r => req'[s] = req[s]

LEMMA Slots ==
  ASSUME req \in [Requests -> Request], NEW r \in Requests
  PROVE  /\ \A step \in Steps, b \in Books, old \in Covers \cup {None} :
              Enter(r, step, b, old) => /\ req' \in [Requests -> Request]
                                        /\ Slot(r, step, b, old, None)
         /\ \A step \in Steps :
              Go(r, step) => /\ req' \in [Requests -> Request]
                             /\ Slot(r, step, req[r].book, req[r].old, req[r].new)
         /\ \A c \in Covers :
              req' = [req EXCEPT ![r].step = "publish", ![r].new = c] =>
                /\ req' \in [Requests -> Request]
                /\ Slot(r, "publish", req[r].book, req[r].old, c)
         /\ Done(r) => req' \in [Requests -> Request] /\ Slot(r, "idle", None, None, None)
  <1>1. ASSUME NEW step \in Steps, NEW b \in Books, NEW old \in Covers \cup {None},
               Enter(r, step, b, old)
        PROVE  req' \in [Requests -> Request] /\ Slot(r, step, b, old, None)
    BY <1>1 DEF Enter, Slot, Request
  <1>2. ASSUME NEW step \in Steps, Go(r, step)
        PROVE  /\ req' \in [Requests -> Request]
               /\ Slot(r, step, req[r].book, req[r].old, req[r].new)
    BY <1>2 DEF Go, Slot, Request
  <1>3. ASSUME NEW c \in Covers, req' = [req EXCEPT ![r].step = "publish", ![r].new = c]
        PROVE  /\ req' \in [Requests -> Request]
               /\ Slot(r, "publish", req[r].book, req[r].old, c)
    BY <1>3 DEF Slot, Request, Steps
  <1>4. ASSUME Done(r)
        PROVE  req' \in [Requests -> Request] /\ Slot(r, "idle", None, None, None)
    BY <1>4 DEF Done, Idle, Slot, Request, Steps
  <1> QED
    BY <1>1, <1>2, <1>3, <1>4

\* Nothing here relies on errors, once counted.
LEMMA Counted ==
  ASSUME errors \in 0 .. MaxErrors, Fail \/ Unharmed
  PROVE  errors' \in 0 .. MaxErrors
  BY CoversAssumption DEF Fail, Unharmed

\* The statement on cover_url.
LEMMA CoverSet ==
  ASSUME Typed, NEW r \in Requests, req[r].book \in Books, Known,
         NEW c \in Covers \cup {None}, SetCover(req[r], c)
  PROVE  /\ books' \in [Books -> Book]
         /\ \A b \in Books :
              /\ books'[b].row = books[b].row
              /\ books'[b].cover = IF b = req[r].book THEN c ELSE books[b].cover
         /\ replaced' \subseteq drawn
  <1>1. \A b \in Books : books[b] \in Book
    BY DEF Typed
  <1>2. \A row \in Book : LET new == [row EXCEPT !.cover = c]
                          IN new \in Book /\ new.row = row.row /\ new.cover = c
    BY DEF Book
  <1>3. books' = [books EXCEPT ![req[r].book] = [books[req[r].book] EXCEPT !.cover = c]]
    BY DEF SetCover
  <1>4. replaced' \subseteq drawn
    BY DEF SetCover, Known, Typed
  <1> QED
    BY <1>1, <1>2, <1>3, <1>4 DEF Typed

\* The requests begin.
LEMMA BeginsSound ==
  ASSUME Sound, NEW r \in Requests, NEW b \in Books,
         \/ UploadBookCover(r, b) \/ DeleteBookCover(r, b)
         \/ CreateBook(r, b) \/ DeleteBook(r, b)
  PROVE  Sound'
  <1> USE CoversAssumption
  <1>0. /\ Typed /\ Known /\ Owned /\ (\A s \in Requests : SlotOK(s)) /\ NamedCoversStored
        /\ books[b] \in Book /\ req \in [Requests -> Request]
    BY DEF Sound, Typed
  <1>1. ASSUME NEW step \in {"write", "detach"}, Enter(r, step, b, books[b].cover),
               UNCHANGED <<books, temporary, files, history, errors>>
        PROVE  Sound'
    <2>1. req' \in [Requests -> Request] /\ Slot(r, step, b, books[b].cover, None)
      <3>1. step \in Steps /\ books[b].cover \in Covers \cup {None}
        BY <1>0 DEF Book, Steps
      <3> QED
        BY <1>0, <1>1, <3>1, Slots
    <2>2. Typed'
      BY <1>0, <1>1, <2>1 DEF Typed, history
    <2>3. Known' /\ Owned'
      BY <1>0, <1>1, <2>1 DEF Known, Owned, Slot, history
    <2>4. \A s \in Requests : SlotOK(s)'
      BY <1>0, <1>1, <2>1 DEF SlotOK, Slot, history
    <2>5. NamedCoversStored'
      BY <1>0, <1>1 DEF NamedCoversStored, history
    <2> QED
      BY <2>2, <2>3, <2>4, <2>5 DEF Sound
  <1>2. CASE CreateBook(r, b)
    <2>1. /\ books' \in [Books -> Book]
          /\ \A a \in Books : books'[a].cover = books[a].cover
          /\ \A a \in Books : books'[a].row # "present" => books[a].row # "present"
      BY <1>0, <1>2 DEF CreateBook, Typed, Book
    <2>2. CASE Enter(r, "write", b, None)
      <3>1. req' \in [Requests -> Request] /\ Slot(r, "write", b, None, None)
        BY <1>0, <2>2, Slots DEF Steps
      <3>2. Typed'
        BY <1>0, <1>2, <2>1, <3>1 DEF CreateBook, Typed, history
      <3>3. Known' /\ Owned'
        BY <1>0, <1>2, <2>1, <3>1 DEF CreateBook, Known, Owned, Slot, history
      <3>4. \A s \in Requests : SlotOK(s)'
        BY <1>0, <1>2, <2>1, <3>1 DEF CreateBook, SlotOK, Slot, history
      <3>5. NamedCoversStored'
        BY <1>0, <1>2, <2>1 DEF CreateBook, NamedCoversStored, history
      <3> QED
        BY <3>2, <3>3, <3>4, <3>5 DEF Sound
    <2>3. CASE UNCHANGED req
      <3>1. Typed' /\ Known' /\ Owned'
        BY <1>0, <1>2, <2>1, <2>3 DEF CreateBook, Typed, Known, Owned, history
      <3>2. \A s \in Requests : SlotOK(s)'
        BY <1>0, <1>2, <2>1, <2>3 DEF CreateBook, SlotOK, history
      <3>3. NamedCoversStored'
        BY <1>0, <1>2, <2>1 DEF CreateBook, NamedCoversStored, history
      <3> QED
        BY <3>1, <3>2, <3>3 DEF Sound
    <2> QED
      BY <1>2, <2>2, <2>3 DEF CreateBook
  <1>3. CASE DeleteBook(r, b)
    <2>1. /\ books' \in [Books -> Book]
          /\ \A a \in Books :
               /\ books'[a].cover = IF a = b THEN None ELSE books[a].cover
               /\ a # b => books'[a].row = books[a].row
      BY <1>0, <1>3 DEF DeleteBook, Typed, Book
    <2>2. errors' \in 0 .. MaxErrors
      BY <1>0, <1>3, Counted DEF DeleteBook, Typed
    <2>3. NamedCoversStored'
      BY <1>0, <1>3, <2>1 DEF DeleteBook, NamedCoversStored, history
    <2>4. CASE Enter(r, "remove_old", b, books[b].cover)
      <3>1. /\ req' \in [Requests -> Request]
            /\ Slot(r, "remove_old", b, books[b].cover, None)
        BY <1>0, <2>4, Slots DEF Book, Steps
      <3>2. Typed'
        BY <1>0, <1>3, <2>1, <2>2, <3>1 DEF DeleteBook, Typed, history
      <3>3. Known' /\ Owned'
        BY <1>0, <1>3, <2>1, <3>1 DEF DeleteBook, Known, Owned, Slot, history
      <3>4. \A a \in Books : books'[a].cover = books[b].cover => books[b].cover = None
        BY <1>0, <2>1 DEF Owned
      <3>5. \A s \in Requests : SlotOK(s)'
        BY <1>0, <1>3, <2>1, <3>1, <3>4 DEF DeleteBook, SlotOK, Slot, history
      <3> QED
        BY <2>3, <3>2, <3>3, <3>5 DEF Sound
    <2>5. CASE UNCHANGED req
      <3>1. Typed' /\ Known' /\ Owned'
        BY <1>0, <1>3, <2>1, <2>2, <2>5 DEF DeleteBook, Typed, Known, Owned, history
      <3>2. \A s \in Requests : SlotOK(s)'
        BY <1>0, <1>3, <2>1, <2>5 DEF DeleteBook, SlotOK, history
      <3> QED
        BY <2>3, <3>1, <3>2 DEF Sound
    <2> QED
      BY <1>3, <2>4, <2>5 DEF DeleteBook
  <1> QED
    BY <1>1, <1>2, <1>3 DEF UploadBookCover, DeleteBookCover

\* storeCover.
LEMMA StoresSound ==
  ASSUME Sound, NEW r \in Requests, WriteTemporary(r) \/ Publish(r)
  PROVE  Sound'
  <1> USE CoversAssumption
  <1>0. /\ Typed /\ Known /\ Owned /\ (\A s \in Requests : SlotOK(s)) /\ NamedCoversStored
        /\ req \in [Requests -> Request]
    BY DEF Sound, Typed
  <1>1. errors' \in 0 .. MaxErrors
    BY <1>0, Counted DEF WriteTemporary, Publish, Typed
  <1>2. UNCHANGED <<books, abandoned, replaced>>
    BY DEF WriteTemporary, Publish, history
  <1>3. NamedCoversStored'
    BY <1>0, <1>2 DEF WriteTemporary, Publish, NamedCoversStored
  <1>4. ASSUME Done(r), UNCHANGED <<drawn, files>>,
               temporary' = temporary \/ temporary' = temporary \ {req[r].new}
        PROVE  Sound'
    <2>1. req' \in [Requests -> Request] /\ Slot(r, "idle", None, None, None)
      BY <1>0, <1>4, Slots
    <2>2. Typed'
      BY <1>0, <1>1, <1>2, <1>4, <2>1 DEF Typed
    <2>3. Known' /\ Owned'
      BY <1>0, <1>2, <1>4, <2>1 DEF Known, Owned, Slot
    <2>4. \A s \in Requests : SlotOK(s)'
      BY <1>0, <1>2, <1>4, <2>1 DEF SlotOK, Slot
    <2> QED
      BY <1>3, <2>2, <2>3, <2>4 DEF Sound
  <1>5. ASSUME NEW c \in Covers \ drawn, temporary' = temporary \cup {c},
               drawn' = drawn \cup {c}, UNCHANGED files, At(r, "write"),
               req' = [req EXCEPT ![r].step = "publish", ![r].new = c]
        PROVE  Sound'
    <2>1. req' \in [Requests -> Request]
          /\ Slot(r, "publish", req[r].book, req[r].old, c)
      BY <1>0, <1>5, Slots
    <2>2. Typed'
      BY <1>0, <1>1, <1>2, <1>5, <2>1 DEF Typed
    <2>3. Known' /\ Owned'
      BY <1>0, <1>2, <1>5, <2>1 DEF Known, Owned, Slot
    <2>4. \A s \in Requests : SlotOK(s)'
      BY <1>0, <1>2, <1>5, <2>1 DEF SlotOK, Slot, Known, At
    <2> QED
      BY <1>3, <2>2, <2>3, <2>4 DEF Sound
  <1>6. ASSUME Publish(r), Go(r, "attach"), files' = files \cup {req[r].new}
        PROVE  Sound'
    <2>1. req' \in [Requests -> Request]
          /\ Slot(r, "attach", req[r].book, req[r].old, req[r].new)
      BY <1>0, <1>6, Slots DEF Steps
    <2>2. /\ req[r].new \in drawn /\ UNCHANGED drawn /\ req[r].step = "publish"
          /\ temporary' = temporary \ {req[r].new}
      BY <1>0, <1>6 DEF Publish, Typed, SlotOK, At, history
    <2>3. Typed'
      BY <1>0, <1>1, <1>2, <1>6, <2>1, <2>2 DEF Typed
    <2>4. Known' /\ Owned'
      BY <1>0, <1>2, <2>1, <2>2 DEF Known, Owned, Slot
    <2>5. \A s \in Requests : SlotOK(s)'
      BY <1>0, <1>2, <1>6, <2>1, <2>2 DEF SlotOK, Slot
    <2> QED
      BY <1>3, <2>3, <2>4, <2>5 DEF Sound
  <1>7. CASE WriteTemporary(r)
    BY <1>4, <1>5, <1>7 DEF WriteTemporary
  <1>8. CASE Publish(r)
    BY <1>4, <1>6, <1>8 DEF Publish, history
  <1> QED
    BY <1>7, <1>8

\* UpdateBookCover: the new cover is on the row and in the directory, the old
\* one is on no row any more.
LEMMA UpdatesSound ==
  ASSUME Sound, NEW r \in Requests, Attach(r) \/ Detach(r)
  PROVE  Sound'
  <1> USE CoversAssumption
  <1> DEFINE q == req[r]
  <1>0. /\ Typed /\ Known /\ Owned /\ (\A s \in Requests : SlotOK(s)) /\ NamedCoversStored
        /\ req \in [Requests -> Request] /\ q \in Request /\ q.book \in Books
        /\ drawn \subseteq Covers
    BY DEF Sound, Typed, SlotOK, Attach, Detach, At
  <1>1. errors' \in 0 .. MaxErrors
    BY <1>0, Counted DEF Attach, Detach, Typed
  <1>2. UNCHANGED <<temporary, files, drawn>>
    BY DEF Attach, Detach
  <1>3. ASSUME NEW c \in drawn \cup {None}, SetCover(q, c)
        PROVE  /\ books' \in [Books -> Book]
               /\ \A b \in Books :
                    /\ books'[b].row = books[b].row
                    /\ books'[b].cover = IF b = q.book THEN c ELSE books[b].cover
               /\ replaced' \subseteq drawn
    BY <1>0, <1>3, CoverSet
  <1>4. ASSUME Detach(r), UNCHANGED abandoned
        PROVE  Sound'
    <2>1. /\ books' \in [Books -> Book] /\ replaced' \subseteq drawn
          /\ \A b \in Books :
               /\ books'[b].row = books[b].row
               /\ books'[b].cover = books[b].cover \/ books'[b].cover = None
      BY <1>0, <1>3, <1>4 DEF Detach, Typed
    <2>2. CASE Done(r)
      <3>1. req' \in [Requests -> Request] /\ Slot(r, "idle", None, None, None)
        BY <1>0, <2>2, Slots
      <3>2. Typed' /\ NamedCoversStored'
        BY <1>0, <1>1, <1>2, <1>4, <2>1, <3>1 DEF Typed, NamedCoversStored
      <3>3. Known' /\ Owned'
        BY <1>0, <1>2, <2>1, <3>1 DEF Known, Owned, Slot
      <3>4. \A s \in Requests : SlotOK(s)'
        BY <1>0, <1>2, <1>4, <2>1, <3>1 DEF SlotOK, Slot
      <3> QED
        BY <3>2, <3>3, <3>4 DEF Sound
    <2>3. CASE Go(r, "remove_old") /\ SetCover(q, None)
      <3>1. req' \in [Requests -> Request] /\ Slot(r, "remove_old", q.book, q.old, q.new)
        BY <1>0, <2>3, Slots DEF Steps
      <3>2. Typed' /\ NamedCoversStored'
        BY <1>0, <1>1, <1>2, <1>4, <2>1, <3>1 DEF Typed, NamedCoversStored
      <3>3. Known' /\ Owned'
        BY <1>0, <1>2, <2>1, <3>1 DEF Known, Owned, Slot
      <3>4. \A b \in Books : books'[b].cover = q.old => q.old = None
        BY <1>0, <1>3, <2>3 DEF Owned
      <3>5. \A s \in Requests : SlotOK(s)'
        BY <1>0, <1>2, <1>4, <2>1, <3>1, <3>4 DEF SlotOK, Slot
      <3> QED
        BY <3>2, <3>3, <3>5 DEF Sound
    <2> QED
      BY <1>4, <2>2, <2>3 DEF Detach
  <1>5. ASSUME Attach(r)
        PROVE  Sound'
    <2>1. /\ q.step = "attach" /\ q.new \in drawn /\ q.new \in files /\ q.new # None
          /\ \A b \in Books : books[b].cover # q.new
          /\ \A s \in Requests : req[s].old # q.new
          /\ \A s \in Requests \ {r} : req[s].new # q.new
      BY <1>0, <1>5 DEF Attach, At, SlotOK, Typed
    <2>2. /\ books' \in [Books -> Book] /\ replaced' \subseteq drawn
          /\ \A b \in Books :
               /\ books'[b].row = books[b].row
               /\ \/ books'[b].cover = books[b].cover
                  \/ books'[b].cover = q.new /\ b = q.book /\ Present(b)
      BY <1>0, <1>3, <1>5, <2>1 DEF Attach, Typed
    <2>3. NamedCoversStored'
      BY <1>0, <1>2, <1>5, <2>1, <2>2 DEF Attach, NamedCoversStored
    <2>4. ASSUME NEW step \in {"remove_old", "remove_new"}, Go(r, step)
          PROVE  /\ Typed' /\ Known' /\ Owned'
                 /\ Slot(r, step, q.book, q.old, q.new)
      <3>1. step \in Steps
        BY DEF Steps
      <3>2. req' \in [Requests -> Request] /\ Slot(r, step, q.book, q.old, q.new)
        BY <1>0, <2>4, <3>1, Slots
      <3>3. abandoned' \subseteq drawn
        BY <1>0, <1>5, <2>1 DEF Attach, Typed
      <3>4. Typed'
        BY <1>0, <1>1, <1>2, <2>2, <3>2, <3>3 DEF Typed
      <3>5. Known' /\ Owned'
        BY <1>0, <1>2, <2>1, <2>2, <3>2 DEF Known, Owned, Slot, Present
      <3> QED
        BY <3>2, <3>4, <3>5
    <2>5. CASE Go(r, "remove_old") /\ SetCover(q, q.new) /\ UNCHANGED abandoned
      <3>1. \A b \in Books : books'[b].cover = q.old => q.old = None
        BY <1>0, <1>3, <2>1, <2>5 DEF Owned
      <3>2. \A s \in Requests : SlotOK(s)'
        BY <1>0, <1>2, <2>1, <2>2, <2>4, <2>5, <3>1 DEF SlotOK, Slot
      <3> QED
        BY <2>3, <2>4, <2>5, <3>2 DEF Sound
    <2>6. CASE Go(r, "remove_new") /\ abandoned' = abandoned \cup {q.new}
      <3>1. \A s \in Requests : SlotOK(s)'
        BY <1>0, <1>2, <2>1, <2>2, <2>4, <2>6 DEF SlotOK, Slot
      <3> QED
        BY <2>3, <2>4, <2>6, <3>1 DEF Sound
    <2> QED
      BY <1>5, <2>5, <2>6 DEF Attach
  <1> QED
    BY <1>4, <1>5 DEF Detach

\* removeStoredCover.
LEMMA RemovalsSound ==
  ASSUME Sound, NEW r \in Requests, RemoveOld(r) \/ RemoveNew(r)
  PROVE  Sound'
  <1> USE CoversAssumption
  <1>0. /\ Typed /\ Known /\ Owned /\ (\A s \in Requests : SlotOK(s)) /\ NamedCoversStored
        /\ req \in [Requests -> Request]
    BY DEF Sound, Typed
  <1>1. errors' \in 0 .. MaxErrors
    BY <1>0, Counted DEF RemoveOld, RemoveNew, RemoveStoredCover, Typed
  <1>2. UNCHANGED <<books, temporary, drawn, abandoned, replaced>> /\ files' \subseteq files
    BY DEF RemoveOld, RemoveNew, RemoveStoredCover, history
  <1>3. req' \in [Requests -> Request] /\ Slot(r, "idle", None, None, None)
    BY <1>0, Slots DEF RemoveOld, RemoveNew
  <1>4. Typed' /\ Known' /\ Owned'
    <2>1. Typed'
      BY <1>0, <1>1, <1>2, <1>3 DEF Typed
    <2>2. Known' /\ Owned'
      BY <1>0, <1>2, <1>3 DEF Known, Owned, Slot
    <2> QED
      BY <2>1, <2>2
  <1>5. \A c \in files \ files' :
          /\ \A b \in Books : books[b].cover = c => c \in abandoned
          /\ \A s \in Requests : req[s].step = "attach" => req[s].new # c
    <2>1. CASE RemoveOld(r)
      BY <1>0, <2>1 DEF RemoveOld, RemoveStoredCover, At, SlotOK, Typed
    <2>2. CASE RemoveNew(r)
      BY <1>0, <2>2 DEF RemoveNew, RemoveStoredCover, At, SlotOK
    <2> QED
      BY <2>1, <2>2
  <1>6. NamedCoversStored'
    BY <1>0, <1>2, <1>5 DEF NamedCoversStored
  <1>7. \A s \in Requests : SlotOK(s)'
    BY <1>0, <1>2, <1>3, <1>5 DEF SlotOK, Slot
  <1> QED
    BY <1>4, <1>6, <1>7 DEF Sound

-----------------------------------------------------------------------------
LEMMA SoundInit == Init => Sound
  BY CoversAssumption
     DEF Init, Sound, Typed, Known, Owned, SlotOK, NamedCoversStored, Idle, Request, Book,
         Steps

LEMMA SoundStep == Sound /\ [Next]_vars => Sound'
  <1>1. ASSUME Sound, Next
        PROVE  Sound'
    <2>1. CASE Restart
      <3>1. /\ req' \in [Requests -> Request]
            /\ \A r \in Requests : req'[r].step = "idle" /\ req'[r].old = None
                                   /\ req'[r].new = None
        BY <2>1 DEF Restart, Idle, Request, Steps
      <3>2. errors' \in 0 .. MaxErrors
        BY <1>1, <2>1, Counted DEF Restart, Sound, Typed
      <3> QED
        BY <1>1, <2>1, <3>1, <3>2
           DEF Restart, history, Sound, Typed, Known, Owned, SlotOK, NamedCoversStored
    <2> QED
      BY <1>1, <2>1, BeginsSound, StoresSound, UpdatesSound, RemovalsSound DEF Next
  <1>2. ASSUME Sound, UNCHANGED vars
        PROVE  Sound'
    BY <1>2 DEF vars, Sound, Typed, Known, Owned, SlotOK, NamedCoversStored
  <1> QED
    BY <1>1, <1>2

\* The tables and the directory have their types, and no picture is the cover
\* of two books or of one that is gone.
THEOREM TypeCorrect == Spec => []TypeOK
  <1>1. Sound => TypeOK
    BY DEF Sound, Typed, Owned, TypeOK, Present
  <1> QED
    BY <1>1, SoundInit, SoundStep, PTL DEF Spec

\* Whatever uploads, removals, failures and restarts interleave, the file of a
\* cover that a row names is there, unless its own upload reported an error.
THEOREM CoversStored == Spec => []NamedCoversStored
  <1>1. Sound => NamedCoversStored
    BY DEF Sound
  <1> QED
    BY <1>1, SoundInit, SoundStep, PTL DEF Spec

-----------------------------------------------------------------------------
(* What is left over.  The property is inductive by itself: a step that    *)
(* takes a cover off a row has it in hand, or has not read it there.       *)

\* Every file has somebody who knows of it.
Accounted ==
    /\ \A c \in temporary : \E r \in Requests : At(r, "publish") /\ req[r].new = c
    /\ \A c \in files : (\E b \in Books : books[b].cover = c) \/ InHand(c) \/ c \in replaced

LEMMA BeginsAccounted ==
  ASSUME Typed, Accounted, NEW r \in Requests, NEW b \in Books,
         \/ UploadBookCover(r, b) \/ DeleteBookCover(r, b)
         \/ CreateBook(r, b) \/ DeleteBook(r, b)
  PROVE  errors' = 0 => Accounted'
  <1> USE CoversAssumption
  <1>0. /\ req \in [Requests -> Request] /\ books \in [Books -> Book] /\ books[b] \in Book
        /\ errors \in Nat
    BY DEF Typed
  <1>1. At(r, "idle") /\ UNCHANGED <<temporary, files, replaced>>
    BY DEF UploadBookCover, DeleteBookCover, CreateBook, DeleteBook, history
  <1>2. \A s \in Requests \ {r} : req'[s] = req[s]
    BY <1>0 DEF UploadBookCover, DeleteBookCover, CreateBook, DeleteBook, Enter
  <1>3. \A c \in temporary : \E s \in Requests : (At(s, "publish") /\ req[s].new = c)'
    BY <1>1, <1>2 DEF Accounted, At
  <1>4. \A c : InHand(c) => InHand(c)'
    BY <1>1, <1>2 DEF InHand, At
  <1>5. CASE UNCHANGED books
    BY <1>1, <1>3, <1>4, <1>5 DEF Accounted
  <1>6. CASE CreateBook(r, b)
    <2>1. \A a \in Books : books'[a].cover = books[a].cover
      BY <1>0, <1>6 DEF CreateBook, Book
    <2> QED
      BY <1>1, <1>3, <1>4, <2>1 DEF Accounted
  <1>7. CASE DeleteBook(r, b) /\ errors' = 0
    <2>1. \A a \in Books \ {b} : books'[a] = books[a]
      BY <1>0, <1>7 DEF DeleteBook
    <2>2. req'[r].step = "remove_old" /\ req'[r].old = books[b].cover
      BY <1>0, <1>7 DEF DeleteBook, Enter, Fail
    <2>3. \A c : c = books[b].cover => InHand(c)'
      BY <2>2 DEF InHand
    <2> QED
      BY <1>1, <1>3, <1>4, <2>1, <2>3 DEF Accounted
  <1> QED
    BY <1>5, <1>6, <1>7 DEF UploadBookCover, DeleteBookCover

LEMMA StoresAccounted ==
  ASSUME Typed, Accounted, NEW r \in Requests, WriteTemporary(r) \/ Publish(r)
  PROVE  errors' = 0 => Accounted'
  <1> USE CoversAssumption
  <1> SUFFICES ASSUME errors' = 0 PROVE Accounted'
    OBVIOUS
  <1>0. req \in [Requests -> Request] /\ errors \in Nat /\ ~Fail
    BY DEF Typed, Fail
  <1>1. UNCHANGED <<books, replaced>>
    BY DEF WriteTemporary, Publish, history
  <1>2. \A s \in Requests \ {r} : req'[s] = req[s]
    BY <1>0 DEF WriteTemporary, Publish, Go
  <1>3. CASE WriteTemporary(r)
    <2>1. PICK c \in Covers : /\ temporary' = temporary \cup {c}
                              /\ req'[r].step = "publish" /\ req'[r].new = c
      BY <1>0, <1>3 DEF WriteTemporary, Request
    <2>2. UNCHANGED files /\ req[r].step = "write"
      BY <1>3 DEF WriteTemporary, At
    <2>3. \A d : InHand(d) => InHand(d)'
      BY <1>2, <2>2 DEF InHand
    <2> QED
      BY <1>1, <1>2, <2>1, <2>2, <2>3 DEF Accounted, At
  <1>4. CASE Publish(r)
    <2>1. /\ temporary' = temporary \ {req[r].new} /\ files' = files \cup {req[r].new}
          /\ req[r].step = "publish" /\ req'[r].step = "attach" /\ req'[r].new = req[r].new
      BY <1>0, <1>4 DEF Publish, At, Go, Request
    <2>2. \A d : InHand(d) \/ d = req[r].new => InHand(d)'
      BY <1>2, <2>1 DEF InHand
    <2> QED
      BY <1>1, <1>2, <2>1, <2>2 DEF Accounted, At
  <1> QED
    BY <1>3, <1>4

\* What a request takes off a row it has in hand, if it has read it there.
LEMMA UpdatesAccounted ==
  ASSUME Sound, Accounted, NEW r \in Requests, Attach(r) \/ Detach(r)
  PROVE  errors' = 0 => Accounted'
  <1> USE CoversAssumption
  <1> DEFINE q == req[r]
  <1> SUFFICES ASSUME errors' = 0 PROVE Accounted'
    OBVIOUS
  <1>0. /\ Typed /\ Known /\ req \in [Requests -> Request] /\ q \in Request
        /\ q.book \in Books /\ books \in [Books -> Book] /\ errors \in Nat /\ ~Fail
        /\ q.step \in {"attach", "detach"}
    BY DEF Sound, Typed, SlotOK, Attach, Detach, At, Fail
  <1>1. UNCHANGED <<temporary, files>> /\ replaced \subseteq replaced'
    BY DEF Attach, Detach, SetCover
  <1>2. \A s \in Requests \ {r} : req'[s] = req[s]
    BY <1>0 DEF Attach, Detach, Go, Done
  <1>3. \A c \in temporary : \E s \in Requests : (At(s, "publish") /\ req[s].new = c)'
    BY <1>0, <1>2 DEF Accounted, At
  <1>4. \A c : InHand(c) => InHand(c)' \/ (q.step = "attach" /\ c = q.new)
    BY <1>0, <1>2 DEF InHand
  <1>5. ASSUME NEW new \in Covers \cup {None}, SetCover(q, new), Go(r, "remove_old"),
               q.step = "attach" => new = q.new
        PROVE  Accounted'
    <2>1. \A a \in Books : books'[a].cover = IF a = q.book THEN new ELSE books[a].cover
      BY <1>0, <1>5, CoverSet
    <2>2. req'[r].step = "remove_old" /\ req'[r].old = q.old
      BY <1>0, <1>5 DEF Go, Request
    <2>3. /\ books[q.book].cover \in {q.old, None} \cup replaced'
          /\ \A c : c = q.old => InHand(c)'
      BY <1>5, <2>2 DEF SetCover, InHand
    <2>4. None \notin files
      BY <1>0 DEF Typed
    <2> QED
      BY <1>0, <1>1, <1>3, <1>4, <1>5, <2>1, <2>3, <2>4 DEF Accounted
  <1>6. ASSUME UNCHANGED books, q.step = "attach" => Go(r, "remove_new")
        PROVE  Accounted'
    <2>1. q.step = "attach" => \A c : c = q.new => InHand(c)'
      BY <1>0, <1>6 DEF InHand, Go, Request
    <2> QED
      BY <1>1, <1>3, <1>4, <1>6, <2>1 DEF Accounted
  <1>7. CASE Attach(r)
    BY <1>0, <1>5, <1>6, <1>7 DEF Attach, At, Request
  <1>8. CASE Detach(r)
    BY <1>0, <1>5, <1>6, <1>8 DEF Detach, At
  <1> QED
    BY <1>7, <1>8

LEMMA RemovalsAccounted ==
  ASSUME Typed, Accounted, NEW r \in Requests, RemoveOld(r) \/ RemoveNew(r)
  PROVE  errors' = 0 => Accounted'
  <1> USE CoversAssumption
  <1> SUFFICES ASSUME errors' = 0 PROVE Accounted'
    OBVIOUS
  <1>0. req \in [Requests -> Request] /\ errors \in Nat /\ ~Fail
    BY DEF Typed, Fail
  <1>1. UNCHANGED <<books, temporary, replaced>>
    BY DEF RemoveOld, RemoveNew, history
  <1>2. (\A s \in Requests \ {r} : req'[s] = req[s]) /\ ~At(r, "publish")
    BY <1>0 DEF RemoveOld, RemoveNew, Done, At
  <1>3. \A c \in files' : c \in files /\ (InHand(c) => InHand(c)')
    BY <1>0, <1>2 DEF RemoveOld, RemoveNew, RemoveStoredCover, InHand, At
  <1> QED
    BY <1>1, <1>2, <1>3 DEF Accounted, RemoveOld, RemoveNew, At

\* While nothing has failed, a file in the directory that no row names and no
\* request has in hand is one that a request took off a row where it had not
\* read it.
THEOREM OnlyLostUpdatesLeaveFiles == Spec => []LeftoversAreLostUpdates
  <1>1. Init => LeftoversAreLostUpdates
    BY DEF Init, LeftoversAreLostUpdates
  <1>2. LeftoversAreLostUpdates <=> (errors = 0 => Accounted)
    BY DEF LeftoversAreLostUpdates, Accounted
  <1>3. ASSUME Sound, LeftoversAreLostUpdates, [Next]_vars
        PROVE  LeftoversAreLostUpdates'
    <2>1. ASSUME errors' = 0, Next
          PROVE  Accounted'
      <3>1. Typed /\ errors \in Nat
        BY <1>3, CoversAssumption DEF Sound, Typed
      <3>2. ~Fail /\ errors = 0
        <4>1. errors' = errors \/ errors' = errors + 1
          BY <2>1 DEF Fail, Unharmed, Next, UploadBookCover, DeleteBookCover, CreateBook,
                      DeleteBook, WriteTemporary, Publish, Attach, Detach, RemoveOld,
                      RemoveNew, RemoveStoredCover, Restart
        <4> QED
          BY <2>1, <3>1, <4>1 DEF Fail
      <3>3. Accounted
        BY <1>2, <1>3, <3>2
      <3> QED
        BY <1>3, <2>1, <3>1, <3>2, <3>3, BeginsAccounted, StoresAccounted,
           UpdatesAccounted, RemovalsAccounted DEF Next, Restart
    <2>2. CASE UNCHANGED vars
      BY <1>3, <2>2 DEF vars, LeftoversAreLostUpdates, InHand, At
    <2>3. LeftoversAreLostUpdates' <=> (errors' = 0 => Accounted')
      BY DEF LeftoversAreLostUpdates, Accounted
    <2> QED
      BY <1>3, <2>1, <2>2, <2>3
  <1> QED
    BY <1>1, <1>3, SoundInit, SoundStep, PTL DEF Spec
=============================================================================
