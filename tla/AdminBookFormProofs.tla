------------------------- MODULE AdminBookFormProofs -------------------------
(***************************************************************************)
(* Proofs about the teacher's form of a book, for any number of books,     *)
(* ISBNs, look-ups, calls, failures and changes.                           *)
(***************************************************************************)
EXTENDS AdminBookForm, FiniteSetTheorems, TLAPS

\* Ids are neither null nor names of the form's own places; null is no book.
FormConstants ==
    /\ None \notin Books /\ "elsewhere" \notin Books /\ "new" \notin Books
    /\ None \notin Book
    /\ MaxLookups \in Nat

-----------------------------------------------------------------------------
(* What holds of the form between any two steps.                           *)

Answers == {"none", "ok", "refused", "failed"}

Stored == Book \cup {None}

\* A call that may be under way.
FormCallOK(c) ==
    /\ \/ c \in [op: {"get"}, id: Books, arg: {None}, to: {"page", "gone"}, answer: Answers,
                 data: Stored]
       \/ c \in [op: {"lookup"}, id: {None},
                 arg: [isbn: ISBNs, replace: BOOLEAN, request: 1 .. MaxLookups],
                 to: {"page", "gone"}, answer: Answers,
                 data: [isbn: ISBNs, cover: ISBNs \cup {None}] \cup {None}]
       \/ c \in [op: {"save"}, id: Books \cup {None},
                 arg: [form: Form, upload: ISBNs \cup {None, Chosen}],
                 to: {"page", "left", "gone"}, answer: Answers, data: Stored]
       \/ c \in [op: {"upload"}, id: Books, arg: [cover: ISBNs \cup {Chosen}, isNew: BOOLEAN],
                 to: {"page", "left", "gone"}, answer: Answers, data: Stored]
       \/ c \in [op: {"uncover"}, id: Books, arg: {None}, to: {"page", "gone"}, answer: Answers,
                 data: Stored]
       \/ c \in [op: {"toggle"}, id: Books, arg: [is_active: BOOLEAN], to: {"page", "gone"},
                 answer: Answers, data: Stored]
       \/ c \in [op: {"delete"}, id: Books, arg: {None}, to: {"page", "left", "gone"},
                 answer: Answers, data: {None}]
    /\ c.to = "gone" => c.answer = "none"
    /\ c.answer = "ok" /\ c.op = "lookup" =>
         c.data.isbn = c.arg.isbn /\ c.data.cover \in {None, c.arg.isbn}
    /\ c.answer = "ok" /\ c.op \in Telling =>
         c.data \in Book /\ (c.id # None => c.data.id = c.id)

\* What submit and removeBook send: one call at a time, under the same lock.
Submitted == {"save", "upload", "delete"}

FormPageOK ==
    /\ page.at = "elsewhere" => page = NoPage
    /\ \A c \in calls : c.to = "page" =>
         /\ page.at # "elsewhere"
         /\ c.op = "get" => c.id = page.at
         /\ c.op = "lookup" => c.arg.request <= page.request
         /\ c.op \in {"toggle", "uncover"} => page.book # None
         /\ c.op \in Submitted => page.saving
    /\ \A c, d \in calls :
         c.to = "page" /\ d.to = "page" /\ c.op \in Submitted /\ d.op \in Submitted => c = d
    /\ LocksHaveTheirCalls

FormScanOK ==
    /\ ScannedStays
    /\ scanned # None =>
         \A c \in calls : c.to = "page" /\ c.op = "lookup" /\ c.arg.request = page.request =>
           c.arg.isbn = scanned

\* A new book is still being saved, or its cover is, or the form has gone on to it.
FormMadeOK ==
    /\ \E m : made \subseteq {m}
    /\ page.at \in {"elsewhere", "new"} /\ made # {} =>
         \E c \in calls : c.to = "page" /\ c.op \in {"save", "upload"}
    /\ \A c \in calls : c.to = "page" =>
         /\ (c.op = "save" /\ c.id # None) \/ (c.op = "upload" /\ ~c.arg.isNew) \/ c.op = "delete"
              => page.at # "new"
         /\ c.op = "save" /\ c.id = None =>
              made \subseteq IF c.answer = "ok" THEN {c.data.id} ELSE {}

\* The page has a book or will have one.
HasBook == page.book # None \/ page.at \notin {"elsewhere", "new"}

ToldPage(ops) == {c \in calls : c.to = "page" /\ c.answer = "ok" /\ c.op \in ops}

\* A book just made is known to nobody but the form it was made for.
JustMade(c) == c \in ToldPage({"save"}) /\ c.id = None

Secret(c) ==
    /\ books[c.data.id] = c.data /\ page.at # c.data.id
    /\ page.book # None => page.book.id # c.data.id
    /\ \A d \in calls : /\ d.id # c.data.id
                        /\ d # c /\ d.op = "save" /\ d.answer = "ok" => d.data.id # c.data.id

\* What the page will have for its book once it has taken the answer in.
Pending(c) ==
    /\ c.op # "toggle" => books[c.data.id] = c.data
    /\ c.op = "get" /\ page.book # None => page.book = books[page.book.id]
    /\ c.op = "toggle" =>
         /\ c.id = page.book.id
         /\ books[c.id] = [page.book EXCEPT !.is_active = c.data.is_active]

FormBookOK ==
    /\ \A b \in Books : books[b] # None => books[b].id = b
    /\ \A c \in calls : JustMade(c) => Secret(c)
    /\ HasBook /\ ~behind =>
         /\ \A c \in calls : c.op \in {"get", "lookup"} \/ c.to = "page"
         /\ \A c, d \in calls :
              c.to = "page" /\ d.to = "page" /\ c.op \in Telling /\ d.op \in Telling => c = d
         /\ \A c \in calls : c.to = "page" /\ c.op = "toggle" => c.id = page.book.id
         /\ ToldPage({"delete"}) = {} =>
              /\ \A c \in ToldPage(Telling) : Pending(c)
              /\ ToldPage(Telling) = {} /\ page.book # None => page.book = books[page.book.id]

FormOK ==
    /\ TypeOK
    /\ \A c \in calls : FormCallOK(c)
    /\ FormPageOK /\ FormScanOK /\ FormMadeOK /\ FormBookOK

-----------------------------------------------------------------------------
(* The teacher.                                                            *)

LEMMA FormTypes ==
  ASSUME FormOK
  PROVE  /\ page \in Page /\ books \in [Books -> Stored]
         /\ page.form \in Form /\ page.form.isbn \in ISBNs \cup {Blank}
         /\ page.form.title \in ISBNs \cup {Blank, Typed}
         /\ page.book \in Stored /\ page.found \in ISBNs \cup {None} /\ page.file \in {None, Chosen}
         /\ page.request \in 0 .. MaxLookups /\ page.at \in Books \cup {"elsewhere", "new"}
         /\ scanned \in ISBNs \cup {None} /\ made \subseteq Books /\ behind \in BOOLEAN
         /\ page.saving \in BOOLEAN /\ page.toggling \in BOOLEAN /\ page.loading \in BOOLEAN
         /\ faults \in 0 .. MaxFaults /\ changes \in 0 .. MaxChanges
  BY DEF FormOK, TypeOK, Page, Form, Stored

\* The fields of the form are filled in.
LEMMA FormEditKeeps ==
  ASSUME FormOK, page.at # "elsewhere", NEW p \in Page, page' = p,
         p.at = page.at, p.loading = page.loading, p.book = page.book, p.request = page.request,
         p.lookingUp = page.lookingUp, p.saving = page.saving, p.toggling = page.toggling,
         scanned' \in {scanned, None}, ScannedStays',
         UNCHANGED <<books, calls, behind, made, faults, changes>>
  PROVE  FormOK'
  <1>1. TypeOK' /\ (\A c \in calls : FormCallOK(c))'
    BY DEF FormOK, TypeOK, FormCallOK
  <1>2. FormPageOK'
    BY DEF FormOK, FormPageOK, LocksHaveTheirCalls
  <1>3. FormScanOK'
    BY DEF FormOK, FormScanOK
  <1>4. FormMadeOK'
    BY DEF FormOK, FormMadeOK
  <1>5. FormBookOK'
    <2>1. \A ops : ToldPage(ops)' = ToldPage(ops)
      BY DEF ToldPage
    <2>2. \A c : (JustMade(c)' <=> JustMade(c)) /\ (Secret(c)' <=> Secret(c))
                 /\ (Pending(c)' <=> Pending(c))
      BY <2>1 DEF JustMade, Secret, Pending
    <2>3. HasBook' <=> HasBook
      BY DEF HasBook
    <2> QED
      BY <2>1, <2>2, <2>3 DEF FormOK, FormBookOK
  <1> QED
    BY <1>1, <1>2, <1>3, <1>4, <1>5 DEF FormOK

\* The form sends a call about its book.
LEMMA FormAskKeeps ==
  ASSUME FormConstants, FormOK, page.at # "elsewhere", NEW p \in Page, page' = p,
         p.at = page.at, p.loading = page.loading, p.book = page.book,
         NEW c, FormCallOK(c), c.op # "get", c.to = "page", c.answer = "none",
         calls' = calls \cup {c},
         behind' = (behind \/ {d \in calls : d.to = "page" /\ d.op \in Telling} # {}),
         UNCHANGED <<books, made, faults, changes>>,
         c.id \in {None, page.at} \/ (page.book # None /\ c.id = page.book.id),
         IF c.op = "lookup"
         THEN /\ p.request = page.request + 1 /\ c.arg.request = p.request
              /\ scanned' \in ISBNs \cup {None} /\ ScannedStays'
              /\ scanned' # None => c.arg.isbn = scanned'
         ELSE /\ p.request = page.request /\ p.lookingUp = page.lookingUp
              /\ p.form = page.form /\ p.found = page.found /\ scanned' = scanned,
         IF c.op \in Submitted
         THEN /\ ~page.saving /\ p.saving /\ c.op # "upload"
              /\ c.id = None <=> page.at = "new"
         ELSE p.saving = page.saving,
         c.op \in {"toggle", "uncover"} => page.book # None,
         IF c.op = "toggle" THEN c.id = page.book.id ELSE p.toggling = page.toggling
  PROVE  FormOK'
  <1>1. TypeOK' /\ (\A d \in calls : FormCallOK(d))'
    <2>1. behind' \in BOOLEAN /\ scanned' \in ISBNs \cup {None}
      BY FormTypes
    <2> QED
      BY <2>1 DEF FormOK, TypeOK, FormCallOK
  <1>2. FormPageOK'
    <2>1. \A d \in calls : d.to = "page" => ~(c.op \in Submitted /\ d.op \in Submitted)
      BY DEF FormOK, FormPageOK
    <2>2. \A d \in calls : d.to = "page" /\ d.op = "lookup" => d.arg.request <= p.request
      <3>1. SUFFICES ASSUME NEW d \in calls, d.to = "page", d.op = "lookup"
                     PROVE  d.arg.request <= p.request
        OBVIOUS
      <3>2. d.arg.request <= page.request /\ page.request \in Nat
        BY <3>1, FormTypes DEF FormOK, FormPageOK
      <3>3. d.arg.request \in Nat
        BY <3>1 DEF FormOK, FormCallOK
      <3> QED
        BY <3>2, <3>3
    <2>3. c.op = "lookup" => c.arg.request <= p.request
      BY FormTypes
    <2>4. LocksHaveTheirCalls'
      BY FormTypes DEF FormOK, FormPageOK, LocksHaveTheirCalls, Submitted
    <2> QED
      BY <2>1, <2>2, <2>3, <2>4 DEF FormOK, FormPageOK
  <1>3. FormScanOK'
    <2>1. CASE c.op = "lookup"
      <3>1. \A d \in calls : d.to = "page" /\ d.op = "lookup" => d.arg.request # p.request
        <4>1. SUFFICES ASSUME NEW d \in calls, d.to = "page", d.op = "lookup"
                       PROVE  d.arg.request # p.request
          OBVIOUS
        <4>2. d.arg.request <= page.request /\ page.request \in Nat
          BY <4>1, FormTypes DEF FormOK, FormPageOK
        <4>3. d.arg.request \in Nat
          BY <4>1 DEF FormOK, FormCallOK
        <4> QED
          BY <2>1, <4>2, <4>3
      <3> QED
        BY <2>1, <3>1 DEF FormScanOK
    <2>2. CASE c.op # "lookup"
      BY <2>2 DEF FormOK, FormScanOK, ScannedStays
    <2> QED
      BY <2>1, <2>2
  <1>4. FormMadeOK'
    <2>1. c.op = "save" /\ c.id = None => made = {}
      BY DEF FormOK, FormPageOK, FormMadeOK, Submitted
    <2>2. c.op = "delete" => c.id # None
      BY DEF FormCallOK, FormConstants
    <2> QED
      BY <2>1, <2>2 DEF FormOK, FormMadeOK, Submitted
  <1>5. FormBookOK'
    <2>1. \A ops : ToldPage(ops)' = ToldPage(ops)
      BY DEF ToldPage
    <2>2. \A d : (JustMade(d)' <=> JustMade(d)) /\ (Pending(d)' <=> Pending(d))
      BY <2>1 DEF JustMade, Pending
    <2>3. HasBook' <=> HasBook
      BY DEF HasBook
    <2>4. \A d \in calls : JustMade(d) => Secret(d)'
      <3>1. SUFFICES ASSUME NEW d \in calls, JustMade(d)
                     PROVE  Secret(d)'
        OBVIOUS
      <3>2. Secret(d) /\ d.data.id \in Books
        BY <3>1 DEF FormOK, FormBookOK, FormCallOK, JustMade, ToldPage, Telling, Book
      <3>3. c.id # d.data.id
        BY <3>2 DEF Secret, FormConstants
      <3> QED
        BY <3>2, <3>3 DEF Secret
    <2>5. \A d \in calls' : JustMade(d)' => d \in calls
      BY <2>1 DEF JustMade, ToldPage
    <2> QED
      BY <2>1, <2>2, <2>3, <2>4, <2>5 DEF FormOK, FormBookOK
  <1> QED
    BY <1>1, <1>2, <1>3, <1>4, <1>5 DEF FormOK

\* Nothing is sent from elsewhere, nor made.
LEMMA FormElsewhere ==
  ASSUME FormOK, page.at = "elsewhere"
  PROVE  page = NoPage /\ made = {} /\ \A c \in calls : c.to # "page"
  BY DEF FormOK, FormPageOK, FormMadeOK

\* The form is left for the list of books.
LEMMA FormToListKeeps ==
  ASSUME FormConstants, FormOK, NEW sent \in SUBSET calls, ToList(sent),
         UNCHANGED <<books, faults, changes>>
  PROVE  FormOK'
  <1>1. /\ page' = NoPage /\ calls' = Unmounted(sent)
        /\ behind' = FALSE /\ made' = {} /\ scanned' = None
    BY DEF ToList
  <1>2. \A c \in calls' : c.to # "page" /\ FormCallOK(c)
    <2>1. SUFFICES ASSUME NEW c \in calls'
                   PROVE  c.to # "page" /\ FormCallOK(c)
      OBVIOUS
    <2>2. CASE \E d \in sent : d.op \in {"save", "upload", "delete"} /\ d.to # "gone"
                               /\ c = [d EXCEPT !.to = "left"]
      <3>1. PICK d \in sent : d.op \in {"save", "upload", "delete"} /\ d.to # "gone"
                               /\ c = [d EXCEPT !.to = "left"]
        BY <2>2
      <3>2. FormCallOK(d)
        BY DEF FormOK
      <3> QED
        BY <3>1, <3>2 DEF FormCallOK
    <2>3. CASE \E d \in sent : d.answer = "none" /\ c = [d EXCEPT !.to = "gone"]
      <3>1. PICK d \in sent : d.answer = "none" /\ c = [d EXCEPT !.to = "gone"]
        BY <2>3
      <3>2. FormCallOK(d)
        BY DEF FormOK
      <3> QED
        BY <3>1, <3>2 DEF FormCallOK
    <2> QED
      BY <1>1, <2>1, <2>2, <2>3 DEF Unmounted
  <1>3. page'.form = blankBook /\ page'.found = None /\ page'.book = None /\ page'.at = "elsewhere"
        /\ ~page'.saving /\ ~page'.toggling /\ ~page'.loading /\ ~page'.lookingUp
    BY <1>1 DEF NoPage
  <1>4. TypeOK'
    <2>1. blankBook \in Form
      BY DEF blankBook, Form
    <2>2. NoPage \in Page
      BY <2>1 DEF NoPage, Page, FormConstants
    <2> QED
      BY <1>1, <2>2 DEF FormOK, TypeOK
  <1>5. FormPageOK' /\ FormScanOK' /\ FormMadeOK'
    BY <1>1, <1>2, <1>3 DEF FormPageOK, FormScanOK, FormMadeOK, LocksHaveTheirCalls, ScannedStays
  <1>6. FormBookOK'
    BY <1>2, <1>3 DEF FormOK, FormBookOK, JustMade, ToldPage, HasBook
  <1> QED
    BY <1>2, <1>4, <1>5, <1>6 DEF FormOK

\* The form of a new book is opened.
LEMMA FormOpenNewKeeps ==
  ASSUME FormConstants, FormOK, OpenNew
  PROVE  FormOK'
  <1>1. /\ page = NoPage /\ made = {} /\ \A c \in calls : c.to # "page"
        /\ page' = [NoPage EXCEPT !.at = "new"]
        /\ UNCHANGED <<calls, behind, made, scanned, books, faults, changes>>
    BY FormElsewhere DEF OpenNew, Turn, history, Teaching
  <1>2. page'.form = page.form /\ page'.found = page.found /\ page'.book = None /\ page'.at = "new"
        /\ ~page'.saving /\ ~page'.toggling /\ ~page'.loading /\ ~page'.lookingUp
    BY <1>1 DEF NoPage
  <1>3. TypeOK' /\ (\A c \in calls : FormCallOK(c))'
    BY <1>1 DEF FormOK, TypeOK, FormCallOK, NoPage, Page
  <1>4. FormPageOK' /\ FormMadeOK'
    BY <1>1, <1>2 DEF FormPageOK, FormMadeOK, LocksHaveTheirCalls
  <1>5. FormScanOK'
    BY <1>1, <1>2 DEF FormOK, FormScanOK, ScannedStays
  <1>6. FormBookOK'
    BY <1>1, <1>2 DEF FormOK, FormBookOK, JustMade, ToldPage, HasBook
  <1> QED
    BY <1>3, <1>4, <1>5, <1>6 DEF FormOK

\* The form of a known book is opened, by the teacher or by a page that was
\* left while it saved it, and loads it.
LEMMA FormOpenBookKeeps ==
  ASSUME FormConstants, FormOK, page.at = "elsewhere", NEW id \in Books, NEW sent \in SUBSET calls,
         page' = [NoPage EXCEPT !.at = id, !.loading = TRUE],
         calls' = sent \cup {Request("get", id, None)},
         behind' \in BOOLEAN, behind' \/ sent = {},
         UNCHANGED <<books, made, scanned, faults, changes>>
  PROVE  FormOK'
  <1> DEFINE g == Request("get", id, None)
  <1>1. page = NoPage /\ made = {} /\ \A c \in calls : c.to # "page"
    BY FormElsewhere
  <1>2. page'.form = page.form /\ page'.found = page.found /\ page'.book = None /\ page'.at = id
        /\ ~page'.saving /\ ~page'.toggling /\ page'.loading /\ ~page'.lookingUp
    BY <1>1 DEF NoPage
  <1>3. g.op = "get" /\ g.id = id /\ g.to = "page" /\ g.answer = "none" /\ FormCallOK(g)
    BY DEF Request, FormCallOK, Answers, Stored
  <1>4. g \in calls' /\ \A c \in calls' : c = g \/ (c \in calls /\ c.to # "page")
    BY <1>1
  <1> HIDE DEF g
  <1>5. TypeOK' /\ (\A c \in calls : FormCallOK(c))'
    BY <1>1, <1>3, <1>4 DEF FormOK, TypeOK, FormCallOK, NoPage, Page
  <1>6. FormPageOK' /\ FormMadeOK'
    BY <1>1, <1>2, <1>3, <1>4 DEF FormPageOK, FormMadeOK, LocksHaveTheirCalls, FormConstants, Submitted
  <1>7. FormScanOK'
    BY <1>1, <1>2, <1>3, <1>4 DEF FormOK, FormScanOK, ScannedStays
  <1>8. FormBookOK'
    <2>1. \A ops : ToldPage(ops)' = {}
      BY <1>3, <1>4 DEF ToldPage
    <2>2. \A c \in calls : ~JustMade(c)'
      BY <2>1 DEF JustMade
    <2>3. ~behind' => calls' = {g}
      BY DEF g
    <2>4. (\A b \in Books : books[b] # None => books[b].id = b)'
      BY DEF FormOK, FormBookOK
    <2> QED
      BY <1>2, <1>3, <2>1, <2>2, <2>3, <2>4 DEF FormBookOK, JustMade
  <1> QED
    BY <1>5, <1>6, <1>7, <1>8 DEF FormOK

-----------------------------------------------------------------------------
(* The server.                                                             *)

\* A call is answered, fails or is given up: the page still waits for it.
LEMMA FormMoved ==
  ASSUME FormConstants, FormOK, NEW c \in calls, NEW D, calls' = (calls \ {c}) \cup D,
         \A d \in D : /\ FormCallOK(d)
                      /\ d.op = c.op /\ d.id = c.id /\ d.arg = c.arg /\ d.to \in {c.to, "gone"},
         \A d, e \in D : d.to = "page" /\ e.to = "page" => d = e,
         c.to = "page" => \E d \in D : d.to = "page",
         UNCHANGED <<page, scanned>>
  PROVE  (\A d \in calls : FormCallOK(d))' /\ FormPageOK' /\ FormScanOK'
  <1>1. \A d \in calls' : FormCallOK(d)
    BY DEF FormOK
  <1>2. \A d \in calls' : d.to = "page" =>
          \E e \in calls : e.to = "page" /\ e.op = d.op /\ e.id = d.id /\ e.arg = d.arg
                           /\ (e = d \/ (e = c /\ d \in D))
    OBVIOUS
  <1>3. \A e \in calls : e.to = "page" =>
          \E d \in calls' : d.to = "page" /\ d.op = e.op /\ d.id = e.id /\ d.arg = e.arg
    OBVIOUS
  <1>4. LocksHaveTheirCalls'
    BY <1>3 DEF FormOK, FormPageOK, LocksHaveTheirCalls
  <1>5. ASSUME NEW d \in calls', NEW e \in calls', d.to = "page", e.to = "page",
               d.op \in Submitted, e.op \in Submitted
        PROVE  d = e
    <2>1. CASE d \in D /\ e \in D
      BY <1>5, <2>1
    <2>2. CASE d \notin D /\ e \notin D
      BY <1>5, <2>2 DEF FormOK, FormPageOK
    <2>3. CASE d \in D /\ e \notin D
      BY <1>5, <2>3 DEF FormOK, FormPageOK
    <2>4. CASE d \notin D /\ e \in D
      BY <1>5, <2>4 DEF FormOK, FormPageOK
    <2> QED
      BY <2>1, <2>2, <2>3, <2>4
  <1>6. FormPageOK'
    BY <1>2, <1>4, <1>5 DEF FormOK, FormPageOK
  <1>7. FormScanOK'
    BY <1>2 DEF FormOK, FormScanOK, ScannedStays
  <1> QED
    BY <1>1, <1>6, <1>7

\* The answer that is sent back, if anybody waits for it.
Answered(c, answer, data) ==
    IF c.to = "gone" THEN {} ELSE {[c EXCEPT !.answer = answer, !.data = data]}

\* The handler answers and changes no book.
LEMMA FormReplyKeeps ==
  ASSUME FormConstants, FormOK, NEW c \in calls, c.answer = "none",
         NEW answer \in {"ok", "refused", "failed"}, NEW data, Reply(c, answer, data),
         answer # "ok" => data = None,
         answer = "ok" => \/ c.op = "get" /\ data = books[c.id] /\ books[c.id] # None
                          \/ /\ c.op = "lookup" /\ data.isbn = c.arg.isbn
                             /\ data.cover \in {None, c.arg.isbn}
                             /\ data \in [isbn: ISBNs, cover: ISBNs \cup {None}],
         UNCHANGED <<books, page, scanned, made, behind, faults>>, changes' \in 0 .. MaxChanges
  PROVE  FormOK'
  <1> DEFINE d == [c EXCEPT !.answer = answer, !.data = data]
             D == Answered(c, answer, data)
  <1>1. calls' = (calls \ {c}) \cup D
    BY DEF Reply, Answered
  <1>2. d.op = c.op /\ d.id = c.id /\ d.arg = c.arg /\ d.to = c.to /\ d.answer = answer /\ d.data = data
    BY DEF FormOK, FormCallOK
  <1>3. FormCallOK(c)
    BY DEF FormOK
  <1>4. c.op = "get" /\ answer = "ok" => data \in Book /\ data.id = c.id /\ books[data.id] = data
    BY <1>3, FormTypes DEF FormOK, FormBookOK, FormCallOK, Stored
  <1>5. c.to # "gone" => FormCallOK(d)
    <2>1. CASE answer # "ok"
      BY <1>2, <1>3, <2>1 DEF FormCallOK, Answers, Stored
    <2>2. CASE answer = "ok" /\ c.op = "get"
      BY <1>2, <1>3, <1>4, <2>2 DEF FormCallOK, Answers, Stored
    <2>3. CASE answer = "ok" /\ c.op = "lookup"
      BY <1>2, <1>3, <2>3 DEF FormCallOK, Answers, Telling
    <2> QED
      BY <2>1, <2>2, <2>3
  <1>6. \A e \in D : c.to # "gone" /\ e = d
    BY DEF Answered
  <1>7. c.to = "page" => d \in D
    BY DEF Answered
  <1> HIDE DEF d, D
  <1>8. (\A e \in calls : FormCallOK(e))' /\ FormPageOK' /\ FormScanOK'
    BY <1>1, <1>2, <1>5, <1>6, <1>7, FormMoved
  <1>9. TypeOK'
    BY DEF FormOK, TypeOK
  <1>10. \A e \in calls' : e \in calls \/ (e = d /\ c.to # "gone")
    BY <1>1, <1>6
  <1>11. FormMadeOK'
    <2>1. page.at \in {"elsewhere", "new"} /\ made # {} =>
            \E e \in calls' : e.to = "page" /\ e.op \in {"save", "upload"}
      BY <1>1, <1>2, <1>7 DEF FormOK, FormMadeOK
    <2>2. c.op = "save" => answer # "ok"
      BY <1>3
    <2> QED
      BY <1>2, <1>3, <1>10, <2>1, <2>2 DEF FormOK, FormMadeOK
  <1>12. FormBookOK'
    <2>1. \A e \in calls' : JustMade(e)' => e \in calls /\ JustMade(e)
      BY <1>2, <1>3, <1>10 DEF JustMade, ToldPage
    <2>2. \A e \in calls' : \E f \in calls : e.id = f.id /\ e.op = f.op
                              /\ (e.answer = "ok" /\ e.op = "save" => f = e)
      BY <1>2, <1>10
    <2>3. \A e \in calls' : JustMade(e)' => Secret(e)'
      BY <2>1, <2>2 DEF FormOK, FormBookOK, Secret
    <2>4. ASSUME HasBook', ~behind'
          PROVE  /\ \A e \in calls' : e.op \in {"get", "lookup"} \/ e.to = "page"
                 /\ \A e, f \in calls' : e.to = "page" /\ f.to = "page" /\ e.op \in Telling
                                         /\ f.op \in Telling => e = f
                 /\ \A e \in calls' : e.to = "page" /\ e.op = "toggle" => e.id = page'.book.id
      <3>1. HasBook /\ ~behind
        BY <2>4 DEF HasBook
      <3>2. \A e \in calls' : e.op \in {"get", "lookup"} \/ e.to = "page"
        BY <1>2, <1>10, <3>1 DEF FormOK, FormBookOK
      <3>3. \A e, f \in calls' : e.to = "page" /\ f.to = "page" /\ e.op \in Telling
                                         /\ f.op \in Telling => e = f
        BY <1>1, <1>2, <1>6, <3>1 DEF FormOK, FormBookOK
      <3>4. \A e \in calls' : e.to = "page" /\ e.op = "toggle" => e.id = page'.book.id
        BY <1>2, <1>10, <3>1 DEF FormOK, FormBookOK
      <3> QED
        BY <3>2, <3>3, <3>4
    <2>5. ASSUME HasBook', ~behind', ToldPage({"delete"})' = {}
          PROVE  /\ \A e \in ToldPage(Telling)' : Pending(e)'
                 /\ ToldPage(Telling)' = {} /\ page'.book # None =>
                      page'.book = books'[page'.book.id]
      <3>1. HasBook /\ ~behind
        BY <2>5 DEF HasBook
      <3>2. ToldPage({"delete"}) = {}
        BY <1>1, <2>5 DEF ToldPage
      <3>3. \A e : Pending(e)' <=> Pending(e)
        BY DEF Pending
      <3>4. CASE c.to = "page" /\ c.op = "get" /\ answer = "ok"
        <4>1. ToldPage(Telling) = {}
          BY <3>1, <3>4 DEF ToldPage, Telling, FormOK, FormBookOK
        <4>2. page.book # None => page.book = books[page.book.id]
          BY <3>1, <3>2, <4>1 DEF FormOK, FormBookOK
        <4>3. Pending(d)
          BY <1>2, <1>4, <3>4, <4>2 DEF Pending
        <4>4. ToldPage(Telling)' = {d}
          BY <1>1, <1>2, <1>6, <1>7, <3>4, <4>1 DEF ToldPage, Telling
        <4> QED
          BY <3>3, <4>3, <4>4
      <3>5. CASE ~(c.to = "page" /\ c.op = "get" /\ answer = "ok")
        <4>1. ToldPage(Telling)' = ToldPage(Telling)
          BY <1>1, <1>2, <1>6, <3>5 DEF ToldPage, Telling
        <4> QED
          BY <3>1, <3>2, <3>3, <4>1 DEF FormOK, FormBookOK
      <3> QED
        BY <3>4, <3>5
    <2>6. (\A b \in Books : books[b] # None => books[b].id = b)'
      BY DEF FormOK, FormBookOK
    <2> QED
      BY <2>3, <2>4, <2>5, <2>6 DEF FormBookOK
  <1> QED
    BY <1>8, <1>9, <1>11, <1>12 DEF FormOK

\* The connection breaks: what the page knows of its book may be old from now
\* on, unless it only wanted to read.
LEMMA FormLoseKeeps ==
  ASSUME FormConstants, FormOK, NEW c \in calls, Lose(c)
  PROVE  FormOK'
  <1> DEFINE f == [c EXCEPT !.answer = "failed", !.data = None]
             g == [c EXCEPT !.to = "gone"]
  <1>1. FormCallOK(c)
    BY DEF FormOK
  <1>2. /\ c.to # "gone" /\ UNCHANGED <<books, page, scanned, changes>> /\ faults' \in 0 .. MaxFaults
        /\ behind' = (behind \/ c.op \notin {"get", "lookup"})
        /\ made' = IF c.op = "save" /\ c.answer = "ok" THEN made \ {c.data.id} ELSE made
    <2>1. faults' \in 0 .. MaxFaults
      BY BrowserAssumption DEF FormOK, TypeOK, Lose, Fail
    <2> QED
      BY <2>1 DEF Lose, Fail
  <1>3. PICK D : /\ calls' = (calls \ {c}) \cup D
                 /\ D = {f} \/ (c.answer = "none" /\ D = {f, g})
    BY DEF Lose, Fail
  <1>4. /\ f.op = c.op /\ f.id = c.id /\ f.arg = c.arg /\ f.to = c.to /\ f.answer = "failed"
        /\ g.op = c.op /\ g.id = c.id /\ g.arg = c.arg /\ g.to = "gone" /\ g.answer = c.answer
        /\ FormCallOK(f) /\ (c.answer = "none" => FormCallOK(g))
    BY <1>1, <1>2 DEF FormCallOK, Answers, Stored, Telling
  <1> HIDE DEF f, g
  <1>5. (\A e \in calls : FormCallOK(e))' /\ FormPageOK' /\ FormScanOK'
    BY <1>2, <1>3, <1>4, FormMoved
  <1>6. TypeOK'
    BY <1>2, FormTypes DEF FormOK, TypeOK
  <1>7. \A e \in calls' : (e \in calls /\ e # c) \/ e = f \/ (e = g /\ c.answer = "none")
    BY <1>3
  <1>8. \A e \in calls' : e.answer = "ok" => e \in calls /\ e # c
    BY <1>4, <1>7
  <1>9. FormMadeOK'
    <2>1. \A e \in calls : e.to = "page" =>
            \E d \in calls' : d.to = "page" /\ d.op = e.op
      BY <1>3, <1>4
    <2>2. made' \subseteq made
      BY <1>2
    <2>3. c.to = "page" /\ c.op = "save" /\ c.id = None => made' = {}
      BY <1>2 DEF FormOK, FormMadeOK
    <2>4. ASSUME NEW e \in calls', e.to = "page", e.op = "save", e.id = None
          PROVE  made' \subseteq IF e.answer = "ok" THEN {e.data.id} ELSE {}
      <3>1. CASE e \in calls /\ e # c
        BY <2>2, <2>4, <3>1 DEF FormOK, FormMadeOK
      <3>2. CASE e = f
        BY <1>4, <2>3, <2>4, <3>2
      <3>3. CASE e = g
        BY <1>4, <2>4, <3>3
      <3> QED
        BY <1>7, <3>1, <3>2, <3>3
    <2>5. \A e \in calls' : e.to = "page" =>
            \E d \in calls : d.to = "page" /\ d.op = e.op /\ d.id = e.id /\ d.arg = e.arg
      BY <1>4, <1>7
    <2> QED
      BY <1>2, <2>1, <2>2, <2>4, <2>5 DEF FormOK, FormMadeOK
  <1>10. FormBookOK'
    <2>1. \A e \in calls' : JustMade(e)' => e \in calls /\ JustMade(e)
      BY <1>8 DEF JustMade, ToldPage
    <2>2. \A e \in calls' : \E d \in calls : e.id = d.id /\ e.op = d.op
                              /\ (e.answer = "ok" /\ e.op = "save" => d = e)
      BY <1>4, <1>7, <1>8
    <2>3. \A e \in calls' : JustMade(e)' => Secret(e)'
      BY <1>2, <2>1, <2>2 DEF FormOK, FormBookOK, Secret
    <2>4. HasBook' /\ ~behind' => HasBook /\ ~behind /\ c.op \in {"get", "lookup"}
      BY <1>2 DEF HasBook
    <2>5. ASSUME HasBook', ~behind'
          PROVE  /\ \A e \in calls' : e.op \in {"get", "lookup"} \/ e.to = "page"
                 /\ \A e, d \in calls' : e.to = "page" /\ d.to = "page" /\ e.op \in Telling
                                         /\ d.op \in Telling => e = d
                 /\ \A e \in calls' : e.to = "page" /\ e.op = "toggle" => e.id = page'.book.id
      <3>1. \A e \in calls' : e.op \in {"get", "lookup"} \/ e.to = "page"
        BY <1>4, <1>7, <2>4, <2>5 DEF FormOK, FormBookOK
      <3>2. \A e, d \in calls' : e.to = "page" /\ d.to = "page" /\ e.op \in Telling
                                         /\ d.op \in Telling => e = d
        BY <1>4, <1>7, <2>4, <2>5 DEF FormOK, FormBookOK
      <3>3. \A e \in calls' : e.to = "page" /\ e.op = "toggle" => e.id = page'.book.id
        BY <1>2, <1>4, <1>7, <2>4, <2>5 DEF FormOK, FormBookOK
      <3> QED
        BY <3>1, <3>2, <3>3
    <2>6. ASSUME HasBook', ~behind', ToldPage({"delete"})' = {}
          PROVE  /\ \A e \in ToldPage(Telling)' : Pending(e)'
                 /\ ToldPage(Telling)' = {} /\ page'.book # None =>
                      page'.book = books'[page'.book.id]
      <3>1. ToldPage({"delete"}) = {}
        BY <1>3, <2>4, <2>6 DEF ToldPage
      <3>2. \A e : Pending(e)' <=> Pending(e)
        BY <1>2 DEF Pending
      <3>3. ToldPage(Telling)' = ToldPage(Telling) \ {c}
        BY <1>3, <1>8 DEF ToldPage
      <3>4. CASE c \in ToldPage(Telling)
        <4>1. Pending(c) /\ c.op = "get"
          BY <2>4, <2>6, <3>1, <3>4 DEF FormOK, FormBookOK, ToldPage, Telling
        <4> QED
          BY <1>2, <2>4, <2>6, <3>1, <3>2, <3>3, <4>1 DEF FormOK, FormBookOK, Pending
      <3>5. CASE c \notin ToldPage(Telling)
        BY <1>2, <2>4, <2>6, <3>1, <3>2, <3>3, <3>5 DEF FormOK, FormBookOK
      <3> QED
        BY <3>4, <3>5
    <2>7. (\A b \in Books : books[b] # None => books[b].id = b)'
      BY <1>2 DEF FormOK, FormBookOK
    <2> QED
      BY <2>3, <2>5, <2>6, <2>7 DEF FormBookOK
  <1> QED
    BY <1>5, <1>6, <1>9, <1>10 DEF FormOK

\* The handler changes a book, or makes one whose id nobody knows yet.
LEMMA FormStoreKeeps ==
  ASSUME FormConstants, FormOK, NEW c \in calls, c.answer = "none",
         c.op \in {"save", "upload", "uncover", "toggle", "delete"},
         NEW id \in Books, NEW book \in Stored, Store(c, id, book),
         book # None => book.id = id,
         c.op = "delete" <=> book = None,
         c.op = "toggle" => book = [books[id] EXCEPT !.is_active = c.arg.is_active],
         IF c.id = None
         THEN c.op = "save" /\ Fresh(id)
              /\ made' = IF c.to = "page" THEN made \cup {id} ELSE made
         ELSE c.id = id /\ made' = made,
         UNCHANGED <<page, behind, scanned, faults>>
  PROVE  FormOK'
  <1> DEFINE d == [c EXCEPT !.answer = "ok", !.data = book]
             D == Answered(c, "ok", book)
  <1>1. calls' = (calls \ {c}) \cup D /\ books' = [books EXCEPT ![id] = book]
        /\ changes' \in 0 .. MaxChanges
    <2>1. changes' \in 0 .. MaxChanges
      BY BrowserAssumption DEF FormOK, TypeOK, Store, Change
    <2> QED
      BY <2>1 DEF Store, Change, Reply, Answered
  <1>2. d.op = c.op /\ d.id = c.id /\ d.arg = c.arg /\ d.to = c.to /\ d.answer = "ok" /\ d.data = book
    BY DEF FormOK, FormCallOK
  <1>3. FormCallOK(c)
    BY DEF FormOK
  <1>4. c.op # "delete" => book \in Book /\ book.id = id /\ (c.id # None => book.id = c.id)
    BY DEF Stored
  <1>5. c.to # "gone" => FormCallOK(d)
    <2>1. CASE c.op = "delete"
      BY <1>2, <1>3, <2>1 DEF FormCallOK, Answers, Telling
    <2>2. CASE c.op # "delete"
      BY <1>2, <1>3, <1>4, <2>2 DEF FormCallOK, Answers
    <2> QED
      BY <2>1, <2>2
  <1>6. \A e \in D : c.to # "gone" /\ e = d
    BY DEF Answered
  <1>7. c.to = "page" => d \in D
    BY DEF Answered
  <1> HIDE DEF d, D
  <1>8. (\A e \in calls : FormCallOK(e))' /\ FormPageOK' /\ FormScanOK'
    BY <1>1, <1>2, <1>5, <1>6, <1>7, FormMoved
  <1>9. books' \in [Books -> Stored] /\ books'[id] = book
        /\ \A b \in Books : b # id => books'[b] = books[b]
    BY <1>1, FormTypes
  <1>10. TypeOK'
    BY <1>1, <1>9, FormTypes DEF FormOK, TypeOK, Stored
  <1>11. \A e \in calls' : (e \in calls /\ e # c) \/ (e = d /\ c.to # "gone")
    BY <1>1, <1>6
  <1>12. FormMadeOK'
    <2>1. page.at \in {"elsewhere", "new"} /\ made' # {} =>
            \E e \in calls' : e.to = "page" /\ e.op \in {"save", "upload"}
      BY <1>1, <1>2, <1>7 DEF FormOK, FormMadeOK
    <2>2. c.to = "page" /\ c.id = None => made = {} /\ made' = {id}
      BY DEF FormOK, FormMadeOK
    <2>3. ASSUME NEW e \in calls', e.to = "page", e.op = "save", e.id = None
          PROVE  made' \subseteq IF e.answer = "ok" THEN {e.data.id} ELSE {}
      <3>1. CASE e = d
        BY <1>2, <1>4, <2>2, <2>3, <3>1
      <3>2. CASE e \in calls /\ e # c
        <4>1. ~(c.to = "page" /\ c.id = None)
          BY <2>3, <3>2 DEF FormOK, FormPageOK, Submitted
        <4> QED
          BY <2>3, <3>2, <4>1 DEF FormOK, FormMadeOK
      <3> QED
        BY <1>11, <3>1, <3>2
    <2>4. \A e \in calls' : e.to = "page" =>
            \E f \in calls : f.to = "page" /\ f.op = e.op /\ f.id = e.id /\ f.arg = e.arg
      BY <1>2, <1>11
    <2>5. \E m : made' \subseteq {m}
      BY <2>2 DEF FormOK, FormMadeOK
    <2> QED
      BY <2>1, <2>3, <2>4, <2>5 DEF FormOK, FormMadeOK
  <1>13. FormBookOK'
    <2>1. \A b \in Books : books'[b] # None => books'[b].id = b
      BY <1>9 DEF FormOK, FormBookOK
    <2>2. ASSUME NEW e \in calls', JustMade(e)'
          PROVE  Secret(e)'
      <3>1. CASE e \in calls /\ e # c
        <4>1. JustMade(e) /\ Secret(e) /\ e.data.id \in Books
          BY <2>2, <3>1 DEF FormOK, FormBookOK, JustMade, ToldPage, FormCallOK, Telling, Book
        <4>2. id # e.data.id
          BY <3>1, <4>1 DEF Secret, Fresh, JustMade, ToldPage
        <4>3. books'[e.data.id] = e.data /\ page'.at # e.data.id
              /\ (page'.book # None => page'.book.id # e.data.id)
          BY <1>9, <4>1, <4>2 DEF Secret
        <4>4. ASSUME NEW f \in calls'
              PROVE  f.id # e.data.id /\ (f # e /\ f.op = "save" /\ f.answer = "ok" =>
                                            f.data.id # e.data.id)
          <5>1. CASE f \in calls
            BY <4>1, <5>1 DEF Secret
          <5>2. CASE f = d
            BY <1>2, <1>4, <4>1, <4>2, <5>2 DEF Secret
          <5> QED
            BY <1>11, <5>1, <5>2
        <4> QED
          BY <4>3, <4>4 DEF Secret
      <3>2. CASE e = d
        <4>1. c.id = None /\ Fresh(id) /\ e.data = book /\ book.id = id /\ c.op = "save"
          BY <1>2, <1>4, <2>2, <3>2 DEF JustMade, ToldPage
        <4>2. books'[e.data.id] = e.data /\ page'.at # e.data.id
              /\ (page'.book # None => page'.book.id # e.data.id)
          BY <1>9, <4>1 DEF Fresh
        <4>3. ASSUME NEW f \in calls'
              PROVE  f.id # e.data.id /\ (f # e /\ f.op = "save" /\ f.answer = "ok" =>
                                            f.data.id # e.data.id)
          BY <1>2, <1>11, <3>2, <4>1 DEF Fresh, FormConstants
        <4> QED
          BY <4>2, <4>3 DEF Secret
      <3> QED
        BY <1>11, <3>1, <3>2
    <2>3. ASSUME HasBook', ~behind'
          PROVE  /\ HasBook /\ ~behind /\ c.to = "page"
                 /\ \A e \in calls' : e.op \in {"get", "lookup"} \/ e.to = "page"
                 /\ \A e, f \in calls' : e.to = "page" /\ f.to = "page" /\ e.op \in Telling
                                         /\ f.op \in Telling => e = f
                 /\ \A e \in calls' : e.to = "page" /\ e.op = "toggle" => e.id = page'.book.id
      <3>1. HasBook /\ ~behind
        BY <2>3 DEF HasBook
      <3>2. c.to = "page" /\ \A e \in calls' : e.op \in {"get", "lookup"} \/ e.to = "page"
        BY <1>2, <1>11, <3>1 DEF FormOK, FormBookOK
      <3>3. \A e, f \in calls' : e.to = "page" /\ f.to = "page" /\ e.op \in Telling
                                         /\ f.op \in Telling => e = f
        BY <1>1, <1>2, <1>6, <3>1 DEF FormOK, FormBookOK
      <3>4. \A e \in calls' : e.to = "page" /\ e.op = "toggle" => e.id = page'.book.id
        BY <1>2, <1>11, <3>1 DEF FormOK, FormBookOK
      <3> QED
        BY <3>1, <3>2, <3>3, <3>4
    <2>4. ASSUME HasBook', ~behind', ToldPage({"delete"})' = {}
          PROVE  /\ \A e \in ToldPage(Telling)' : Pending(e)'
                 /\ ToldPage(Telling)' = {} /\ page'.book # None =>
                      page'.book = books'[page'.book.id]
      <3>1. HasBook /\ ~behind /\ c.to = "page" /\ d \in calls'
        BY <1>1, <1>7, <2>3, <2>4
      <3>2. c.op # "delete" /\ c.op \in Telling
        BY <1>2, <2>4, <3>1 DEF ToldPage, Telling
      <3>3. ToldPage({"delete"}) = {}
        BY <1>1, <2>4 DEF ToldPage
      <3>4. ToldPage(Telling) = {}
        BY <3>1, <3>2 DEF ToldPage, FormOK, FormBookOK
      <3>5. ToldPage(Telling)' = {d}
        BY <1>2, <1>11, <3>1, <3>2, <3>4 DEF ToldPage
      <3>6. Pending(d)'
        <4>1. CASE c.op = "toggle"
          <5>1. page.book # None /\ c.id = page.book.id /\ c.id = id
            BY <3>1, <4>1 DEF FormOK, FormPageOK, FormBookOK
          <5>2. page.book = books[id]
            BY <3>1, <3>3, <3>4, <5>1 DEF FormOK, FormBookOK
          <5>3. book = [page.book EXCEPT !.is_active = c.arg.is_active] /\ page.book \in Book
            BY <4>1, <5>1, <5>2, FormTypes DEF Stored
          <5>4. book.is_active = c.arg.is_active
            BY <5>3 DEF Book
          <5> QED
            BY <1>2, <1>9, <4>1, <5>1, <5>3, <5>4 DEF Pending
        <4>2. CASE c.op # "toggle"
          BY <1>2, <1>4, <1>9, <3>2, <4>2 DEF Pending
        <4> QED
          BY <4>1, <4>2
      <3> QED
        BY <3>5, <3>6
    <2> QED
      BY <2>1, <2>2, <2>3, <2>4 DEF FormBookOK
  <1> QED
    BY <1>8, <1>10, <1>12, <1>13 DEF FormOK

LEMMA FormServeKeeps ==
  ASSUME FormConstants, FormOK, NEW c \in calls, Serve(c)
  PROVE  FormOK'
  <1>1. FormCallOK(c) /\ c.answer = "none" /\ UNCHANGED <<page, faults, behind, scanned>>
        /\ changes \in 0 .. MaxChanges
    BY FormTypes DEF FormOK, Serve
  <1>2. ASSUME NEW answer \in {"refused", "failed"}, NoChange(c, answer, None),
               UNCHANGED <<books, made>>
        PROVE  FormOK'
    BY <1>1, <1>2, FormReplyKeeps DEF NoChange
  <1>3. CASE getAdminBook(c)
    <2>1. /\ c.op = "get" /\ books[c.id] # None /\ Reply(c, "ok", books[c.id])
          /\ UNCHANGED <<books, made, changes>>
      BY <1>3 DEF getAdminBook, Untouched, NoChange
    <2> QED
      BY <1>1, <2>1, FormReplyKeeps
  <1>4. CASE lookupBookMetadata(c)
    <2>1. CASE Untouched(c, "refused", None)
      BY <1>2, <2>1 DEF Untouched
    <2>2. ASSUME NEW cover \in {None, c.arg.isbn},
                 Untouched(c, "ok", [isbn |-> c.arg.isbn, cover |-> cover])
          PROVE  FormOK'
      <3> DEFINE data == [isbn |-> c.arg.isbn, cover |-> cover]
      <3>1. c.op = "lookup" /\ Reply(c, "ok", data) /\ UNCHANGED <<books, made, changes>>
        BY <1>4, <2>2 DEF lookupBookMetadata, Untouched, NoChange
      <3>2. data \in [isbn: ISBNs, cover: ISBNs \cup {None}] /\ data.isbn = c.arg.isbn
            /\ data.cover \in {None, c.arg.isbn}
        BY <1>1, <3>1 DEF FormCallOK
      <3> HIDE DEF data
      <3> QED
        BY <1>1, <3>1, <3>2, FormReplyKeeps
    <2> QED
      BY <1>4, <2>1, <2>2 DEF lookupBookMetadata
  <1>5. CASE createBook(c)
    <2>1. c.op = "save" /\ c.id = None
      BY <1>5 DEF createBook
    <2>2. CASE Untouched(c, "refused", None)
      BY <1>2, <2>2 DEF Untouched
    <2>3. ASSUME NEW id \in Books, Fresh(id), NEW cover \in {None} \cup ({c.arg.form.isbn} \ {Blank}),
                 Store(c, id, [id |-> id, form |-> c.arg.form, cover |-> cover, is_active |-> TRUE]),
                 made' = IF c.to = "page" THEN made \cup {id} ELSE made
          PROVE  FormOK'
      <3> DEFINE book == [id |-> id, form |-> c.arg.form, cover |-> cover, is_active |-> TRUE]
      <3>1. c.arg.form \in Form /\ c.arg.form.isbn \in ISBNs \cup {Blank}
        BY <1>1, <2>1 DEF FormCallOK, Form
      <3>2. book \in Book /\ book.id = id /\ Store(c, id, book)
        BY <2>3, <3>1 DEF Book
      <3> HIDE DEF book
      <3>3. book \in Stored /\ book # None
        BY <3>2 DEF Stored, FormConstants
      <3> QED
        BY <1>1, <2>1, <2>3, <3>2, <3>3, FormStoreKeeps
    <2> QED
      BY <1>5, <2>2, <2>3 DEF createBook
  <1>6. CASE updateBook(c)
    <2>1. c.op = "save" /\ c.id # None /\ books[c.id] # None /\ c.id \in Books
      BY <1>1, <1>6 DEF updateBook, FormCallOK
    <2>2. CASE Untouched(c, "refused", None)
      BY <1>2, <2>2 DEF Untouched
    <2>3. CASE Store(c, c.id, [books[c.id] EXCEPT !.form = c.arg.form]) /\ UNCHANGED made
      <3> DEFINE book == [books[c.id] EXCEPT !.form = c.arg.form]
      <3>1. c.arg.form \in Form /\ books[c.id] \in Book /\ books[c.id].id = c.id
        BY <1>1, <2>1, FormTypes DEF FormCallOK, Stored, FormOK, FormBookOK
      <3>2. book \in Book /\ book.id = c.id
        BY <3>1 DEF Book
      <3>3. Store(c, c.id, book) /\ made' = made
        BY <2>3
      <3> HIDE DEF book
      <3>4. book \in Stored /\ book # None
        BY <3>2 DEF Stored, FormConstants
      <3> QED
        BY <1>1, <2>1, <3>2, <3>3, <3>4, FormStoreKeeps
    <2> QED
      BY <1>6, <2>2, <2>3 DEF updateBook
  <1>7. CASE ChangeBook(c)
    <2>1. c.op \in {"upload", "uncover", "toggle"} /\ c.id \in Books /\ books[c.id] # None
          /\ c.id # None /\ made' = made
      BY <1>1, <1>7 DEF ChangeBook, FormCallOK, FormConstants
    <2>2. books[c.id] \in Book /\ books[c.id].id = c.id
      BY <2>1, FormTypes DEF Stored, FormOK, FormBookOK
    <2>3. PICK book : /\ Store(c, c.id, book)
                      /\ c.op = "upload" => book = [books[c.id] EXCEPT !.cover = c.arg.cover]
                      /\ c.op = "uncover" => book = [books[c.id] EXCEPT !.cover = None]
                      /\ c.op = "toggle" => book = [books[c.id] EXCEPT !.is_active = c.arg.is_active]
      BY <1>7, <2>1 DEF ChangeBook
    <2>4. book \in Book /\ book.id = c.id
      <3>1. CASE c.op = "upload"
        <4>1. c.arg.cover \in ISBNs \cup {Chosen}
          BY <1>1, <3>1 DEF FormCallOK
        <4> QED
          BY <2>2, <2>3, <3>1, <4>1 DEF Book
      <3>2. CASE c.op = "uncover"
        BY <2>2, <2>3, <3>2 DEF Book
      <3>3. CASE c.op = "toggle"
        <4>1. c.arg.is_active \in BOOLEAN
          BY <1>1, <3>3 DEF FormCallOK
        <4> QED
          BY <2>2, <2>3, <3>3, <4>1 DEF Book
      <3> QED
        BY <2>1, <3>1, <3>2, <3>3
    <2>5. book \in Stored /\ book # None
      BY <2>4 DEF Stored, FormConstants
    <2> QED
      BY <1>1, <2>1, <2>3, <2>4, <2>5, FormStoreKeeps
  <1>8. CASE deleteBook(c)
    <2>1. c.op = "delete" /\ c.id \in Books /\ c.id # None
      BY <1>1, <1>8 DEF deleteBook, FormCallOK, FormConstants
    <2>2. CASE Untouched(c, "refused", None)
      BY <1>2, <2>2 DEF Untouched
    <2>3. CASE Store(c, c.id, None) /\ UNCHANGED made
      BY <1>1, <2>1, <2>3, FormStoreKeeps DEF Stored
    <2> QED
      BY <1>8, <2>2, <2>3 DEF deleteBook
  <1>9. CASE NotFound(c)
    BY <1>2, <1>9 DEF NotFound, Untouched
  <1>10. CASE Overloaded(c) /\ UNCHANGED <<books, made>>
    BY <1>2, <1>10 DEF Overloaded
  <1> QED
    BY <1>3, <1>4, <1>5, <1>6, <1>7, <1>8, <1>9, <1>10 DEF Serve

-----------------------------------------------------------------------------
(* The answers arrive.                                                     *)

\* An answer is taken in and the form stays.
LEMMA FormHeardKeeps ==
  ASSUME FormConstants, FormOK, NEW c \in calls, c.answer # "none", calls' = calls \ {c},
         c.op \in Submitted /\ c.answer = "ok" => c.op = "save" /\ c.id # None,
         NEW p \in Page, page' = p, p.at = page.at, p.request = page.request,
         c.to # "page" => p = page,
         IF c.to = "page" /\ c.op \in Submitted THEN ~p.saving ELSE p.saving = page.saving,
         IF c.op = "toggle" THEN ~p.toggling ELSE p.toggling = page.toggling,
         IF c.op = "get" THEN ~p.loading ELSE p.loading = page.loading,
         IF c.op = "lookup" /\ c.arg.request = page.request THEN ~p.lookingUp
         ELSE p.lookingUp = page.lookingUp,
         p.book = IF c.answer # "ok" \/ c.op = "lookup" \/ c.to # "page" THEN page.book
                  ELSE IF c.op = "toggle" THEN [page.book EXCEPT !.is_active = c.data.is_active]
                  ELSE c.data,
         scanned' \in {scanned, None}, ScannedStays',
         c.to = "page" /\ c.op \in Submitted /\ page.at = "new" => made = {},
         UNCHANGED <<books, made, behind, faults, changes>>
  PROVE  FormOK'
  <1>1. FormCallOK(c) /\ (c.to = "page" \/ c.op \in Submitted)
    BY DEF FormOK, FormCallOK, Submitted
  <1>2. c.to = "page" => page.at # "elsewhere"
    BY DEF FormOK, FormPageOK
  <1>3. TypeOK' /\ (\A e \in calls : FormCallOK(e))'
    BY DEF FormOK, TypeOK, FormCallOK
  <1> DEFINE Told == c.answer = "ok" /\ c.op \in Telling /\ c.to = "page"
  <1>4. /\ c.answer = "ok" /\ c.op \in {"get", "uncover", "toggle"} => Told
        /\ Told => /\ c.op \in {"get", "uncover", "toggle", "save"}
                   /\ c.data \in Book /\ c.data.id = c.id /\ c.id \in Books
                   /\ p.book \in Book /\ p.book # None
        /\ Told /\ c.op = "save" => page.at \in Books
        /\ ~Told => p.book = page.book
    <2>1. c.answer = "ok" /\ c.op \in {"get", "uncover", "toggle"} => Told
      BY <1>1 DEF FormCallOK, Telling, FormConstants, Submitted
    <2>2. Told => /\ c.op \in {"get", "uncover", "toggle", "save"}
                  /\ c.data \in Book /\ c.data.id = c.id /\ c.id \in Books
      BY <1>1 DEF FormCallOK, Telling, FormConstants, Submitted
    <2>3. c.to = "page" /\ c.op = "toggle" => page.book \in Book
      BY FormTypes DEF FormOK, FormPageOK, Stored
    <2>4. Told /\ c.op = "toggle" => p.book \in Book
      BY <2>2, <2>3 DEF Book
    <2>5. Told /\ c.op = "save" => page.at \in Books
      BY <1>2, FormTypes DEF FormOK, FormMadeOK, Submitted
    <2>6. ~Told => p.book = page.book
      BY <1>1 DEF FormCallOK, Telling, Submitted
    <2> QED
      BY <2>1, <2>2, <2>4, <2>5, <2>6 DEF FormConstants
  <1> HIDE DEF Told
  <1>5. page.book # None => p.book # None
    BY <1>4
  <1>6. FormPageOK'
    <2>1. page'.at = "elsewhere" => page' = NoPage
      BY <1>2 DEF FormOK, FormPageOK
    <2>2. \A e \in calls' : e \in calls /\ e # c
      OBVIOUS
    <2>3. \A e \in calls' : e.to = "page" /\ e.op \in Submitted => p.saving
      BY <2>2 DEF FormOK, FormPageOK
    <2>4. LocksHaveTheirCalls'
      <3>1. \A e \in calls : e # c => e \in calls'
        OBVIOUS
      <3>2. p.saving => \E e \in calls' : e.to = "page" /\ e.op \in {"save", "upload", "delete"}
        BY <3>1 DEF FormOK, FormPageOK, LocksHaveTheirCalls, Submitted
      <3>3. p.toggling => \E e \in calls' : e.to = "page" /\ e.op \in {"toggle"}
        BY <3>1 DEF FormOK, FormPageOK, LocksHaveTheirCalls
      <3>4. p.loading => \E e \in calls' : e.to = "page" /\ e.op \in {"get"}
        BY <3>1 DEF FormOK, FormPageOK, LocksHaveTheirCalls
      <3>5. p.lookingUp => \E e \in calls' : e.op = "lookup" /\ e.to = "page"
                                             /\ e.arg.request = page.request
        BY <3>1 DEF FormOK, FormPageOK, LocksHaveTheirCalls
      <3> QED
        BY <3>2, <3>3, <3>4, <3>5 DEF LocksHaveTheirCalls
    <2> QED
      BY <1>5, <2>1, <2>2, <2>3, <2>4 DEF FormOK, FormPageOK
  <1>7. FormScanOK'
    BY DEF FormOK, FormScanOK
  <1>8. FormMadeOK'
    <2>1. page.at \in {"elsewhere", "new"} /\ made # {} =>
            \E e \in calls' : e.to = "page" /\ e.op \in {"save", "upload"}
      BY <1>2 DEF FormOK, FormMadeOK, Submitted
    <2> QED
      BY <2>1 DEF FormOK, FormMadeOK
  <1>9. FormBookOK'
    <2>1. HasBook' <=> HasBook
      <3>1. Told /\ c.op \in {"get", "save"} => HasBook
        BY <1>4 DEF FormOK, FormPageOK, HasBook, FormConstants, Told
      <3>2. Told /\ c.op \in {"uncover", "toggle"} => page.book # None
        BY DEF FormOK, FormPageOK, Told
      <3> QED
        BY <1>4, <3>1, <3>2 DEF HasBook
    <2>2. ASSUME NEW e \in calls', JustMade(e)'
          PROVE  Secret(e)'
      <3>1. JustMade(e) /\ Secret(e) /\ e \in calls
        BY <2>2 DEF FormOK, FormBookOK, JustMade, ToldPage
      <3>2. p.book # None => p.book.id # e.data.id
        <4>1. CASE Told /\ c.op \in {"get", "uncover", "save"}
          BY <1>4, <3>1, <4>1 DEF Secret, Told
        <4>2. CASE Told /\ c.op = "toggle"
          <5>1. page.book # None /\ page.book \in Book
            BY <1>4, <4>2, FormTypes DEF FormOK, FormPageOK, Stored, Told
          <5>2. p.book.id = page.book.id
            BY <4>2, <5>1 DEF Book, Told
          <5> QED
            BY <3>1, <5>1, <5>2 DEF Secret
        <4>3. CASE p.book = page.book
          BY <3>1, <4>3 DEF Secret
        <4> QED
          BY <1>4, <4>1, <4>2, <4>3
      <3> QED
        BY <3>1, <3>2 DEF Secret
    <2>3. ASSUME HasBook', ~behind', ToldPage({"delete"})' = {}
          PROVE  /\ \A e \in ToldPage(Telling)' : Pending(e)'
                 /\ ToldPage(Telling)' = {} /\ page'.book # None =>
                      page'.book = books'[page'.book.id]
      <3>1. HasBook /\ ~behind /\ ToldPage({"delete"}) = {}
        BY <2>1, <2>3 DEF ToldPage, Submitted
      <3>2. c.op = "lookup" \/ c.to = "page"
        BY <1>1, <3>1 DEF FormOK, FormBookOK, FormCallOK
      <3>3. CASE c.op \in Telling
        <4>1. \A e \in calls' : ~(e.to = "page" /\ e.op \in Telling)
          BY <3>1, <3>2, <3>3 DEF FormOK, FormBookOK, Telling
        <4>2. ToldPage(Telling)' = {}
          BY <4>1 DEF ToldPage
        <4>3. p.book # None => p.book = books[p.book.id]
          <5>1. CASE Told
            <6>1. c \in ToldPage(Telling) /\ Pending(c)
              BY <3>1, <5>1 DEF FormOK, FormBookOK, ToldPage, Told
            <6>2. CASE c.op = "toggle"
              <7>1. page.book # None /\ page.book \in Book
                BY <5>1, <6>2, FormTypes DEF FormOK, FormPageOK, Stored, Told
              <7>2. p.book = [page.book EXCEPT !.is_active = c.data.is_active]
                    /\ p.book.id = page.book.id
                BY <5>1, <6>2, <7>1 DEF Book, Told
              <7> QED
                BY <6>1, <6>2, <7>2 DEF Pending
            <6>3. CASE c.op # "toggle"
              BY <1>4, <5>1, <6>1, <6>3 DEF Pending, Told
            <6> QED
              BY <6>2, <6>3
          <5>2. CASE c.answer # "ok"
            <6>1. ToldPage(Telling) = {}
              BY <4>1, <5>2 DEF ToldPage
            <6> QED
              BY <3>1, <5>2, <6>1 DEF FormOK, FormBookOK
          <5> QED
            BY <3>2, <3>3, <5>1, <5>2 DEF Told, Telling
        <4> QED
          BY <4>2, <4>3
      <3>4. CASE c.op \notin Telling
        <4>1. ToldPage(Telling)' = ToldPage(Telling)
          BY <3>4 DEF ToldPage
        <4>2. p.book = page.book
          BY <1>4, <3>4 DEF Told
        <4>3. \A e : Pending(e)' <=> Pending(e)
          BY <4>2 DEF Pending
        <4> QED
          BY <3>1, <4>1, <4>2, <4>3 DEF FormOK, FormBookOK
      <3> QED
        BY <3>3, <3>4
    <2>4. HasBook' /\ ~behind' =>
            /\ \A e \in calls' : e.op \in {"get", "lookup"} \/ e.to = "page"
            /\ \A e, f \in calls' : e.to = "page" /\ f.to = "page" /\ e.op \in Telling
                                    /\ f.op \in Telling => e = f
      BY <2>1 DEF FormOK, FormBookOK
    <2>5. ASSUME HasBook', ~behind', NEW e \in calls', e.to = "page", e.op = "toggle"
          PROVE  e.id = page'.book.id
      <3>1. c.op \notin Telling \/ c.to # "page"
        BY <2>1, <2>5 DEF FormOK, FormBookOK, Telling
      <3>2. p.book = page.book
        BY <1>4, <3>1 DEF Told
      <3> QED
        BY <2>1, <2>5, <3>2 DEF FormOK, FormBookOK
    <2>6. (\A b \in Books : books[b] # None => books[b].id = b)'
      BY DEF FormOK, FormBookOK
    <2> QED
      BY <2>2, <2>3, <2>4, <2>5, <2>6 DEF FormBookOK
  <1> QED
    BY <1>3, <1>6, <1>7, <1>8, <1>9 DEF FormOK

\* The book is saved, and its cover comes next.
LEMMA FormSavedKeeps ==
  ASSUME FormConstants, FormOK, NEW c \in calls, SaveArrives(c), c.answer = "ok",
         c.arg.upload # None, UNCHANGED <<books, faults, changes>>
  PROVE  FormOK'
  <1> DEFINE u == [Request("upload", c.data.id, [cover |-> c.arg.upload, isNew |-> c.id = None])
                     EXCEPT !.to = c.to]
  <1>1. /\ FormCallOK(c) /\ c.op = "save" /\ c.to \in {"page", "left"}
        /\ c.data \in Book /\ c.data.id \in Books /\ (c.id # None => c.data.id = c.id)
        /\ c.arg.upload \in ISBNs \cup {Chosen}
    BY DEF FormOK, FormCallOK, SaveArrives, Telling, Book
  <1>2. /\ page' = IF c.to = "page" THEN [page EXCEPT !.book = c.data] ELSE page
        /\ calls' = (calls \ {c}) \cup {u} /\ behind' = (behind \/ calls # {c})
        /\ UNCHANGED <<made, scanned>>
    BY DEF SaveArrives, Refused, Tell
  <1>3. /\ u.op = "upload" /\ u.id = c.data.id /\ u.to = c.to /\ u.answer = "none"
        /\ u.arg = [cover |-> c.arg.upload, isNew |-> c.id = None] /\ u.data = None
        /\ u \in [op: {"upload"}, id: Books, arg: [cover: ISBNs \cup {Chosen}, isNew: BOOLEAN],
                 to: {"page", "left", "gone"}, answer: Answers, data: Stored]
    BY <1>1 DEF Request, Answers, Stored
  <1> HIDE DEF u
  <1>4. FormCallOK(u)
    BY <1>1, <1>3 DEF FormCallOK
  <1>5. \A e \in calls' : (e \in calls /\ e # c) \/ e = u
    BY <1>2
  <1>6. PICK p : p = page'
    OBVIOUS
  <1>7. /\ p \in Page /\ p.at = page.at /\ p.form = page.form /\ p.found = page.found
        /\ p.request = page.request /\ p.saving = page.saving /\ p.toggling = page.toggling
        /\ p.loading = page.loading /\ p.lookingUp = page.lookingUp
        /\ p.book = (IF c.to = "page" THEN c.data ELSE page.book)
        /\ (c.to # "page" => p = page)
    <2>1. CASE c.to = "page"
      BY <1>1, <1>2, <1>6, <2>1, FormTypes DEF Page
    <2>2. CASE c.to # "page"
      BY <1>2, <1>6, <2>2, FormTypes
    <2> QED
      BY <2>1, <2>2
  <1>8. p.book # None \/ page.book = None
    BY <1>1, <1>7 DEF FormConstants
  <1>9. TypeOK' /\ (\A e \in calls : FormCallOK(e))'
    BY <1>2, <1>4, <1>5, <1>6, <1>7, FormTypes DEF FormOK, TypeOK
  <1>10. c.to = "page" => page.at # "elsewhere" /\ page.saving
    BY <1>1 DEF FormOK, FormPageOK, Submitted
  <1>11. FormPageOK'
    <2>1. LocksHaveTheirCalls'
      <3>1. \A e \in calls : e # c => e \in calls'
        BY <1>2
      <3>2. p.saving => \E e \in calls' : e.to = "page" /\ e.op \in {"save", "upload", "delete"}
        BY <1>2, <1>3, <1>7, <3>1 DEF FormOK, FormPageOK, LocksHaveTheirCalls
      <3>3. p.toggling => \E e \in calls' : e.to = "page" /\ e.op \in {"toggle"}
        BY <1>1, <1>7, <3>1 DEF FormOK, FormPageOK, LocksHaveTheirCalls
      <3>4. p.loading => \E e \in calls' : e.to = "page" /\ e.op \in {"get"}
        BY <1>1, <1>7, <3>1 DEF FormOK, FormPageOK, LocksHaveTheirCalls
      <3>5. p.lookingUp => \E e \in calls' : e.op = "lookup" /\ e.to = "page"
                                             /\ e.arg.request = p.request
        BY <1>1, <1>7, <3>1 DEF FormOK, FormPageOK, LocksHaveTheirCalls
      <3> QED
        BY <1>6, <3>2, <3>3, <3>4, <3>5 DEF LocksHaveTheirCalls
    <2>2. page'.at = "elsewhere" => page' = NoPage
      BY <1>6, <1>7, <1>10 DEF FormOK, FormPageOK
    <2>3. \A e, d \in calls' :
            e.to = "page" /\ d.to = "page" /\ e.op \in Submitted /\ d.op \in Submitted => e = d
      BY <1>1, <1>3, <1>5 DEF FormOK, FormPageOK, Submitted
    <2>4. ASSUME NEW e \in calls', e.to = "page"
          PROVE  /\ p.at # "elsewhere"
                 /\ e.op = "get" => e.id = p.at
                 /\ e.op = "lookup" => e.arg.request <= p.request
                 /\ e.op \in {"toggle", "uncover"} => p.book # None
                 /\ e.op \in Submitted => p.saving
      <3>1. CASE e \in calls /\ e # c
        BY <1>7, <1>8, <2>4, <3>1 DEF FormOK, FormPageOK
      <3>2. CASE e = u
        BY <1>3, <1>7, <1>10, <2>4, <3>2
      <3> QED
        BY <1>5, <3>1, <3>2
    <2> QED
      BY <1>6, <2>1, <2>2, <2>3, <2>4 DEF FormPageOK
  <1>12. FormScanOK'
    BY <1>2, <1>3, <1>5, <1>6, <1>7 DEF FormOK, FormScanOK, ScannedStays
  <1>13. FormMadeOK'
    <2>1. p.at \in {"elsewhere", "new"} /\ made # {} =>
            \E e \in calls' : e.to = "page" /\ e.op \in {"save", "upload"}
      BY <1>2, <1>3, <1>7 DEF FormOK, FormMadeOK
    <2>2. c.to = "page" /\ c.id # None => page.at # "new"
      BY <1>1 DEF FormOK, FormMadeOK
    <2>3. \A e \in calls' :
            e.to = "page" /\ ((e.op = "save" /\ e.id # None) \/ (e.op = "upload" /\ ~e.arg.isNew)
                              \/ e.op = "delete") => p.at # "new"
      BY <1>3, <1>5, <1>7, <2>2 DEF FormOK, FormMadeOK
    <2>4. \A e \in calls' : e.to = "page" /\ e.op = "save" /\ e.id = None =>
            made \subseteq IF e.answer = "ok" THEN {e.data.id} ELSE {}
      BY <1>3, <1>5 DEF FormOK, FormMadeOK
    <2> QED
      BY <1>2, <1>6, <2>1, <2>3, <2>4 DEF FormOK, FormMadeOK
  <1>14. FormBookOK'
    <2>1. (\A b \in Books : books[b] # None => books[b].id = b)'
      BY DEF FormOK, FormBookOK
    <2>2. ASSUME NEW e \in calls', JustMade(e)'
          PROVE  Secret(e)'
      <3>1. e \in calls /\ e # c /\ JustMade(e) /\ e.op = "save" /\ e.to = "page"
        BY <1>3, <1>5, <2>2 DEF JustMade, ToldPage
      <3>2. c.to # "page" /\ p = page
        BY <1>1, <1>7, <3>1 DEF FormOK, FormPageOK, Submitted
      <3>3. Secret(e) /\ c.data.id # e.data.id
        BY <1>1, <3>1 DEF FormOK, FormBookOK, Secret
      <3> QED
        BY <1>3, <1>5, <1>6, <3>2, <3>3 DEF Secret
    <2>3. ASSUME HasBook', ~behind'
          PROVE  calls' = {u} /\ u.to = "page" /\ ToldPage(Telling)' = {}
                 /\ page'.book = books'[page'.book.id]
      <3>1. calls = {c} /\ ~behind /\ calls' = {u}
        BY <1>2, <2>3
      <3>2. c.to = "page"
        BY <1>1, <1>6, <1>7, <2>3, <3>1 DEF HasBook, FormOK, FormBookOK
      <3>3. books[c.data.id] = c.data
        <4>1. CASE c.id = None
          <5>1. JustMade(c)
            BY <1>1, <3>2, <4>1 DEF JustMade, ToldPage
          <5> QED
            BY <5>1 DEF FormOK, FormBookOK, Secret
        <4>2. CASE c.id # None
          <5>1. HasBook
            BY <1>1, <1>10, <3>2, <4>2 DEF HasBook, FormOK, FormMadeOK
          <5>2. c \in ToldPage(Telling) /\ ToldPage({"delete"}) = {}
            BY <1>1, <3>1, <3>2 DEF ToldPage, Telling
          <5>3. Pending(c)
            BY <3>1, <5>1, <5>2 DEF FormOK, FormBookOK
          <5> QED
            BY <1>1, <5>3 DEF Pending
        <4> QED
          BY <4>1, <4>2
      <3>4. ToldPage(Telling)' = {}
        BY <1>3, <3>1 DEF ToldPage
      <3> QED
        BY <1>3, <1>6, <1>7, <3>1, <3>2, <3>3, <3>4
    <2>4. HasBook' /\ ~behind' =>
            /\ \A e \in calls' : e.to = "page" /\ e.op = "toggle" => e.id = page'.book.id
            /\ \A e, f \in calls' : e = f
            /\ \A e \in calls' : e.to = "page"
      BY <1>3, <2>3
    <2> QED
      BY <2>1, <2>2, <2>3, <2>4 DEF FormBookOK
  <1> QED
    BY <1>9, <1>11, <1>12, <1>13, <1>14 DEF FormOK

\* The cover of a new book has failed: the form goes on as that book's.
LEMMA FormToBookKeeps ==
  ASSUME FormConstants, FormOK, NEW c \in calls, c.op = "upload",
         c.answer \in {"refused", "failed"},
         NEW told \in Page, told = IF c.to = "page" THEN [page EXCEPT !.saving = FALSE] ELSE page,
         ToBook(calls \ {c}, c.id, told), UNCHANGED <<books, faults, changes>>
  PROVE  FormOK'
  <1> DEFINE g == Request("get", c.id, None)
             sent == {e \in calls \ {c} : e.op # "get"}
  <1>1. FormCallOK(c) /\ c.id \in Books /\ c.to \in {"page", "left"}
    BY DEF FormOK, FormCallOK
  <1>2. /\ calls' = sent \cup {g} /\ behind' = (behind \/ calls \ {c} # {})
        /\ UNCHANGED <<made, scanned, books, faults, changes>>
        /\ page' = IF page.at = "elsewhere" THEN [NoPage EXCEPT !.at = c.id, !.loading = TRUE]
                   ELSE [told EXCEPT !.at = c.id]
    BY DEF ToBook
  <1>3. CASE page.at = "elsewhere"
    <2>1. sent \in SUBSET calls /\ behind' \in BOOLEAN /\ (behind' \/ sent = {})
      BY <1>2, FormTypes
    <2> QED
      BY <1>1, <1>2, <1>3, <2>1, FormOpenBookKeeps
  <1>4. CASE page.at # "elsewhere"
    <2>1. PICK p : p = page'
      OBVIOUS
    <2>2. /\ p \in Page /\ p.at = c.id /\ p.form = page.form /\ p.found = page.found
          /\ p.request = page.request /\ p.toggling = page.toggling /\ p.loading = page.loading
          /\ p.lookingUp = page.lookingUp /\ p.book = page.book
          /\ p.saving = (page.saving /\ c.to # "page")
      BY <1>1, <1>2, <1>4, <2>1, FormTypes DEF Page
    <2>3. g.op = "get" /\ g.id = c.id /\ g.to = "page" /\ g.answer = "none" /\ FormCallOK(g)
      BY <1>1 DEF Request, FormCallOK, Answers, Stored
    <2>4. g \in calls' /\ \A e \in calls' : e = g \/ (e \in calls /\ e # c /\ e.op # "get")
      BY <1>2
    <2>5. \A e \in calls : e # c /\ e.op # "get" => e \in calls'
      BY <1>2
    <2>6. sent = {} => calls' = {g}
      BY <1>2
    <2> HIDE DEF g
    <2>7. TypeOK' /\ (\A e \in calls : FormCallOK(e))'
      BY <1>2, <2>1, <2>2, <2>3, <2>4, FormTypes DEF FormOK, TypeOK
    <2>8. FormPageOK'
      <3>1. c.to = "page" => \A e \in calls' : e.to = "page" => e.op \notin Submitted
        BY <2>3, <2>4 DEF FormOK, FormPageOK, Submitted
      <3>2. p.saving => \E e \in calls' : e.to = "page" /\ e.op \in {"save", "upload", "delete"}
        BY <2>2, <2>5 DEF FormOK, FormPageOK, LocksHaveTheirCalls
      <3>3. p.toggling => \E e \in calls' : e.to = "page" /\ e.op \in {"toggle"}
        BY <2>2, <2>5 DEF FormOK, FormPageOK, LocksHaveTheirCalls
      <3>4. p.loading => \E e \in calls' : e.to = "page" /\ e.op \in {"get"}
        BY <2>3, <2>4
      <3>5. p.lookingUp => \E e \in calls' : e.op = "lookup" /\ e.to = "page"
                                             /\ e.arg.request = p.request
        BY <2>2, <2>5 DEF FormOK, FormPageOK, LocksHaveTheirCalls
      <3>6. LocksHaveTheirCalls'
        BY <2>1, <3>2, <3>3, <3>4, <3>5 DEF LocksHaveTheirCalls
      <3>7. ASSUME NEW e \in calls', e.to = "page"
            PROVE  /\ p.at # "elsewhere"
                   /\ e.op = "get" => e.id = p.at
                   /\ e.op = "lookup" => e.arg.request <= p.request
                   /\ e.op \in {"toggle", "uncover"} => p.book # None
                   /\ e.op \in Submitted => p.saving
        <4>1. p.at # "elsewhere"
          BY <1>1, <2>2 DEF FormConstants
        <4>2. CASE e = g
          BY <2>2, <2>3, <4>1, <4>2 DEF Submitted
        <4>3. CASE e \in calls /\ e # c /\ e.op # "get"
          BY <2>2, <3>1, <3>7, <4>1, <4>3 DEF FormOK, FormPageOK
        <4> QED
          BY <2>4, <4>2, <4>3
      <3>8. \A e, d \in calls' :
              e.to = "page" /\ d.to = "page" /\ e.op \in Submitted /\ d.op \in Submitted => e = d
        BY <2>3, <2>4 DEF FormOK, FormPageOK, Submitted
      <3> QED
        BY <1>1, <2>1, <2>2, <3>6, <3>7, <3>8 DEF FormPageOK, FormConstants
    <2>9. FormScanOK'
      BY <1>2, <2>1, <2>2, <2>3, <2>4 DEF FormOK, FormScanOK, ScannedStays
    <2>10. FormMadeOK'
      <3>1. p.at \notin {"elsewhere", "new"}
        BY <1>1, <2>2 DEF FormConstants
      <3>2. \A e \in calls' : e.to = "page" /\ e.op = "save" /\ e.id = None =>
              made \subseteq IF e.answer = "ok" THEN {e.data.id} ELSE {}
        BY <2>3, <2>4 DEF FormOK, FormMadeOK
      <3> QED
        BY <1>2, <2>1, <3>1, <3>2 DEF FormOK, FormMadeOK
    <2>11. FormBookOK'
      <3>1. (\A b \in Books : books[b] # None => books[b].id = b)'
        BY DEF FormOK, FormBookOK
      <3>2. ASSUME NEW e \in calls', JustMade(e)'
            PROVE  Secret(e)'
        <4>1. e \in calls /\ JustMade(e) /\ Secret(e)
          BY <2>3, <2>4, <3>2 DEF FormOK, FormBookOK, JustMade, ToldPage
        <4>2. c.id # e.data.id
          BY <4>1 DEF Secret
        <4> QED
          BY <2>1, <2>2, <2>3, <2>4, <4>1, <4>2 DEF Secret
      <3>3. ~behind' => calls = {c} /\ ~behind /\ calls' = {g}
        BY <1>2, <2>6
      <3>4. ASSUME ~behind', page'.book # None
            PROVE  page'.book = books'[page'.book.id]
        <4>1. HasBook /\ page.book # None
          BY <2>1, <2>2, <3>4 DEF HasBook
        <4>2. ToldPage(Telling) = {} /\ ToldPage({"delete"}) = {}
          BY <3>3, <3>4 DEF ToldPage
        <4> QED
          BY <2>1, <2>2, <3>3, <3>4, <4>1, <4>2 DEF FormOK, FormBookOK
      <3>5. ~behind' => ToldPage(Telling)' = {}
        BY <2>3, <3>3 DEF ToldPage
      <3>6. ~behind' => /\ \A e \in calls' : e.to = "page" /\ e.op = "get"
                        /\ \A e, f \in calls' : e = f
        BY <2>3, <3>3
      <3> QED
        BY <3>1, <3>2, <3>4, <3>5, <3>6 DEF FormBookOK
    <2> QED
      BY <2>7, <2>8, <2>9, <2>10, <2>11 DEF FormOK
  <1> QED
    BY <1>3, <1>4

\* What the refusals do to the form: its lock opens.
LEMMA FormRefusedKeeps ==
  ASSUME FormConstants, FormOK, NEW c \in calls, c.answer \in {"refused", "failed"},
         c.op \in Submitted, Tell(c, [page EXCEPT !.saving = FALSE]), Heard(c),
         c.op = "upload" => ~c.arg.isNew \/ page.at = c.id,
         UNCHANGED history, Teaching
  PROVE  FormOK'
  <1> DEFINE p == IF c.to = "page" THEN [page EXCEPT !.saving = FALSE] ELSE page
  <1>1. page' = p /\ calls' = calls \ {c}
        /\ UNCHANGED <<books, made, behind, scanned, faults, changes>>
    BY DEF Tell, Heard, history, Teaching
  <1>2. /\ p \in Page /\ p.at = page.at /\ p.request = page.request /\ p.form = page.form
        /\ p.found = page.found /\ p.toggling = page.toggling /\ p.loading = page.loading
        /\ p.lookingUp = page.lookingUp /\ p.book = page.book
        /\ (IF c.to = "page" THEN ~p.saving ELSE p.saving = page.saving)
        /\ (c.to # "page" => p = page)
    <2>1. CASE c.to = "page"
      BY <2>1, FormTypes DEF Page
    <2>2. CASE c.to # "page"
      BY <2>2, FormTypes
    <2> QED
      BY <2>1, <2>2
  <1> HIDE DEF p
  <1>3. ScannedStays'
    BY <1>1, <1>2 DEF FormOK, FormScanOK, ScannedStays
  <1>4. c.to = "page" /\ page.at = "new" => made = {}
    <2>1. c.op = "upload" => c.id \in Books
      BY DEF FormOK, FormCallOK
    <2>2. c.to = "page" /\ page.at = "new" => c.op = "save" /\ c.id = None
      BY <2>1 DEF FormOK, FormMadeOK, Submitted, FormConstants
    <2> QED
      BY <2>2 DEF FormOK, FormMadeOK
  <1>5. c.op \notin {"toggle", "get", "lookup"}
    BY DEF Submitted
  <1> QED
    BY <1>1, <1>2, <1>3, <1>4, <1>5, FormHeardKeeps

LEMMA FormArriveKeeps ==
  ASSUME FormConstants, FormOK, NEW c \in calls, Arrive(c)
  PROVE  FormOK'
  <1>1. FormCallOK(c) /\ c.answer \in {"ok", "refused", "failed"} /\ c.to # "gone"
        /\ UNCHANGED <<books, faults, changes>> /\ Teaching
    BY DEF FormOK, Arrive, FormCallOK, Answers, Teaching
  <1>2. Refused(c) <=> c.answer # "ok"
    BY <1>1 DEF Refused
  <1>3. page \in Page /\ page.form \in Form /\ ScannedStays /\ scanned \in {scanned, None}
    BY FormTypes DEF FormOK, FormScanOK
  <1>4. CASE GetArrives(c)
    <2>1. PICK p : p = page'
      OBVIOUS
    <2>2. c.op = "get" /\ calls' = calls \ {c} /\ UNCHANGED <<behind, made>>
          /\ (c.answer = "ok" => c.data \in Book /\ c.data.form \in Form)
      BY <1>1, <1>4 DEF GetArrives, Heard, FormCallOK, Telling, Book
    <2>3. /\ p \in Page /\ p.at = page.at /\ p.request = page.request /\ p.saving = page.saving
          /\ p.toggling = page.toggling /\ ~p.loading /\ p.lookingUp = page.lookingUp
          /\ p.book = (IF c.answer # "ok" THEN page.book ELSE c.data)
          /\ (c.answer # "ok" => p.form = page.form /\ p.found = page.found)
          /\ scanned' = IF c.answer # "ok" THEN scanned ELSE None
      <3>1. CASE c.answer # "ok"
        BY <1>2, <1>3, <1>4, <2>1, <3>1 DEF GetArrives, Page
      <3>2. CASE c.answer = "ok"
        BY <1>2, <1>3, <1>4, <2>1, <2>2, <3>2 DEF GetArrives, Page
      <3> QED
        BY <3>1, <3>2
    <2>4. ScannedStays'
      BY <1>3, <2>1, <2>3 DEF ScannedStays
    <2>5. c.to = "page"
      BY <1>1, <2>2 DEF FormCallOK
    <2> QED
      BY <1>1, <2>1, <2>2, <2>3, <2>4, <2>5, FormHeardKeeps, FormTypes DEF Submitted
  <1>5. CASE LookupArrives(c)
    <2>1. PICK p : p = page'
      OBVIOUS
    <2>2. /\ c.op = "lookup" /\ calls' = calls \ {c} /\ UNCHANGED <<behind, made, scanned>>
          /\ c.to = "page" /\ c.arg.request \in 1 .. MaxLookups /\ c.arg.isbn \in ISBNs
          /\ c.answer = "ok" => /\ c.data.isbn = c.arg.isbn
                                /\ c.data.cover \in {None, c.arg.isbn}
      BY <1>1, <1>5 DEF LookupArrives, Heard, FormCallOK, history
    <2>3. CASE c.arg.request # page.request
      <3>1. p = page
        BY <1>5, <2>1, <2>3 DEF LookupArrives
      <3> QED
        BY <1>1, <1>3, <2>1, <2>2, <2>3, <3>1, FormHeardKeeps, FormTypes DEF Submitted, ScannedStays
    <2>4. CASE c.arg.request = page.request /\ c.answer # "ok"
      <3>1. p = [page EXCEPT !.lookingUp = FALSE]
        BY <1>2, <1>5, <2>1, <2>4 DEF LookupArrives
      <3>2. /\ p \in Page /\ p.at = page.at /\ p.request = page.request /\ p.saving = page.saving
            /\ p.toggling = page.toggling /\ p.loading = page.loading /\ ~p.lookingUp
            /\ p.book = page.book /\ p.form = page.form /\ p.found = page.found
        BY <1>3, <3>1 DEF Page
      <3>3. ScannedStays'
        BY <1>3, <2>1, <2>2, <3>2 DEF ScannedStays
      <3> QED
        BY <1>1, <2>1, <2>2, <2>4, <3>2, <3>3, FormHeardKeeps, FormTypes DEF Submitted
    <2>5. CASE c.arg.request = page.request /\ c.answer = "ok"
      <3>1. PICK title \in {c.arg.isbn, page.form.title} :
              p = [page EXCEPT !.form = [isbn |-> c.arg.isbn, title |-> title],
                               !.found = c.data.cover, !.lookingUp = FALSE]
        BY <1>2, <1>5, <2>1, <2>2, <2>5 DEF LookupArrives
      <3>2. [isbn |-> c.arg.isbn, title |-> title] \in Form
        BY <1>3, <2>2, <3>1 DEF Form
      <3>3. c.data.cover \in ISBNs \cup {None}
        BY <2>2, <2>5
      <3>4. /\ p \in Page /\ p.at = page.at /\ p.request = page.request /\ p.saving = page.saving
            /\ p.toggling = page.toggling /\ p.loading = page.loading /\ ~p.lookingUp
            /\ p.book = page.book /\ p.form = [isbn |-> c.arg.isbn, title |-> title]
            /\ p.found = c.data.cover
        BY <1>3, <3>1, <3>2, <3>3 DEF Page
      <3>5. scanned # None => c.arg.isbn = scanned
        BY <2>2, <2>5 DEF FormOK, FormScanOK
      <3>6. ScannedStays'
        BY <1>3, <2>1, <2>2, <2>5, <3>1, <3>4, <3>5 DEF ScannedStays
      <3> QED
        BY <1>1, <2>1, <2>2, <2>5, <3>4, <3>6, FormHeardKeeps, FormTypes DEF Submitted
    <2> QED
      BY <2>3, <2>4, <2>5
  <1>6. CASE SaveArrives(c)
    <2>1. CASE c.answer # "ok"
      BY <1>1, <1>2, <1>6, <2>1, FormRefusedKeeps DEF SaveArrives, Submitted
    <2>2. CASE c.answer = "ok" /\ c.arg.upload = None
      <3>1. ToList(calls \ {c})
        BY <1>2, <1>6, <2>2 DEF SaveArrives
      <3>2. calls \ {c} \in SUBSET calls
        OBVIOUS
      <3> QED
        BY <1>1, <3>1, <3>2, FormToListKeeps
    <2>3. CASE c.answer = "ok" /\ c.arg.upload # None
      BY <1>1, <1>6, <2>3, FormSavedKeeps
    <2> QED
      BY <2>1, <2>2, <2>3
  <1>7. CASE UploadArrives(c)
    <2> DEFINE told == IF c.to = "page" THEN [page EXCEPT !.saving = FALSE] ELSE page
    <2>1. c.op = "upload"
      BY <1>7 DEF UploadArrives
    <2>2. CASE c.answer = "ok"
      <3>1. ToList(calls \ {c})
        BY <1>2, <1>7, <2>2 DEF UploadArrives
      <3>2. calls \ {c} \in SUBSET calls
        OBVIOUS
      <3> QED
        BY <1>1, <3>1, <3>2, FormToListKeeps
    <2>3. CASE c.answer # "ok" /\ c.arg.isNew /\ page.at # c.id
      <3>1. ToBook(calls \ {c}, c.id, told)
        BY <1>2, <1>7, <2>3 DEF UploadArrives
      <3>2. told \in Page
        BY <1>3 DEF Page
      <3> QED
        BY <1>1, <2>1, <2>3, <3>1, <3>2, FormToBookKeeps
    <2>4. CASE c.answer # "ok" /\ ~(c.arg.isNew /\ page.at # c.id)
      <3>1. page' = told /\ Heard(c) /\ UNCHANGED history
        BY <1>2, <1>7, <2>4 DEF UploadArrives
      <3> QED
        BY <1>1, <2>1, <2>4, <3>1, FormRefusedKeeps DEF Tell, Submitted
    <2> QED
      BY <2>2, <2>3, <2>4
  <1>8. CASE CoverUnreadable(c)
    <2>1. PICK p : p = page'
      OBVIOUS
    <2>2. /\ c.op = "save" /\ c.answer = "ok" /\ c.id # None /\ c.data \in Book
          /\ calls' = calls \ {c} /\ UNCHANGED <<behind, made, scanned>>
      BY <1>1, <1>2, <1>8 DEF CoverUnreadable, Heard, FormCallOK, Telling, history
    <2>3. CASE c.to = "page"
      <3>1. /\ p \in Page /\ p.at = page.at /\ p.request = page.request /\ ~p.saving
            /\ p.toggling = page.toggling /\ p.loading = page.loading
            /\ p.lookingUp = page.lookingUp /\ p.form = page.form /\ p.found = page.found
            /\ p.book = c.data
        BY <1>3, <1>8, <2>1, <2>2, <2>3 DEF CoverUnreadable, Tell, Page
      <3>2. ScannedStays'
        BY <1>3, <2>1, <2>2, <3>1 DEF ScannedStays
      <3>3. page.at # "new"
        BY <2>2, <2>3 DEF FormOK, FormMadeOK
      <3> QED
        BY <1>1, <2>1, <2>2, <2>3, <3>1, <3>2, <3>3, FormHeardKeeps, FormTypes DEF Submitted
    <2>4. CASE c.to # "page"
      <3>1. p = page
        BY <1>8, <2>1, <2>4 DEF CoverUnreadable, Tell
      <3>2. ScannedStays'
        BY <1>3, <2>1, <2>2, <3>1 DEF ScannedStays
      <3> QED
        BY <1>1, <1>3, <2>1, <2>2, <2>4, <3>1, <3>2, FormHeardKeeps, FormTypes DEF Submitted
    <2> QED
      BY <2>3, <2>4
  <1>9. CASE CoverRemoved(c)
    <2>1. PICK p : p = page'
      OBVIOUS
    <2>2. c.op = "uncover" /\ calls' = calls \ {c} /\ UNCHANGED <<behind, made, scanned>>
          /\ (c.answer = "ok" => c.data \in Book)
      BY <1>1, <1>9 DEF CoverRemoved, Heard, FormCallOK, Telling, history
    <2>3. /\ p \in Page /\ p.at = page.at /\ p.request = page.request /\ p.saving = page.saving
          /\ p.toggling = page.toggling /\ p.loading = page.loading
          /\ p.lookingUp = page.lookingUp /\ p.form = page.form /\ p.found = page.found
          /\ p.book = (IF c.answer # "ok" THEN page.book ELSE c.data)
      <3>1. CASE c.answer # "ok"
        BY <1>2, <1>3, <1>9, <2>1, <3>1 DEF CoverRemoved
      <3>2. CASE c.answer = "ok"
        BY <1>2, <1>3, <1>9, <2>1, <2>2, <3>2 DEF CoverRemoved, Page
      <3> QED
        BY <3>1, <3>2
    <2>4. ScannedStays'
      BY <1>3, <2>1, <2>2, <2>3 DEF ScannedStays
    <2>5. c.to = "page"
      BY <1>1, <2>2 DEF FormCallOK
    <2> QED
      BY <1>1, <2>1, <2>2, <2>3, <2>4, <2>5, FormHeardKeeps, FormTypes DEF Submitted
  <1>10. CASE Toggled(c)
    <2>1. PICK p : p = page'
      OBVIOUS
    <2>2. c.op = "toggle" /\ calls' = calls \ {c} /\ UNCHANGED <<behind, made, scanned>>
          /\ (c.answer = "ok" => c.data \in Book /\ c.data.is_active \in BOOLEAN) /\ c.to = "page"
      BY <1>1, <1>10 DEF Toggled, Heard, FormCallOK, Telling, history, Book
    <2>3. page.book \in Book
      BY <2>2, FormTypes DEF FormOK, FormPageOK, Stored
    <2>4. /\ p \in Page /\ p.at = page.at /\ p.request = page.request /\ p.saving = page.saving
          /\ ~p.toggling /\ p.loading = page.loading
          /\ p.lookingUp = page.lookingUp /\ p.form = page.form /\ p.found = page.found
          /\ p.book = (IF c.answer # "ok" THEN page.book
                       ELSE [page.book EXCEPT !.is_active = c.data.is_active])
      <3>1. CASE c.answer # "ok"
        BY <1>2, <1>3, <1>10, <2>1, <3>1 DEF Toggled, Page
      <3>2. CASE c.answer = "ok"
        <4>1. p = [page EXCEPT !.toggling = FALSE,
                               !.book = [page.book EXCEPT !.is_active = c.data.is_active]]
          BY <1>2, <1>3, <1>10, <2>1, <3>2 DEF Toggled, Page
        <4>2. [page.book EXCEPT !.is_active = c.data.is_active] \in Book
          BY <2>2, <2>3, <3>2 DEF Book
        <4> QED
          BY <1>3, <3>2, <4>1, <4>2 DEF Page
      <3> QED
        BY <3>1, <3>2
    <2>5. ScannedStays'
      BY <1>3, <2>1, <2>2, <2>4 DEF ScannedStays
    <2> QED
      BY <1>1, <2>1, <2>2, <2>4, <2>5, FormHeardKeeps, FormTypes DEF Submitted
  <1>11. CASE Deleted(c)
    <2>1. CASE c.answer = "ok"
      <3>1. ToList(calls \ {c})
        BY <1>2, <1>11, <2>1 DEF Deleted
      <3>2. calls \ {c} \in SUBSET calls
        OBVIOUS
      <3> QED
        BY <1>1, <3>1, <3>2, FormToListKeeps
    <2>2. CASE c.answer # "ok"
      BY <1>1, <1>2, <1>11, <2>2, FormRefusedKeeps DEF Deleted, Submitted
    <2> QED
      BY <2>1, <2>2
  <1> QED
    BY <1>4, <1>5, <1>6, <1>7, <1>8, <1>9, <1>10, <1>11 DEF Arrive

-----------------------------------------------------------------------------
(* The invariant, and what follows from it.                                *)

LEMMA FormTeacherKeeps ==
  ASSUME FormConstants, FormOK,
         \/ OpenNew \/ Leave \/ TypeTitle \/ ChooseFile \/ LookUp
         \/ submit \/ removeCover \/ toggleActive \/ removeBook
         \/ \E id \in Books : OpenBook(id)
         \/ \E isbn \in ISBNs : changeISBN(isbn) \/ scannedISBN(isbn)
  PROVE  FormOK'
  <1>1. /\ page \in Page /\ page.form \in Form /\ ScannedStays /\ scanned \in {scanned, None}
        /\ page.form.isbn \in ISBNs \cup {Blank} /\ page.form.title \in ISBNs \cup {Blank, Typed}
        /\ page.request \in 0 .. MaxLookups
    BY FormTypes DEF FormOK, FormScanOK
  <1>2. ASSUME NEW op, NEW id, NEW arg
        PROVE  /\ Request(op, id, arg).op = op /\ Request(op, id, arg).id = id
               /\ Request(op, id, arg).arg = arg /\ Request(op, id, arg).to = "page"
               /\ Request(op, id, arg).answer = "none" /\ Request(op, id, arg).data = None
    BY DEF Request
  <1>3. CASE OpenNew
    BY <1>3, FormOpenNewKeeps
  <1>4. CASE Leave
    <2>1. ToList(calls) /\ calls \in SUBSET calls /\ UNCHANGED <<books, faults, changes>>
      BY <1>4 DEF Leave, Teaching
    <2> QED
      BY <2>1, FormToListKeeps
  <1>5. CASE TypeTitle
    <2>1. PICK p : p = [page EXCEPT !.form = [page.form EXCEPT !.title = Typed]]
      OBVIOUS
    <2>2. /\ page' = p /\ page.at # "elsewhere"
          /\ UNCHANGED <<books, calls, behind, made, scanned, faults, changes>>
      BY <1>1, <1>5, <2>1 DEF TypeTitle, Turn, Shown, history, Teaching, Page
    <2>3. [page.form EXCEPT !.title = Typed] \in Form
      BY <1>1 DEF Form
    <2>4. /\ p \in Page /\ p.at = page.at /\ p.loading = page.loading /\ p.book = page.book
          /\ p.request = page.request /\ p.lookingUp = page.lookingUp /\ p.saving = page.saving
          /\ p.toggling = page.toggling /\ p.found = page.found
          /\ p.form = [page.form EXCEPT !.title = Typed]
      BY <1>1, <2>1, <2>3 DEF Page
    <2>5. ScannedStays'
      <3>1. p.form.title = Typed /\ p.form.isbn = page.form.isbn
        BY <1>1, <2>4 DEF Form
      <3> QED
        BY <1>1, <2>2, <2>4, <3>1 DEF ScannedStays
    <2> QED
      BY <2>2, <2>4, <2>5, FormEditKeeps
  <1>6. CASE ChooseFile
    <2>1. PICK p : p = [page EXCEPT !.file = Chosen, !.found = None]
      OBVIOUS
    <2>2. /\ page' = p /\ page.at # "elsewhere"
          /\ UNCHANGED <<books, calls, behind, made, scanned, faults, changes>>
      BY <1>6, <2>1 DEF ChooseFile, Turn, Shown, history, Teaching
    <2>3. /\ p \in Page /\ p.at = page.at /\ p.loading = page.loading /\ p.book = page.book
          /\ p.request = page.request /\ p.lookingUp = page.lookingUp /\ p.saving = page.saving
          /\ p.toggling = page.toggling /\ p.found = None /\ p.form = page.form
      BY <1>1, <2>1 DEF Page
    <2>4. ScannedStays'
      BY <1>1, <2>2, <2>3 DEF ScannedStays
    <2> QED
      BY <2>2, <2>3, <2>4, FormEditKeeps
  <1>7. ASSUME NEW isbn \in ISBNs, changeISBN(isbn)
        PROVE  FormOK'
    <2>1. PICK p : p = [page EXCEPT !.form = [page.form EXCEPT !.isbn = isbn], !.found = None]
      OBVIOUS
    <2>2. /\ page' = p /\ page.at # "elsewhere" /\ scanned' = None
          /\ UNCHANGED <<books, calls, behind, made, faults, changes>>
      BY <1>1, <1>7, <2>1 DEF changeISBN, Shown, Teaching, Page
    <2>3. [page.form EXCEPT !.isbn = isbn] \in Form
      BY <1>1 DEF Form
    <2>4. /\ p \in Page /\ p.at = page.at /\ p.loading = page.loading /\ p.book = page.book
          /\ p.request = page.request /\ p.lookingUp = page.lookingUp /\ p.saving = page.saving
          /\ p.toggling = page.toggling
      BY <1>1, <2>1, <2>3 DEF Page
    <2>5. ScannedStays'
      BY <2>2 DEF ScannedStays
    <2> QED
      BY <2>2, <2>4, <2>5, FormEditKeeps
  <1>8. ASSUME NEW isbn \in ISBNs, NEW replace \in BOOLEAN, NEW q \in Page, lookup(isbn, replace, q),
               page.at # "elsewhere",
               q.at = page.at, q.loading = page.loading, q.book = page.book,
               q.saving = page.saving, q.toggling = page.toggling,
               scanned' \in ISBNs \cup {None}, scanned' # None => isbn = scanned',
               scanned' # None => /\ q.form.isbn = scanned' /\ q.form.title \in {Blank, Typed, scanned'}
                                  /\ q.found \in {None, scanned'},
               UNCHANGED <<books, made, faults, changes>>
        PROVE  FormOK'
    <2>1. PICK p : p = [q EXCEPT !.request = page.request + 1, !.lookingUp = TRUE]
      OBVIOUS
    <2>2. PICK c : c = Request("lookup", None, [isbn |-> isbn, replace |-> replace,
                                                request |-> page.request + 1])
      OBVIOUS
    <2>3. /\ page' = p /\ calls' = calls \cup {c} /\ page.request < MaxLookups
          /\ behind' = (behind \/ {d \in calls : d.to = "page" /\ d.op \in Telling} # {})
      BY <1>8, <2>1, <2>2 DEF lookup, Ask, Send
    <2>4. page.request + 1 \in 1 .. MaxLookups /\ page.request + 1 \in 0 .. MaxLookups
      BY <1>1, <2>3 DEF FormConstants
    <2>5. /\ p \in Page /\ p.at = page.at /\ p.loading = page.loading /\ p.book = page.book
          /\ p.request = page.request + 1 /\ p.lookingUp /\ p.saving = page.saving
          /\ p.toggling = page.toggling /\ p.form = q.form /\ p.found = q.found
      BY <1>8, <2>1, <2>4 DEF Page
    <2>6. c.op = "lookup" /\ c.id = None /\ c.to = "page" /\ c.answer = "none"
          /\ c.arg.request = page.request + 1 /\ c.arg.isbn = isbn
      BY <2>2 DEF Request
    <2>7. FormCallOK(c)
      BY <1>8, <2>2, <2>4 DEF Request, FormCallOK, Answers
    <2>8. ScannedStays'
      BY <1>8, <2>3, <2>5 DEF ScannedStays
    <2> QED
      BY <1>8, <2>3, <2>5, <2>6, <2>7, <2>8, FormAskKeeps DEF Submitted
  <1>9. CASE LookUp
    <2>1. lookup(page.form.isbn, FALSE, page) /\ page.form.isbn \in ISBNs /\ page.at # "elsewhere"
          /\ UNCHANGED <<books, made, scanned, faults, changes>>
      BY <1>1, <1>9 DEF LookUp, Shown, Teaching, lookup
    <2>2. scanned' \in ISBNs \cup {None}
      BY <2>1, FormTypes
    <2> QED
      BY <1>1, <1>8, <2>1, <2>2 DEF ScannedStays
  <1>10. ASSUME NEW isbn \in ISBNs, scannedISBN(isbn)
         PROVE  FormOK'
    <2> DEFINE form == IF page.form.isbn = isbn THEN page.form ELSE [blankBook EXCEPT !.isbn = isbn]
    <2>1. PICK q : q = [page EXCEPT !.form = form, !.found = None]
      OBVIOUS
    <2>2. /\ lookup(isbn, TRUE, q) /\ page.at # "elsewhere"
          /\ scanned' = (IF page.form.isbn = isbn THEN scanned ELSE isbn)
          /\ UNCHANGED <<books, made, faults, changes>>
      BY <1>10, <2>1 DEF scannedISBN, Shown, Teaching
    <2>3. form \in Form /\ form.isbn = isbn
          /\ (page.form.isbn # isbn => form.title = Blank)
          /\ (page.form.isbn = isbn => form.title = page.form.title)
      BY <1>1 DEF Form, blankBook
    <2> HIDE DEF form
    <2>4. /\ q \in Page /\ q.at = page.at /\ q.loading = page.loading /\ q.book = page.book
          /\ q.saving = page.saving /\ q.toggling = page.toggling
          /\ q.form = form /\ q.found = None
      BY <1>1, <2>1, <2>3 DEF Page
    <2>5. /\ scanned' \in ISBNs \cup {None} /\ (scanned' # None => isbn = scanned')
          /\ (scanned' # None => form.isbn = scanned' /\ form.title \in {Blank, Typed, scanned'})
      BY <1>1, <2>2, <2>3, FormTypes DEF ScannedStays
    <2> QED
      BY <1>8, <2>2, <2>4, <2>5
  <1>11. CASE submit
    <2> DEFINE isNew == page.at = "new"
               upload == IF page.file = None /\ ~isNew THEN page.found ELSE page.file
    <2>1. PICK p : p = [page EXCEPT !.saving = TRUE]
      OBVIOUS
    <2>2. PICK c : c = Request("save", IF isNew THEN None ELSE page.at,
                               [form |-> page.form, upload |-> upload])
      OBVIOUS
    <2>3. /\ page' = p /\ calls' = calls \cup {c} /\ page.at # "elsewhere" /\ ~page.saving
          /\ behind' = (behind \/ {d \in calls : d.to = "page" /\ d.op \in Telling} # {})
          /\ UNCHANGED <<books, made, scanned, faults, changes>>
      BY <1>11, <2>1, <2>2 DEF submit, Ask, Send, Shown, Teaching
    <2>4. /\ p \in Page /\ p.at = page.at /\ p.loading = page.loading /\ p.book = page.book
          /\ p.request = page.request /\ p.lookingUp = page.lookingUp /\ p.saving
          /\ p.toggling = page.toggling /\ p.form = page.form /\ p.found = page.found
      BY <1>1, <2>1 DEF Page
    <2>5. c.op = "save" /\ c.to = "page" /\ c.answer = "none"
          /\ c.id = (IF isNew THEN None ELSE page.at)
      BY <2>2 DEF Request
    <2>6. c.id \in Books \cup {None} /\ (c.id = None <=> page.at = "new")
      BY <2>3, <2>5, FormTypes DEF FormConstants
    <2>7. upload \in ISBNs \cup {None, Chosen}
      BY FormTypes
    <2> HIDE DEF upload, isNew
    <2>8. FormCallOK(c)
      BY <1>1, <2>2, <2>5, <2>6, <2>7 DEF Request, FormCallOK, Answers, Stored
    <2>9. c.id \in {None, page.at}
      BY <2>5
    <2> QED
      BY <2>3, <2>4, <2>5, <2>6, <2>8, <2>9, FormAskKeeps DEF Submitted
  <1>12. CASE removeCover
    <2>1. CASE Turn([page EXCEPT !.file = None, !.found = None])
      <3>1. PICK p : p = [page EXCEPT !.file = None, !.found = None]
        OBVIOUS
      <3>2. /\ page' = p /\ page.at # "elsewhere"
            /\ UNCHANGED <<books, calls, behind, made, scanned, faults, changes>>
        BY <1>12, <2>1, <3>1 DEF removeCover, Turn, Shown, history, Teaching
      <3>3. /\ p \in Page /\ p.at = page.at /\ p.loading = page.loading /\ p.book = page.book
            /\ p.request = page.request /\ p.lookingUp = page.lookingUp /\ p.saving = page.saving
            /\ p.toggling = page.toggling /\ p.found = None /\ p.form = page.form
        BY <1>1, <3>1 DEF Page
      <3>4. ScannedStays'
        BY <1>1, <3>2, <3>3 DEF ScannedStays
      <3> QED
        BY <3>2, <3>3, <3>4, FormEditKeeps
    <2>2. CASE ~Turn([page EXCEPT !.file = None, !.found = None])
      <3>1. PICK c : c = Request("uncover", page.book.id, None)
        OBVIOUS
      <3>2. /\ page' = page /\ calls' = calls \cup {c} /\ page.at # "elsewhere" /\ page.book # None
            /\ behind' = (behind \/ {d \in calls : d.to = "page" /\ d.op \in Telling} # {})
            /\ UNCHANGED <<books, made, scanned, faults, changes>>
        BY <1>12, <2>2, <3>1 DEF removeCover, Ask, Send, Shown, Teaching
      <3>3. page.book.id \in Books
        BY <3>2, FormTypes DEF Stored, Book
      <3>4. c.op = "uncover" /\ c.to = "page" /\ c.answer = "none" /\ c.id = page.book.id
            /\ FormCallOK(c)
        BY <3>1, <3>3 DEF Request, FormCallOK, Answers, Stored
      <3> QED
        BY <1>1, <3>2, <3>4, FormAskKeeps DEF Submitted
    <2> QED
      BY <2>1, <2>2
  <1>13. CASE toggleActive
    <2>1. PICK p : p = [page EXCEPT !.toggling = TRUE]
      OBVIOUS
    <2>2. PICK c : c = Request("toggle", page.book.id, [is_active |-> ~page.book.is_active])
      OBVIOUS
    <2>3. /\ page' = p /\ calls' = calls \cup {c} /\ page.at # "elsewhere" /\ page.book # None
          /\ behind' = (behind \/ {d \in calls : d.to = "page" /\ d.op \in Telling} # {})
          /\ UNCHANGED <<books, made, scanned, faults, changes>>
      BY <1>13, <2>1, <2>2 DEF toggleActive, Ask, Send, Shown, Teaching
    <2>4. /\ p \in Page /\ p.at = page.at /\ p.loading = page.loading /\ p.book = page.book
          /\ p.request = page.request /\ p.lookingUp = page.lookingUp /\ p.saving = page.saving
          /\ p.form = page.form /\ p.found = page.found
      BY <1>1, <2>1 DEF Page
    <2>5. page.book.id \in Books
      BY <2>3, FormTypes DEF Stored, Book
    <2>6. c.op = "toggle" /\ c.to = "page" /\ c.answer = "none" /\ c.id = page.book.id
          /\ FormCallOK(c)
      BY <2>2, <2>5 DEF Request, FormCallOK, Answers, Stored
    <2> QED
      BY <2>3, <2>4, <2>6, FormAskKeeps DEF Submitted
  <1>14. CASE removeBook
    <2>1. PICK p : p = [page EXCEPT !.saving = TRUE]
      OBVIOUS
    <2>2. PICK c : c = Request("delete", page.book.id, None)
      OBVIOUS
    <2>3. /\ page' = p /\ calls' = calls \cup {c} /\ page.at # "elsewhere" /\ page.at # "new"
          /\ ~page.saving /\ page.book # None
          /\ behind' = (behind \/ {d \in calls : d.to = "page" /\ d.op \in Telling} # {})
          /\ UNCHANGED <<books, made, scanned, faults, changes>>
      BY <1>14, <2>1, <2>2 DEF removeBook, Ask, Send, Shown, Teaching
    <2>4. /\ p \in Page /\ p.at = page.at /\ p.loading = page.loading /\ p.book = page.book
          /\ p.request = page.request /\ p.lookingUp = page.lookingUp /\ p.saving
          /\ p.toggling = page.toggling /\ p.form = page.form /\ p.found = page.found
      BY <1>1, <2>1 DEF Page
    <2>5. page.book.id \in Books /\ page.book.id # None
      BY <2>3, FormTypes DEF Stored, Book, FormConstants
    <2>6. c.op = "delete" /\ c.to = "page" /\ c.answer = "none" /\ c.id = page.book.id
          /\ FormCallOK(c)
      BY <2>2, <2>5 DEF Request, FormCallOK, Answers
    <2> QED
      BY <2>3, <2>4, <2>5, <2>6, FormAskKeeps DEF Submitted
  <1>15. ASSUME NEW id \in Books, OpenBook(id)
         PROVE  FormOK'
    <2>1. /\ page.at = "elsewhere" /\ page' = [NoPage EXCEPT !.at = id, !.loading = TRUE]
          /\ calls' = calls \cup {Request("get", id, None)} /\ behind' = (calls # {})
          /\ UNCHANGED <<books, made, scanned, faults, changes>>
      BY <1>15 DEF OpenBook, Send, Teaching
    <2>2. calls \in SUBSET calls /\ behind' \in BOOLEAN /\ (behind' \/ calls = {})
      BY <2>1
    <2> QED
      BY <2>1, <2>2, FormOpenBookKeeps
  <1> QED
    BY <1>3, <1>4, <1>5, <1>6, <1>7, <1>9, <1>10, <1>11, <1>12, <1>13, <1>14, <1>15

LEMMA FormStart == FormConstants /\ Init => FormOK
  <1>1. SUFFICES ASSUME FormConstants, Init
                 PROVE  FormOK
    OBVIOUS
  <1>2. PICK isbn \in ISBNs \cup {Blank}, known \in {{}} \cup {{id} : id \in Books} :
          books = [b \in Books |->
                    IF b \notin known THEN None
                    ELSE [id |-> b, form |-> [isbn |-> isbn, title |-> Typed],
                          cover |-> Chosen, is_active |-> TRUE]]
    BY <1>1 DEF Init
  <1>3. page = NoPage /\ calls = {} /\ behind = FALSE /\ made = {} /\ scanned = None
        /\ faults = 0 /\ changes = 0
    BY <1>1 DEF Init
  <1>4. books \in [Books -> Stored] /\ \A b \in Books : books[b] # None => books[b].id = b
    <2>1. \A b \in Books : [id |-> b, form |-> [isbn |-> isbn, title |-> Typed],
                            cover |-> Chosen, is_active |-> TRUE] \in Book
      BY DEF Book, Form
    <2> QED
      BY <1>2, <2>1 DEF Stored
  <1>5. page \in Page /\ page.form = blankBook /\ page.found = None /\ page.book = None
        /\ page.at = "elsewhere" /\ ~page.saving /\ ~page.toggling /\ ~page.loading /\ ~page.lookingUp
    <2>1. blankBook \in Form
      BY DEF blankBook, Form
    <2> QED
      BY <1>1, <1>3, <2>1 DEF NoPage, Page, FormConstants
  <1>6. TypeOK
    <2>1. faults \in 0 .. MaxFaults /\ changes \in 0 .. MaxChanges
      BY <1>3, BrowserAssumption
    <2>2. made \subseteq Books /\ behind \in BOOLEAN /\ scanned \in ISBNs \cup {None}
      BY <1>3
    <2> QED
      BY <1>4, <1>5, <2>1, <2>2 DEF TypeOK, Stored
  <1>7. FormPageOK /\ FormScanOK /\ FormMadeOK
    BY <1>3, <1>5 DEF FormPageOK, FormScanOK, FormMadeOK, LocksHaveTheirCalls, ScannedStays
  <1>8. FormBookOK
    BY <1>3, <1>4, <1>5 DEF FormBookOK, JustMade, ToldPage, HasBook
  <1> QED
    BY <1>3, <1>6, <1>7, <1>8 DEF FormOK

LEMMA FormStep == FormConstants /\ FormOK /\ [Next]_vars => FormOK'
  <1>1. SUFFICES ASSUME FormConstants, FormOK, [Next]_vars
                 PROVE  FormOK'
    OBVIOUS
  <1>2. CASE Next
    <2>1. CASE \E c \in calls : Serve(c) \/ Arrive(c) \/ Lose(c)
      BY <1>1, <2>1, FormServeKeeps, FormArriveKeeps, FormLoseKeeps
    <2>2. CASE ~\E c \in calls : Serve(c) \/ Arrive(c) \/ Lose(c)
      BY <1>1, <1>2, <2>2, FormTeacherKeeps DEF Next
    <2> QED
      BY <2>1, <2>2
  <1>3. CASE UNCHANGED vars
    <2>1. UNCHANGED <<books, page, behind, made, scanned, calls, faults, changes>>
      BY <1>3 DEF vars, history
    <2>2. TypeOK' /\ (\A c \in calls : FormCallOK(c))'
      BY <1>1, <2>1 DEF FormOK, TypeOK, FormCallOK
    <2>3. FormPageOK' /\ FormScanOK' /\ FormMadeOK'
      BY <1>1, <2>1 DEF FormOK, FormPageOK, FormScanOK, FormMadeOK, LocksHaveTheirCalls, ScannedStays
    <2>4. FormBookOK'
      <3>1. \A ops : ToldPage(ops)' = ToldPage(ops)
        BY <2>1 DEF ToldPage
      <3>2. \A c : (JustMade(c)' <=> JustMade(c)) /\ (Secret(c)' <=> Secret(c))
                   /\ (Pending(c)' <=> Pending(c))
        BY <2>1, <3>1 DEF JustMade, Secret, Pending
      <3>3. HasBook' <=> HasBook
        BY <2>1 DEF HasBook
      <3> QED
        BY <1>1, <2>1, <3>1, <3>2, <3>3 DEF FormOK, FormBookOK
    <2> QED
      BY <2>2, <2>3, <2>4 DEF FormOK
  <1> QED
    BY <1>1, <1>2, <1>3

LEMMA FormQuiet == FormConstants /\ FormOK => BookTrue /\ ScannedStays /\ OneBookPerForm
                                              /\ LocksHaveTheirCalls /\ TypeOK
  <1>1. SUFFICES ASSUME FormConstants, FormOK
                 PROVE  BookTrue /\ OneBookPerForm
    BY DEF FormOK, FormScanOK, FormPageOK
  <1>2. BookTrue
    <2>1. SUFFICES ASSUME page.book # None, calls = {}, ~behind
                   PROVE  page.book = books[page.book.id]
      BY DEF BookTrue
    <2>2. HasBook /\ \A ops : ToldPage(ops) = {}
      BY <2>1 DEF HasBook, ToldPage
    <2> QED
      BY <1>1, <2>1, <2>2 DEF FormOK, FormBookOK
  <1>3. OneBookPerForm
    <2>1. PICK m : made \subseteq {m}
      BY <1>1 DEF FormOK, FormMadeOK
    <2>2. made = {} \/ made = {m}
      BY <2>1
    <2>3. Cardinality({m}) = 1 /\ Cardinality({}) = 0
      BY FS_EmptySet, FS_Singleton
    <2>4. Cardinality(made) = 1 \/ Cardinality(made) = 0
      BY <2>2, <2>3
    <2> QED
      BY <2>4 DEF OneBookPerForm
  <1> QED
    BY <1>2, <1>3

LEMMA FormAlways ==
  ASSUME FormConstants
  PROVE  Spec => []FormOK
  <1>1. Init => FormOK
    BY FormStart
  <1>2. FormOK /\ [Next]_vars => FormOK'
    BY FormStep
  <1> QED
    BY <1>1, <1>2, PTL DEF Spec

-----------------------------------------------------------------------------
(* The theorems.                                                           *)

\* What the form knows, what it has sent and what it remembers keep their
\* types (AdminBookForm).
THEOREM FormTyped ==
  ASSUME FormConstants
  PROVE  Spec => []TypeOK
  <1>1. FormOK => TypeOK
    BY DEF FormOK
  <1> QED
    BY <1>1, FormAlways, PTL

\* With no call under way the form shows its book as it is stored, unless two
\* of its calls were out at once or an answer was lost: whether the book was
\* loaded, saved, given or denied a cover, hidden, or made by the page itself,
\* and whatever a page that was left before had still to do (BookTrue).
THEOREM FormShowsItsBook ==
  ASSUME FormConstants
  PROVE  Spec => []BookTrue
  <1>1. FormOK => BookTrue
    BY FormQuiet
  <1> QED
    BY <1>1, FormAlways, PTL

\* However many look-ups are under way and in whichever order they are
\* answered, none of another ISBN writes into a form that a scan has cleared.
THEOREM ScanIsNotMixed ==
  ASSUME FormConstants
  PROVE  Spec => []ScannedStays
  <1>1. FormOK => ScannedStays
    BY FormQuiet
  <1> QED
    BY <1>1, FormAlways, PTL

\* A form that is submitted again and again makes one book at most, as far as
\* it was told: when the cover has failed it goes on as the form of that book.
THEOREM OneFormOneBook ==
  ASSUME FormConstants
  PROVE  Spec => []OneBookPerForm
  <1>1. FormOK => OneBookPerForm
    BY FormQuiet
  <1> QED
    BY <1>1, FormAlways, PTL

\* Each lock of the form is held by a call whose answer opens it, also after
\* the form has gone on to another book with its calls still out.
THEOREM FormUnlocks ==
  ASSUME FormConstants
  PROVE  Spec => []LocksHaveTheirCalls
  <1>1. FormOK => LocksHaveTheirCalls
    BY FormQuiet
  <1> QED
    BY <1>1, FormAlways, PTL
=============================================================================
