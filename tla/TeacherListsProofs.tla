------------------------- MODULE TeacherListsProofs -------------------------
(***************************************************************************)
(* Proofs about the pages of TeacherPages that list loans, lost books and  *)
(* requests, for any number of rows, calls, failures and changes: what a   *)
(* page shows is what its table has, once all is answered.                 *)
(***************************************************************************)
EXTENDS TeacherPages, FiniteSetTheorems, TLAPS

-----------------------------------------------------------------------------
(* The page of loans.  Rows are locked one by one, so that answers about   *)
(* several loans may be under way; what a row shows differs from the table *)
(* exactly while an answer about it is.                                    *)

loansVars == <<table, page, behind, calls, faults, changes>>

Mutations == Loans!Closing \cup {"extend", "review"}

\* A call that may be under way.
LoanCallOK(c) ==
    /\ \/ c \in [op: {"stats"}, id: {None}, arg: {None}, to: {"page", "gone"},
                 answer: {"none", "ok", "refused", "failed"}, data: Loans!Stats \cup {None}]
       \/ c \in [op: {"list"}, id: {None}, arg: {None}, to: {"page", "gone"},
                 answer: {"none", "ok", "refused", "failed"}, data: Loans!List \cup {None}]
       \/ c \in [op: Mutations, id: Ids, arg: {None}, to: {"page", "gone"},
                 answer: {"none", "ok", "refused", "failed"}, data: Nat \cup {None}]
    /\ c.to = "gone" => c.answer = "none"
    /\ c.op \in {"stats", "list", "extend"} /\ c.answer = "ok" => c.data # None

\* The page hears of its calls, loads once, and then locks what it sends.
LoanHeard(c) ==
    /\ page.open
    /\ c.op = "stats" => page.stats = None
    /\ c.op = "list" => page.list = None
    /\ c.op \in Mutations => Loans!Loaded /\ [action |-> c.op, id |-> c.id] \in page.busy

LoanPageOK ==
    /\ ~page.open => page = Loans!NoPage
    /\ \A c \in calls : c.to = "page" => LoanHeard(c)
    /\ \A c, d \in calls :
         c.to = "page" /\ d.to = "page" /\ c.op = d.op /\ c.id = d.id => c = d
    /\ Loans!LocksHaveTheirCalls /\ Loans!OneCallPerLoan
    /\ page.confirmation # None =>
         /\ Loans!Loaded
         /\ \A b \in page.busy : b.id = page.confirmation.id =>
              b = page.confirmation \/ b.action = "review"

\* A list that was read agrees with the table about a loan.
Dated(list, l) == list.open_loans[l] = IF Loans!Open(l) THEN table[l].due_at ELSE None

Queued(list, l) == l \in list.review_queue <=> table[l].state = "review"

\* What a call finds in the row it was sent from, and what its answer says.
LoanRowOK(c) ==
    IF c.op = "review"
    THEN /\ page.list.open_loans[c.id] = None /\ c.id \in page.list.review_queue
         /\ c.answer = "ok" => table[c.id].state = "reviewed"
    ELSE /\ page.list.open_loans[c.id] # None /\ c.id \notin page.list.review_queue
         /\ c.answer = "ok" /\ c.op \in Loans!Closing =>
              table[c.id].state = "reviewed" /\ table[c.id].lost = (c.op = "lost")
         /\ c.answer = "ok" /\ c.op = "extend" =>
              Loans!Open(c.id) /\ table[c.id].due_at = c.data

\* An answer about loan l is under way.
Answered(l) == \E c \in calls : c.to = "page" /\ c.answer = "ok" /\ c.id = l

LoanRowsOK ==
    /\ \A c \in calls : c.to = "page" /\ c.op \in Mutations /\ c.id \notin behind => LoanRowOK(c)
    /\ \A c \in calls :
         c.to = "page" /\ c.op = "list" /\ c.answer \in {"none", "ok"} /\ c.data # None =>
           \A l \in Ids \ behind :
             Dated(c.data, l) /\ (c.answer = "ok" => Queued(c.data, l))
    /\ page.list # None =>
         \A l \in Ids \ behind :
           Answered(l) \/ (Dated(page.list, l) /\ Queued(page.list, l))

\* While nobody else has a hand in it the counters count the rows on the page.
OpenLoans == {l \in Ids : Loans!Open(l)}

LostLoans == {l \in Ids : table[l].lost}

ShownLoans == {l \in Ids : page.list.open_loans[l] # None}

\* Books that are lost and off the page.
LostAway == {l \in LostLoans : l \notin ShownLoans}

Counts(stats) ==
    stats.open_loans = Cardinality(OpenLoans) /\ stats.lost_books = Cardinality(LostLoans)

LoanCountsOK ==
    /\ \A l \in Ids : table[l].lost => table[l].state = "reviewed"
    /\ behind = {} =>
         /\ \A c \in calls : c.to = "page" /\ c.op = "stats" /\ c.answer = "ok" => Counts(c.data)
         /\ page.stats # None /\ page.list = None => Counts(page.stats)
         /\ Loans!Loaded => /\ page.stats.open_loans = Cardinality(ShownLoans)
                           /\ page.stats.lost_books = Cardinality(LostAway)

LoansOK ==
    /\ Loans!TypeOK
    /\ \A c \in calls : LoanCallOK(c)
    /\ LoanPageOK /\ LoanRowsOK /\ LoanCountsOK

\* A row with no answer under way, or with one: it is never in both lists.
LEMMA LoanRowOnce ==
  ASSUME LoansOK, NEW l \in Ids \ behind, page.list # None
  PROVE  page.list.open_loans[l] = None \/ l \notin page.list.review_queue
  <1>1. CASE Answered(l)
    <2>1. PICK c \in calls : c.to = "page" /\ c.answer = "ok" /\ c.id = l
      BY <1>1 DEF Answered
    <2>2. c.op \in Mutations
      BY <2>1, TeacherPagesAssumption DEF LoansOK, LoanCallOK
    <2> QED
      BY <2>1, <2>2 DEF LoansOK, LoanRowsOK, LoanRowOK
  <1>2. CASE Dated(page.list, l) /\ Queued(page.list, l)
    BY <1>2 DEF Dated, Queued, Loans!Open
  <1> QED
    BY <1>1, <1>2 DEF LoansOK, LoanRowsOK

LEMMA LoansTurnKeeps ==
  ASSUME LoansOK, NEW q \in [action: Loans!Closing, id: Ids] \cup {None},
         page' = [page EXCEPT !.confirmation = q], page.open,
         UNCHANGED <<table, behind, calls, faults, changes>>,
         q # None => Loans!Loaded,
         q # None => \A b \in page.busy : b.id = q.id => b = q \/ b.action = "review"
  PROVE  LoansOK'
  <1>0. PICK p : p = [page EXCEPT !.confirmation = q]
    OBVIOUS
  <1>1. /\ p \in Loans!Page /\ p.open /\ p.stats = page.stats /\ p.list = page.list
        /\ p.busy = page.busy /\ p.confirmation = q
    BY <1>0 DEF LoansOK, Loans!TypeOK, Loans!Page
  <1>2. page' = p
    BY <1>0
  <1>3. Loans!TypeOK' /\ (\A c \in calls : LoanCallOK(c))'
    BY <1>1, <1>2 DEF LoansOK, Loans!TypeOK, LoanCallOK
  <1>4. LoanPageOK'
    BY <1>1, <1>2 DEF LoansOK, LoanPageOK, LoanHeard, Loans!Loaded,
       Loans!LocksHaveTheirCalls, Loans!OneCallPerLoan
  <1>5. LoanRowsOK'
    BY <1>1, <1>2 DEF LoansOK, LoanRowsOK, LoanRowOK, Answered, Dated, Queued, Loans!Open
  <1>6. LoanCountsOK'
    <2>1. UNCHANGED <<OpenLoans, LostLoans, ShownLoans, LostAway>>
      BY <1>1, <1>2 DEF OpenLoans, LostLoans, ShownLoans, LostAway, Loans!Open
    <2> QED
      BY <1>1, <1>2, <2>1 DEF LoansOK, LoanCountsOK, Counts, Loans!Loaded
  <1> QED
    BY <1>3, <1>4, <1>5, <1>6 DEF LoansOK

\* A mutation is sent from a row that has no other under way.
LEMMA LoansSendKeeps ==
  ASSUME LoansOK, NEW action \in Mutations, NEW l \in Ids, page.open, Loans!Loaded,
         Loans!Mutate(action, l), UNCHANGED <<table, behind, faults, changes>>,
         IF action = "review" THEN l \in page.list.review_queue
         ELSE /\ page.list.open_loans[l] # None
              /\ \A b \in page.busy : b.id = l => b.action = "review",
         page.confirmation # None /\ l = page.confirmation.id =>
           page.confirmation = [action |-> action, id |-> l] \/ action = "review"
  PROVE  LoansOK'
  <1>0. PICK b, p, c : /\ b = [action |-> action, id |-> l]
                       /\ p = [page EXCEPT !.busy = page.busy \cup {b}]
                       /\ c = Loans!Request(action, l, None)
    OBVIOUS
  <1>1. /\ p \in Loans!Page /\ p.open /\ p.stats = page.stats /\ p.list = page.list
        /\ p.busy = page.busy \cup {b} /\ p.confirmation = page.confirmation
    BY <1>0 DEF LoansOK, Loans!TypeOK, Loans!Page, Mutations
  <1>2. page' = p /\ calls' = calls \cup {c} /\ b \notin page.busy
    BY <1>0 DEF Loans!Mutate, Loans!Send
  <1>3. /\ c.op = action /\ c.id = l /\ c.to = "page" /\ c.answer = "none"
        /\ LoanCallOK(c)
    BY <1>0 DEF Loans!Request, LoanCallOK, Mutations, Loans!Closing
  <1>4. Loans!TypeOK' /\ (\A d \in calls : LoanCallOK(d))'
    BY <1>1, <1>2, <1>3 DEF LoansOK, Loans!TypeOK, LoanCallOK
  <1>5. LoanPageOK'
    BY <1>0, <1>1, <1>2, <1>3, TeacherPagesAssumption
       DEF LoansOK, LoanPageOK, LoanHeard, Loans!Loaded, Mutations, Loans!Closing,
           Loans!LocksHaveTheirCalls, Loans!OneCallPerLoan
  <1>6. l \notin behind => LoanRowOK(c)
    BY <1>3, LoanRowOnce DEF LoanRowOK, Loans!Loaded
  <1>7. LoanRowsOK'
    BY <1>1, <1>2, <1>3, <1>6
       DEF LoansOK, LoanRowsOK, LoanRowOK, Answered, Dated, Queued, Loans!Open, Mutations, Loans!Closing
  <1>8. LoanCountsOK'
    <2>1. UNCHANGED <<OpenLoans, LostLoans, ShownLoans, LostAway>>
      BY <1>1, <1>2 DEF OpenLoans, LostLoans, ShownLoans, LostAway, Loans!Open
    <2> QED
      BY <1>1, <1>2, <1>3, <2>1
         DEF LoansOK, LoanCountsOK, Counts, Loans!Loaded, Mutations, Loans!Closing
  <1> QED
    BY <1>4, <1>5, <1>7, <1>8 DEF LoansOK

LEMMA LoanSets ==
  /\ IsFiniteSet(OpenLoans) /\ Cardinality(OpenLoans) \in Nat
  /\ IsFiniteSet(LostLoans) /\ Cardinality(LostLoans) \in Nat
  /\ IsFiniteSet(ShownLoans) /\ Cardinality(ShownLoans) \in Nat
  /\ IsFiniteSet(LostAway) /\ Cardinality(LostAway) \in Nat
  <1>1. /\ OpenLoans \subseteq Ids /\ LostLoans \subseteq Ids
        /\ ShownLoans \subseteq Ids /\ LostAway \subseteq Ids
    BY DEF OpenLoans, LostLoans, ShownLoans, LostAway
  <1> QED
    BY <1>1, TeacherPagesAssumption, FS_Subset, FS_CardinalityType

\* The page hears of the same calls as before.
LEMMA LoansPageKept ==
  ASSUME LoanPageOK, NEW c \in calls, NEW d, d.op = c.op, d.id = c.id, UNCHANGED page,
         \A e \in calls' : e.to = "page" => e = d \/ (e \in calls /\ e # c),
         d.to = "page" => c.to = "page",
         c.to = "page" => d.to = "page" /\ d \in calls', calls \ {c} \subseteq calls'
  PROVE  LoanPageOK'
  <1>1. \A e \in calls' : e.to = "page" => LoanHeard(e)'
    BY DEF LoanPageOK, LoanHeard, Loans!Loaded
  <1>2. \A e, f \in calls' :
          e.to = "page" /\ f.to = "page" /\ e.op = f.op /\ e.id = f.id => e = f
    BY DEF LoanPageOK
  <1>3. Loans!LocksHaveTheirCalls' /\ Loans!OneCallPerLoan'
    BY DEF LoanPageOK, Loans!LocksHaveTheirCalls, Loans!OneCallPerLoan
  <1> QED
    BY <1>1, <1>2, <1>3 DEF LoanPageOK, Loans!Loaded

\* A call moves on, or nobody hears of it any more, and the table is as it was.
LEMMA LoansCallMoves ==
  ASSUME LoansOK, NEW c \in calls, NEW d, d.op = c.op, d.id = c.id, LoanCallOK(d),
         c.to = "page" => d.to = "page" /\ d \in calls', calls \ {c} \subseteq calls',
         c.to = "page" => c \notin calls',
         \A e \in calls' \ calls : e = d \/ (e.to = "gone" /\ LoanCallOK(e)),
         c.to = "gone" => d.to = "gone",
         UNCHANGED <<table, page>>, behind \subseteq behind', behind' \subseteq Ids,
         faults' \in 0 .. MaxFaults, changes' \in 0 .. MaxChanges,
         c.op \in Mutations =>
           d.answer # "ok" /\ (c.to = "page" /\ c.answer = "ok" => c.id \in behind'),
         d.to = "page" /\ d.op = "list" /\ d.answer \in {"none", "ok"} /\ d.data # None =>
           \A l \in Ids \ behind' :
             Dated(d.data, l) /\ (d.answer = "ok" => Queued(d.data, l)),
         d.to = "page" /\ d.op = "stats" /\ d.answer = "ok" => Counts(d.data)
  PROVE  LoansOK'
  <1>1. Loans!TypeOK' /\ (\A e \in calls : LoanCallOK(e))'
    BY DEF LoansOK, Loans!TypeOK, LoanCallOK
  <1>2. LoanPageOK'
    <2>1. \A e \in calls' : e.to = "page" => e = d \/ (e \in calls /\ e # c)
      BY DEF LoansOK, LoanCallOK
    <2>2. d.to = "page" => c.to = "page"
      BY DEF LoansOK, LoanCallOK
    <2> QED
      BY <2>1, <2>2, LoansPageKept DEF LoansOK
  <1>3. LoanRowsOK'
    <2>1. \A e \in calls' : e.to = "page" => e = d \/ (e \in calls /\ e # c)
      BY DEF LoansOK, LoanCallOK
    <2>2. d.to = "page" => c.to = "page"
      BY DEF LoansOK, LoanCallOK
    <2>3. \A e \in calls' : e.to = "page" /\ e.op \in Mutations /\ e.id \notin behind' =>
            LoanRowOK(e)'
      <3>1. ASSUME NEW e \in calls', e.to = "page", e.op \in Mutations, e.id \notin behind'
            PROVE  LoanRowOK(e)'
        <4>1. CASE e = d
          BY <2>2, <3>1, <4>1 DEF LoansOK, LoanRowsOK, LoanRowOK, Loans!Open
        <4>2. CASE e # d
          BY <2>1, <3>1, <4>2 DEF LoansOK, LoanRowsOK, LoanRowOK, Loans!Open
        <4> QED
          BY <4>1, <4>2
      <3> QED
        BY <3>1
    <2>4. \A l \in Ids \ behind' : Answered(l) => Answered(l)'
      <3>1. ASSUME NEW l \in Ids \ behind', Answered(l)
            PROVE  Answered(l)'
        <4>1. PICK e \in calls : e.to = "page" /\ e.answer = "ok" /\ e.id = l
          BY <3>1 DEF Answered
        <4>2. e.op \in Mutations
          BY <4>1, TeacherPagesAssumption DEF LoansOK, LoanCallOK
        <4> QED
          BY <4>1, <4>2 DEF Answered
      <3> QED
        BY <3>1
    <2>5. \A l : (Dated(page.list, l) => Dated(page.list, l)')
                 /\ (Queued(page.list, l) => Queued(page.list, l)')
      BY DEF Dated, Queued, Loans!Open
    <2>6. \A e \in calls' :
            e.to = "page" /\ e.op = "list" /\ e.answer \in {"none", "ok"} /\ e.data # None =>
              \A l \in Ids \ behind' :
                Dated(e.data, l)' /\ (e.answer = "ok" => Queued(e.data, l)')
      BY <2>1 DEF LoansOK, LoanRowsOK, Dated, Queued, Loans!Open
    <2> QED
      BY <2>3, <2>4, <2>5, <2>6 DEF LoansOK, LoanRowsOK
  <1>4. LoanCountsOK'
    <2>1. UNCHANGED <<OpenLoans, LostLoans, ShownLoans, LostAway>>
      BY DEF OpenLoans, LostLoans, ShownLoans, LostAway, Loans!Open
    <2>2. \A e \in calls' : e.to = "page" => e = d \/ (e \in calls /\ e # c)
      BY DEF LoansOK, LoanCallOK
    <2> QED
      BY <2>1, <2>2 DEF LoansOK, LoanCountsOK, Counts, Loans!Loaded
  <1> QED
    BY <1>1, <1>2, <1>3, <1>4 DEF LoansOK

\* A row changes that the page cannot know of any more.
LEMMA LoansChangeElsewhere ==
  ASSUME LoansOK, NEW l \in Ids, NEW loan \in Loans!Loan,
         table' = [table EXCEPT ![l] = loan], behind' = behind \cup {l},
         loan.lost => loan.state = "reviewed",
         calls' \subseteq calls, \A c \in calls : c.to = "page" => c \in calls',
         UNCHANGED page, faults' \in 0 .. MaxFaults, changes' \in 0 .. MaxChanges
  PROVE  LoansOK'
  <1>1. Loans!TypeOK' /\ (\A e \in calls : LoanCallOK(e))'
    BY DEF LoansOK, Loans!TypeOK, LoanCallOK
  <1>2. LoanPageOK'
    BY DEF LoansOK, LoanPageOK, LoanHeard, Loans!Loaded, Loans!LocksHaveTheirCalls,
           Loans!OneCallPerLoan
  <1>3. \A k \in Ids \ behind' : table'[k] = table[k]
    BY DEF LoansOK, Loans!TypeOK
  <1>4. LoanRowsOK'
    <2>1. \A k \in Ids \ behind' : Answered(k) => Answered(k)'
      BY DEF Answered
    <2>2. \A k \in Ids \ behind' : \A list :
            /\ Dated(list, k) => Dated(list, k)'
            /\ Queued(list, k) => Queued(list, k)'
      BY <1>3 DEF Dated, Queued, Loans!Open
    <2>3. \A c \in calls' : c.to = "page" /\ c.op \in Mutations /\ c.id \notin behind' =>
            LoanRowOK(c)'
      <3>1. \A c \in calls' : c.op \in Mutations => c.id \in Ids
        BY DEF LoansOK, LoanCallOK, Mutations, Loans!Closing
      <3> QED
        BY <1>3, <3>1 DEF LoansOK, LoanRowsOK, LoanRowOK, Loans!Open
    <2> QED
      BY <2>1, <2>2, <2>3 DEF LoansOK, LoanRowsOK
  <1>5. LoanCountsOK'
    BY DEF LoansOK, LoanCountsOK, Loans!TypeOK
  <1> QED
    BY <1>1, <1>2, <1>4, <1>5 DEF LoansOK

\* The server changes the row that a call of the page is about.
LEMMA LoansUpdateTold ==
  ASSUME LoansOK, NEW c \in calls, c.to = "page", c.answer = "none", c.op \in Mutations,
         NEW loan \in Loans!Loan, NEW data \in Nat \cup {None},
         Loans!Update(c, loan, data), UNCHANGED <<page, faults>>,
         c.op = "extend" => /\ Loans!Open(c.id) /\ loan.state = "open" /\ ~loan.lost
                            /\ data = loan.due_at /\ data # None,
         c.op \in Loans!Closing => /\ Loans!Open(c.id) /\ loan.state = "reviewed"
                                  /\ loan.lost = (c.op = "lost"),
         c.op = "review" => /\ ~Loans!Open(c.id) /\ loan.state = "reviewed"
                            /\ loan.lost = table[c.id].lost
  PROVE  LoansOK'
  <1>0. PICK d, l : d = [c EXCEPT !.answer = "ok", !.data = data] /\ l = c.id
    OBVIOUS
  <1>1. /\ l \in Ids /\ d.op = c.op /\ d.id = l /\ d.to = "page" /\ d.answer = "ok"
        /\ d.data = data /\ LoanCallOK(d)
    BY <1>0 DEF LoansOK, LoanCallOK, Mutations, Loans!Closing
  <1>2. /\ calls' = (calls \ {c}) \cup {d} /\ table' = [table EXCEPT ![l] = loan]
        /\ behind' = behind /\ changes' \in 0 .. MaxChanges
    BY <1>0, BrowserAssumption
       DEF Loans!Update, Loans!Change, Loans!Reply, LoansOK, Loans!TypeOK
  <1>3. Loans!TypeOK' /\ (\A e \in calls : LoanCallOK(e))'
    BY <1>1, <1>2 DEF LoansOK, Loans!TypeOK, LoanCallOK
  <1>4. LoanPageOK'
    <2>1. /\ \A e \in calls' : e.to = "page" => e = d \/ (e \in calls /\ e # c)
          /\ d \in calls' /\ calls \ {c} \subseteq calls'
      BY <1>2
    <2>2. LoanPageOK
      BY DEF LoansOK
    <2>3. UNCHANGED page /\ d.op = c.op /\ d.id = c.id /\ d.to = "page" /\ c.to = "page"
      BY <1>0, <1>1
    <2> QED
      BY <2>1, <2>2, <2>3, LoansPageKept
  <1>5. /\ table'[l] = loan /\ \A k \in Ids : k # l => table'[k] = table[k]
    BY <1>1, <1>2 DEF LoansOK, Loans!TypeOK
  <1>6. Answered(l)' /\ \A k \in Ids : k # l /\ Answered(k) => Answered(k)'
    BY <1>0, <1>1, <1>2 DEF Answered
  <1>7. \A k \in Ids : k # l => \A list :
          (Dated(list, k) => Dated(list, k)') /\ (Queued(list, k) => Queued(list, k)')
    BY <1>5 DEF Dated, Queued, Loans!Open
  <1>8. Loans!Loaded /\ [action |-> c.op, id |-> l] \in page.busy
    BY <1>0 DEF LoansOK, LoanPageOK, LoanHeard
  <1>9. ASSUME NEW e \in calls', e.to = "page", e.op \in Mutations, e.id \notin behind'
        PROVE  LoanRowOK(e)'
    <2>1. CASE e = d
      <3>1. LoanRowOK(c) /\ e.id = l /\ UNCHANGED page
        BY <1>0, <1>1, <1>2, <1>9, <2>1 DEF LoansOK, LoanRowsOK
      <3>2. c.op = "review" => loan.state = "reviewed"
        BY DEF Loans!Closing
      <3>3. c.op = "extend" => loan.state = "open" /\ data = loan.due_at
        BY DEF Loans!Closing
      <3>4. c.op \in Loans!Closing => loan.state = "reviewed" /\ loan.lost = (c.op = "lost")
        BY DEF Loans!Closing
      <3> QED
        BY <1>0, <1>1, <1>5, <2>1, <3>1, <3>2, <3>3, <3>4
           DEF LoanRowOK, Loans!Open, Loans!Closing
    <2>2. CASE e # d /\ e.id # l
      <3>1. e \in calls /\ e.id \in Ids
        BY <1>2, <1>9, <2>2 DEF LoansOK, LoanCallOK, Mutations, Loans!Closing
      <3> QED
        BY <1>2, <1>5, <1>9, <2>2, <3>1 DEF LoansOK, LoanRowsOK, LoanRowOK, Loans!Open
    <2>3. CASE e # d /\ e.id = l
      <3>1. e \in calls /\ e # c
        BY <1>2, <2>3
      <3>2. e.op # c.op
        BY <1>0, <1>9, <2>3, <3>1 DEF LoansOK, LoanPageOK
      <3>3. [action |-> e.op, id |-> l] \in page.busy
        BY <1>9, <2>3, <3>1 DEF LoansOK, LoanPageOK, LoanHeard
      <3>4. ~({c.op, e.op} \subseteq Loans!Closing \cup {"extend"})
        BY <1>8, <3>2, <3>3 DEF LoansOK, LoanPageOK, Loans!OneCallPerLoan
      <3>5. c.op = "review" \/ e.op = "review"
        BY <1>9, <3>4 DEF Mutations
      <3>6. LoanRowOK(c) /\ LoanRowOK(e)
        BY <1>0, <1>2, <1>9, <2>3, <3>1 DEF LoansOK, LoanRowsOK
      <3> QED
        BY <1>0, <2>3, <3>2, <3>5, <3>6 DEF LoanRowOK
    <2> QED
      BY <2>1, <2>2, <2>3
  <1>10. LoanRowsOK'
    <2>1. \A e \in calls' : e.to = "page" /\ e.op = "list" => FALSE
      BY <1>1, <1>2, <1>8 DEF LoansOK, LoanPageOK, LoanHeard, Loans!Loaded, Mutations, Loans!Closing
    <2> QED
      BY <1>2, <1>6, <1>7, <1>9, <2>1 DEF LoansOK, LoanRowsOK
  <1>11. LoanCountsOK'
    <2>1. UNCHANGED ShownLoans
      BY DEF ShownLoans
    <2>2. behind = {} => UNCHANGED LostAway
      <3>1. ASSUME behind = {}
            PROVE  loan.lost /\ page.list.open_loans[l] = None <=>
                   table[l].lost /\ page.list.open_loans[l] = None
        <4>1. LoanRowOK(c)
          BY <1>0, <1>1, <3>1 DEF LoansOK, LoanRowsOK
        <4> QED
          BY <1>0, <4>1 DEF LoanRowOK, Mutations, Loans!Closing
      <3> QED
        BY <1>5, <2>1, <3>1 DEF LostAway, LostLoans, ShownLoans
    <2>3. \A e \in calls' : e.to = "page" /\ e.op = "stats" => FALSE
      BY <1>1, <1>2, <1>8 DEF LoansOK, LoanPageOK, LoanHeard, Loans!Loaded, Mutations, Loans!Closing
    <2>4. \A k \in Ids : table'[k].lost => table'[k].state = "reviewed"
      <3>1. table'[l].lost => table'[l].state = "reviewed"
        BY <1>5, <1>0 DEF Mutations
      <3> QED
        BY <1>5, <3>1 DEF LoansOK, LoanCountsOK
    <2> QED
      BY <1>2, <1>8, <2>1, <2>2, <2>3, <2>4 DEF LoansOK, LoanCountsOK, Loans!Loaded
  <1> QED
    BY <1>3, <1>4, <1>10, <1>11 DEF LoansOK

\* The server answers and leaves the table alone.
LEMMA LoansReplyKeeps ==
  ASSUME LoansOK, NEW c \in calls, c.answer = "none",
         NEW answer \in {"ok", "refused", "failed"}, NEW data, Loans!Reply(c, answer, data),
         UNCHANGED <<table, page, behind, faults, changes>>,
         answer # "ok" => data = None, c.op \in Mutations => answer # "ok",
         c.op = "stats" /\ answer = "ok" => data \in Loans!Stats /\ Counts(data),
         c.op = "list" /\ answer = "ok" =>
           /\ data \in Loans!List
           /\ c.to = "page" => \A l \in Ids \ behind : Dated(data, l) /\ Queued(data, l)
  PROVE  LoansOK'
  <1>0. LoanCallOK(c) /\ (c.to = "page" \/ c.to = "gone")
    BY DEF LoansOK, LoanCallOK
  <1>1. behind' \subseteq Ids /\ changes' \in 0 .. MaxChanges /\ faults' \in 0 .. MaxFaults
    BY DEF LoansOK, Loans!TypeOK
  <1>2. CASE c.to = "gone"
    <2>1. calls' = calls \ {c}
      BY <1>2 DEF Loans!Reply
    <2> QED
      BY <1>0, <1>1, <1>2, <2>1, LoansCallMoves
  <1>3. CASE c.to = "page"
    <2>1. PICK d : d = [c EXCEPT !.answer = answer, !.data = data]
      OBVIOUS
    <2>2. /\ d.op = c.op /\ d.id = c.id /\ d.to = "page" /\ d.answer = answer
          /\ d.data = data /\ LoanCallOK(d)
      BY <1>0, <1>3, <2>1, TeacherPagesAssumption DEF LoanCallOK, Mutations, Loans!Closing
    <2>3. calls' = (calls \ {c}) \cup {d}
      BY <1>3, <2>1 DEF Loans!Reply
    <2>4. d # c /\ c \notin calls' /\ d \in calls'
      BY <2>2, <2>3
    <2> QED
      BY <1>1, <1>3, <2>2, <2>3, <2>4, LoansCallMoves
  <1> QED
    BY <1>0, <1>2, <1>3

\* The server carries a mutation out, whether the page waits for it or not.
LEMMA LoansUpdateKeeps ==
  ASSUME LoansOK, NEW c \in calls, c.answer = "none", c.op \in Mutations,
         NEW loan \in Loans!Loan, NEW data \in Nat \cup {None},
         Loans!Update(c, loan, data), UNCHANGED <<page, faults>>,
         c.op = "extend" => /\ Loans!Open(c.id) /\ loan.state = "open" /\ ~loan.lost
                            /\ data = loan.due_at /\ data # None,
         c.op \in Loans!Closing => /\ Loans!Open(c.id) /\ loan.state = "reviewed"
                                  /\ loan.lost = (c.op = "lost"),
         c.op = "review" => /\ ~Loans!Open(c.id) /\ loan.state = "reviewed"
                            /\ loan.lost = table[c.id].lost
  PROVE  LoansOK'
  <1>0. c.id \in Ids /\ (c.to = "page" \/ c.to = "gone")
    BY DEF LoansOK, LoanCallOK, Mutations, Loans!Closing
  <1>1. CASE c.to = "page"
    BY <1>1, LoansUpdateTold
  <1>2. CASE c.to = "gone"
    <2>1. /\ calls' \subseteq calls /\ \A e \in calls : e.to = "page" => e \in calls'
          /\ table' = [table EXCEPT ![c.id] = loan] /\ behind' = behind \cup {c.id}
          /\ changes' \in 0 .. MaxChanges /\ faults' \in 0 .. MaxFaults
      BY <1>2, BrowserAssumption
         DEF Loans!Update, Loans!Change, Loans!Reply, LoansOK, Loans!TypeOK
    <2>2. loan.lost => loan.state = "reviewed"
      BY DEF Mutations, Loans!Closing
    <2> QED
      BY <1>0, <2>1, <2>2, LoansChangeElsewhere
  <1> QED
    BY <1>0, <1>1, <1>2

LEMMA LoansServeKeeps ==
  ASSUME LoansOK, NEW c \in calls, Loans!Serve(c)
  PROVE  LoansOK'
  <1>0. c.answer = "none" /\ UNCHANGED <<page, faults>> /\ LoanCallOK(c)
    BY DEF Loans!Serve, Loans!OffPage, LoansOK
  <1>1. ASSUME NEW answer \in {"refused", "failed"}, Loans!NoChange(c, answer, None),
               UNCHANGED <<table, behind>>, c.op \in Mutations
        PROVE  LoansOK'
    <2>1. c.op \notin {"stats", "list"}
      BY <1>1 DEF Mutations, Loans!Closing
    <2> QED
      BY <1>0, <1>1, <2>1, LoansReplyKeeps DEF Loans!NoChange
  <1>2. CASE Loans!AdminStats(c)
    <2>1. PICK stats :
            stats = [open_loans |-> Cardinality({l \in Ids : Loans!Open(l)}),
                     lost_books |-> Cardinality({l \in Ids : table[l].lost})]
      OBVIOUS
    <2>2. stats \in Loans!Stats /\ Counts(stats)
      <3>1. stats = [open_loans |-> Cardinality(OpenLoans),
                     lost_books |-> Cardinality(LostLoans)]
        BY <2>1 DEF OpenLoans, LostLoans
      <3> QED
        BY <3>1, LoanSets DEF Loans!Stats, Counts
    <2>3. c.op = "stats" /\ Loans!Reply(c, "ok", stats) /\ UNCHANGED <<table, behind, changes>>
      <3>1. \A S : Loans!Cardinality(S) = Cardinality(S)
        BY DEF Loans!Cardinality, Cardinality
      <3>2. c.op = "stats" /\ Loans!NoChange(c, "ok", stats) /\ UNCHANGED <<table, behind>>
        BY <1>2, <2>1, <3>1 DEF Loans!AdminStats
      <3> QED
        BY <3>2 DEF Loans!NoChange
    <2>4. c.op \notin Mutations
      BY <2>3 DEF Mutations, Loans!Closing
    <2> QED
      BY <1>0, <2>2, <2>3, <2>4, LoansReplyKeeps
  <1>3. CASE Loans!ListAdminLoans(c)
    <2>0. c.op = "list" /\ UNCHANGED <<table, behind, changes>> /\ c.op \notin Mutations
      BY <1>3 DEF Loans!ListAdminLoans, Mutations, Loans!Closing
    <2>1. CASE c.data = None
      <3>1. PICK open : open = [l \in Ids |-> IF Loans!Open(l) THEN table[l].due_at ELSE None]
        OBVIOUS
      <3>2. PICK list, d : /\ list = [open_loans |-> open, review_queue |-> {}]
                           /\ d = [c EXCEPT !.data = list]
        OBVIOUS
      <3>3. open \in [Ids -> Nat \cup {None}]
        BY <3>1 DEF LoansOK, Loans!TypeOK, Loans!Loan
      <3>4. list \in Loans!List /\ list # None /\ \A l \in Ids : Dated(list, l)
        BY <3>1, <3>2, <3>3, TeacherPagesAssumption DEF Loans!List, Dated
      <3>5. /\ d.op = c.op /\ d.id = c.id /\ d.to = c.to /\ d.answer = "none" /\ d.data = list
            /\ LoanCallOK(d)
        BY <1>0, <2>0, <3>2, <3>4 DEF LoanCallOK
      <3>6. calls' = (calls \ {c}) \cup {d}
        BY <1>3, <2>1, <3>1, <3>2 DEF Loans!ListAdminLoans
      <3>7. d # c /\ c \notin calls' /\ d \in calls'
        BY <2>1, <3>4, <3>5, <3>6
      <3>8. behind' \subseteq Ids /\ changes' \in 0 .. MaxChanges /\ faults' \in 0 .. MaxFaults
        BY <1>0, <2>0 DEF LoansOK, Loans!TypeOK
      <3> QED
        BY <1>0, <2>0, <3>4, <3>5, <3>6, <3>7, <3>8, LoansCallMoves
    <2>2. CASE c.data # None
      <3>1. c.data \in Loans!List
        BY <1>0, <2>0, <2>2 DEF LoanCallOK
      <3>2. PICK list : list = [c.data EXCEPT !.review_queue =
                                  {l \in Ids : table[l].state = "review"}]
        OBVIOUS
      <3>3. list \in Loans!List /\ \A l \in Ids : Queued(list, l)
        BY <3>1, <3>2 DEF Loans!List, Queued
      <3>4. c.to = "page" => \A l \in Ids \ behind : Dated(list, l)
        BY <1>0, <2>0, <2>2, <3>1, <3>2 DEF LoansOK, LoanRowsOK, Dated, Loans!List
      <3>5. Loans!Reply(c, "ok", list)
        BY <1>3, <2>2, <3>2 DEF Loans!ListAdminLoans
      <3> QED
        BY <1>0, <2>0, <3>3, <3>4, <3>5, LoansReplyKeeps
    <2> QED
      BY <2>1, <2>2
  <1>4. CASE Loans!ExtendAdminLoan(c)
    <2>0. c.op = "extend" /\ c.op \in Mutations /\ c.id \in Ids /\ c.op \notin Loans!Closing
      BY <1>0, <1>4 DEF Loans!ExtendAdminLoan, Mutations, Loans!Closing, LoanCallOK
    <2>1. CASE Loans!Open(c.id)
      <3>1. PICK due, loan : /\ due = table[c.id].due_at + 1
                             /\ loan = [table[c.id] EXCEPT !.due_at = due]
        OBVIOUS
      <3>2. /\ due \in Nat /\ due # None /\ loan \in Loans!Loan /\ loan.due_at = due
            /\ loan.state = "open" /\ loan.lost = table[c.id].lost
        BY <2>0, <2>1, <3>1, TeacherPagesAssumption
           DEF LoansOK, Loans!TypeOK, Loans!Loan, Loans!Open
      <3>3. ~loan.lost
        BY <2>0, <2>1, <3>2 DEF LoansOK, LoanCountsOK, Loans!Open
      <3>4. Loans!Update(c, loan, due)
        BY <1>4, <2>1, <3>1 DEF Loans!ExtendAdminLoan
      <3> QED
        BY <1>0, <2>0, <2>1, <3>2, <3>3, <3>4, LoansUpdateKeeps
    <2>2. CASE ~Loans!Open(c.id)
      BY <1>1, <1>4, <2>0, <2>2 DEF Loans!ExtendAdminLoan, Loans!Refuse
    <2> QED
      BY <2>1, <2>2
  <1>5. CASE Loans!CloseLoan(c)
    <2>0. c.op \in Loans!Closing /\ c.op \in Mutations /\ c.id \in Ids
      BY <1>0, <1>5 DEF Loans!CloseLoan, Mutations, Loans!Closing, LoanCallOK
    <2>1. CASE Loans!Open(c.id)
      <3>1. PICK loan : loan = [table[c.id] EXCEPT !.state = "reviewed", !.lost = c.op = "lost"]
        OBVIOUS
      <3>2. loan \in Loans!Loan /\ loan.state = "reviewed" /\ loan.lost = (c.op = "lost")
        BY <2>0, <3>1 DEF LoansOK, Loans!TypeOK, Loans!Loan
      <3>3. Loans!Update(c, loan, None)
        BY <1>5, <2>1, <3>1 DEF Loans!CloseLoan
      <3> QED
        BY <1>0, <2>0, <2>1, <3>2, <3>3, LoansUpdateKeeps DEF Loans!Closing
    <2>2. CASE ~Loans!Open(c.id)
      BY <1>1, <1>5, <2>0, <2>2 DEF Loans!CloseLoan, Loans!Refuse
    <2> QED
      BY <2>1, <2>2
  <1>6. CASE Loans!ReviewAdminLoanScan(c)
    <2>0. c.op = "review" /\ c.op \in Mutations /\ c.id \in Ids
      BY <1>0, <1>6 DEF Loans!ReviewAdminLoanScan, Mutations, LoanCallOK
    <2>1. CASE table[c.id].state \in {"review", "reviewed"}
      <3>1. PICK loan : loan = [table[c.id] EXCEPT !.state = "reviewed"]
        OBVIOUS
      <3>2. loan \in Loans!Loan /\ loan.state = "reviewed" /\ loan.lost = table[c.id].lost
        BY <2>0, <3>1 DEF LoansOK, Loans!TypeOK, Loans!Loan
      <3>3. Loans!Update(c, loan, None) /\ ~Loans!Open(c.id)
        BY <1>6, <2>1, <3>1 DEF Loans!ReviewAdminLoanScan, Loans!Open
      <3> QED
        BY <1>0, <2>0, <3>2, <3>3, LoansUpdateKeeps DEF Loans!Closing
    <2>2. CASE table[c.id].state \notin {"review", "reviewed"}
      BY <1>1, <1>6, <2>0, <2>2 DEF Loans!ReviewAdminLoanScan, Loans!Refuse
    <2> QED
      BY <2>1, <2>2
  <1>7. CASE /\ c.op \notin {"stats", "list"}
             /\ Loans!Overloaded(c) /\ UNCHANGED <<table, behind>>
    <2>1. c.op \in Mutations
      BY <1>0, <1>7 DEF LoanCallOK
    <2> QED
      BY <1>1, <1>7, <2>1 DEF Loans!Overloaded
  <1> QED
    BY <1>2, <1>3, <1>4, <1>5, <1>6, <1>7 DEF Loans!Serve

\* Of two calls about the same row one is a review, and then the row is in
\* both lists.
LEMMA LoanRowAlone ==
  ASSUME LoansOK, NEW c \in calls, NEW d \in calls, c.to = "page", d.to = "page",
         c.op \in Mutations, d.op \in Mutations, c.id = d.id, c.id \notin behind
  PROVE  c = d
  <1>1. SUFFICES ASSUME c.op # d.op
                 PROVE  FALSE
    BY DEF LoansOK, LoanPageOK
  <1>2. /\ [action |-> c.op, id |-> c.id] \in page.busy
        /\ [action |-> d.op, id |-> c.id] \in page.busy
    BY DEF LoansOK, LoanPageOK, LoanHeard
  <1>3. ~({c.op, d.op} \subseteq Loans!Closing \cup {"extend"})
    BY <1>1, <1>2 DEF LoansOK, LoanPageOK, Loans!OneCallPerLoan
  <1>4. c.op = "review" \/ d.op = "review"
    BY <1>3 DEF Mutations
  <1>5. LoanRowOK(c) /\ LoanRowOK(d)
    BY DEF LoansOK, LoanRowsOK
  <1> QED
    BY <1>1, <1>4, <1>5 DEF LoanRowOK

LEMMA LoansOpenPageKeeps ==
  ASSUME LoansOK, Loans!OpenPage
  PROVE  LoansOK'
  <1>1. PICK p, s, k : /\ p = [Loans!NoPage EXCEPT !.open = TRUE]
                       /\ s = Loans!Request("stats", None, None)
                       /\ k = Loans!Request("list", None, None)
    OBVIOUS
  <1>2. /\ p \in Loans!Page /\ p.open /\ p.stats = None /\ p.list = None
        /\ p.busy = {} /\ p.confirmation = None
    BY <1>1 DEF Loans!NoPage, Loans!Page
  <1>3. /\ s.op = "stats" /\ k.op = "list" /\ s.answer = "none" /\ k.answer = "none"
        /\ k.data = None /\ LoanCallOK(s) /\ LoanCallOK(k)
    BY <1>1 DEF Loans!Request, LoanCallOK
  <1>4. page' = p /\ calls' = calls \cup {s, k} /\ behind' = {} /\ UNCHANGED <<table, faults, changes>>
    BY <1>1 DEF Loans!OpenPage
  <1>5. \A c \in calls' : c.to = "page" => c \in {s, k}
    BY <1>4 DEF LoansOK, LoanPageOK, LoanHeard, Loans!OpenPage
  <1>6. Loans!TypeOK' /\ (\A c \in calls : LoanCallOK(c))'
    BY <1>2, <1>3, <1>4 DEF LoansOK, Loans!TypeOK, LoanCallOK
  <1>7. LoanPageOK'
    BY <1>2, <1>3, <1>4, <1>5 DEF LoanPageOK, LoanHeard, Mutations, Loans!Closing,
       Loans!LocksHaveTheirCalls, Loans!OneCallPerLoan
  <1>8. LoanRowsOK' /\ LoanCountsOK'
    BY <1>2, <1>3, <1>4, <1>5
       DEF LoansOK, LoanRowsOK, LoanCountsOK, Loans!Loaded, Mutations, Loans!Closing
  <1> QED
    BY <1>6, <1>7, <1>8 DEF LoansOK

LEMMA LoansLeaveKeeps ==
  ASSUME LoansOK, Loans!Leave
  PROVE  LoansOK'
  <1>1. page' = Loans!NoPage /\ UNCHANGED <<table, behind, faults, changes>>
    BY DEF Loans!Leave, Loans!OnPage
  <1>2. \A c \in calls' : \E d \in calls : d.answer = "none" /\ c = [d EXCEPT !.to = "gone"]
    BY DEF Loans!Leave, Loans!Abandoned
  <1>3. \A c \in calls' : c.to = "gone" /\ LoanCallOK(c)
    <2>1. SUFFICES ASSUME NEW c \in calls', NEW d \in calls, d.answer = "none",
                          c = [d EXCEPT !.to = "gone"]
                   PROVE  c.to = "gone" /\ LoanCallOK(c)
      BY <1>2
    <2>2. LoanCallOK(d)
      BY DEF LoansOK
    <2> QED
      BY <2>1, <2>2 DEF LoanCallOK
  <1>4. Loans!NoPage \in Loans!Page
    BY DEF Loans!NoPage, Loans!Page
  <1>5. Loans!TypeOK' /\ (\A c \in calls : LoanCallOK(c))'
    BY <1>1, <1>3, <1>4 DEF LoansOK, Loans!TypeOK, LoanCallOK
  <1>6. LoanPageOK' /\ LoanRowsOK' /\ LoanCountsOK'
    BY <1>1, <1>3 DEF LoansOK, LoanPageOK, LoanRowsOK, LoanCountsOK, Loans!NoPage, Loans!Loaded,
       Loans!LocksHaveTheirCalls, Loans!OneCallPerLoan
  <1> QED
    BY <1>5, <1>6 DEF LoansOK

LEMMA LoansTeacherKeeps ==
  ASSUME LoansOK, Loans!Teacher
  PROVE  LoansOK'
  <1>0. \A l : Loans!FreeRow(l) =>
          /\ Loans!Loaded /\ page.open /\ page.list.open_loans[l] # None
          /\ page.confirmation # None => page.confirmation.id # l
          /\ \A b \in page.busy : b.id # l
    BY DEF Loans!FreeRow, Loans!RowBusy, Loans!Loaded, LoansOK, LoanPageOK, Loans!NoPage
  <1>1. ASSUME NEW l \in Ids, Loans!Extend(l)
        PROVE  LoansOK'
    BY <1>0, <1>1, LoansSendKeeps DEF Loans!Extend, Loans!OnPage, Mutations
  <1>2. ASSUME NEW l \in Ids, NEW a \in Loans!Closing, Loans!Confirm(l, a)
        PROVE  LoansOK'
    <2>1. PICK q : q = [action |-> a, id |-> l]
      OBVIOUS
    <2>2. q \in [action: Loans!Closing, id: Ids] /\ q.id = l
      BY <2>1
    <2>3. /\ page' = [page EXCEPT !.confirmation = q] /\ page.open
          /\ UNCHANGED <<table, behind, calls, faults, changes>>
          /\ Loans!Loaded /\ \A b \in page.busy : b.id # l
      BY <1>0, <1>2, <2>1 DEF Loans!Confirm, Loans!Turn, Loans!OnPage
    <2> QED
      BY <2>2, <2>3, LoansTurnKeeps
  <1>3. ASSUME NEW l \in Ids, Loans!Review(l)
        PROVE  LoansOK'
    <2>1. /\ page.open /\ Loans!Loaded /\ l \in page.list.review_queue
          /\ Loans!Mutate("review", l) /\ UNCHANGED <<table, behind, faults, changes>>
      BY <1>3 DEF Loans!Review, Loans!OnPage, Loans!Loaded, LoansOK, LoanPageOK, Loans!NoPage
    <2> QED
      BY <2>1, LoansSendKeeps DEF Mutations
  <1>4. CASE Loans!Close
    <2>1. PICK q : q = page.confirmation
      OBVIOUS
    <2>2. /\ q \in [action: Loans!Closing, id: Ids] /\ q # None
          /\ page.list.open_loans[q.id] # None /\ page.open
      BY <1>4, <2>1 DEF Loans!Close, Loans!Asked, LoansOK, Loans!TypeOK, Loans!Page, LoanPageOK,
         Loans!NoPage
    <2>3. q = [action |-> q.action, id |-> q.id] /\ q.action \in Mutations /\ q.action # "review"
          /\ q.id \in Ids
      BY <2>2 DEF Mutations, Loans!Closing
    <2>4. Loans!Mutate(q.action, q.id) /\ UNCHANGED <<table, behind, faults, changes>>
      BY <1>4, <2>1 DEF Loans!Close, Loans!OnPage
    <2>5. \A b \in page.busy : b.id = q.id => b.action = "review"
      <3>1. q \notin page.busy
        BY <2>3, <2>4 DEF Loans!Mutate
      <3> QED
        BY <2>1, <2>2, <3>1 DEF LoansOK, LoanPageOK
    <2>6. Loans!Loaded
      BY <2>1, <2>2 DEF LoansOK, LoanPageOK
    <2> QED
      BY <2>1, <2>2, <2>3, <2>4, <2>5, <2>6, LoansSendKeeps
  <1>5. CASE Loans!CancelConfirmation
    BY <1>5, LoansTurnKeeps DEF Loans!CancelConfirmation, Loans!Turn, Loans!OnPage, Loans!Asked,
       LoansOK, LoanPageOK, Loans!NoPage
  <1> QED
    BY <1>1, <1>2, <1>3, <1>4, <1>5, LoansOpenPageKeeps, LoansLeaveKeeps DEF Loans!Teacher

LEMMA LoansStudentReturnsKeeps ==
  ASSUME LoansOK, NEW l \in Ids, Loans!StudentReturns(l)
  PROVE  LoansOK'
  <1>1. PICK state \in {"scanned", "review"} : table' = [table EXCEPT ![l].state = state]
    BY DEF Loans!StudentReturns
  <1>2. PICK loan : loan = [table[l] EXCEPT !.state = state]
    OBVIOUS
  <1>3. loan \in Loans!Loan /\ loan.lost = table[l].lost
    BY <1>2 DEF LoansOK, Loans!TypeOK, Loans!Loan
  <1>4. table' = [table EXCEPT ![l] = loan]
    BY <1>1, <1>2
  <1>5. ~loan.lost
    BY <1>3 DEF LoansOK, LoanCountsOK, Loans!StudentReturns, Loans!Open
  <1>6. /\ behind' = behind \cup {l} /\ UNCHANGED <<calls, page>>
        /\ faults' \in 0 .. MaxFaults /\ changes' \in 0 .. MaxChanges
    BY BrowserAssumption DEF Loans!StudentReturns, Loans!OffPage, LoansOK, Loans!TypeOK
  <1> QED
    BY <1>3, <1>4, <1>5, <1>6, LoansChangeElsewhere

LEMMA LoansLoseKeeps ==
  ASSUME LoansOK, NEW c \in calls, Loans!Lose(c)
  PROVE  LoansOK'
  <1>1. PICK d, e : d = [c EXCEPT !.answer = "failed", !.data = None] /\ e = [c EXCEPT !.to = "gone"]
    OBVIOUS
  <1>2. LoanCallOK(c) /\ c.to = "page" /\ c.answer # "failed" /\ UNCHANGED <<table, page, changes>>
    BY DEF LoansOK, LoanCallOK, Loans!Lose, Loans!Fail
  <1>3. /\ d.op = c.op /\ d.id = c.id /\ d.to = "page" /\ d.answer = "failed" /\ LoanCallOK(d)
        /\ e.to = "gone" /\ (c.answer = "none" => LoanCallOK(e))
    BY <1>1, <1>2 DEF LoanCallOK
  <1>4. \/ calls' = (calls \ {c}) \cup {d}
        \/ c.answer = "none" /\ calls' = (calls \ {c}) \cup {d, e}
    BY <1>1 DEF Loans!Lose, Loans!Fail
  <1>5. /\ c \notin calls' /\ d \in calls' /\ calls \ {c} \subseteq calls'
        /\ \A f \in calls' \ calls : f = d \/ (f.to = "gone" /\ LoanCallOK(f))
    BY <1>2, <1>3, <1>4
  <1>6. faults' \in 0 .. MaxFaults /\ changes' \in 0 .. MaxChanges
    BY <1>2, BrowserAssumption DEF Loans!Lose, Loans!Fail, LoansOK, Loans!TypeOK
  <1>7. /\ behind \subseteq behind' /\ behind' \subseteq Ids
        /\ c.op \in Mutations /\ c.answer = "ok" => c.id \in behind'
    BY <1>2 DEF Loans!Lose, LoansOK, Loans!TypeOK, LoanCallOK, Mutations, Loans!Closing
  <1> QED
    BY <1>2, <1>3, <1>5, <1>6, <1>7, LoansCallMoves

LEMMA LoansLoadArrivesKeeps ==
  ASSUME LoansOK, NEW c \in calls, c.answer # "none", Loans!LoadArrives(c), Loans!Heard(c),
         Loans!OnPage
  PROVE  LoansOK'
  <1>0. /\ LoanCallOK(c) /\ c.to = "page" /\ c.op \in {"stats", "list"} /\ c.id = None
        /\ c.op \notin Mutations /\ UNCHANGED <<table, behind, faults, changes>>
        /\ calls' = calls \ {c}
    BY DEF LoansOK, LoanCallOK, Loans!LoadArrives, Loans!Heard, Loans!OnPage, Mutations, Loans!Closing
  <1>1. page.open /\ (c.op = "stats" => page.stats = None) /\ (c.op = "list" => page.list = None)
    BY <1>0 DEF LoansOK, LoanPageOK, LoanHeard
  <1>2. \A e \in calls' : e.to = "page" => e.op # c.op /\ e.op \notin Mutations
    <2>1. \A e \in calls : e.to = "page" => e.op \notin Mutations
      BY <1>0, <1>1 DEF LoansOK, LoanPageOK, LoanHeard, Loans!Loaded
    <2>2. \A e \in calls : e.op \in {"stats", "list"} => e.id = None
      BY DEF LoansOK, LoanCallOK, Mutations, Loans!Closing
    <2> QED
      BY <1>0, <2>1, <2>2 DEF LoansOK, LoanPageOK
  <1>3. ~Loans!Loaded /\ page.busy = {} /\ page.confirmation = None
    <2>1. ~Loans!Loaded
      BY <1>0, <1>1 DEF Loans!Loaded
    <2>2. page.busy = {}
      BY <1>0, <1>1, <2>1 DEF LoansOK, LoanPageOK, LoanHeard, Loans!LocksHaveTheirCalls,
         Loans!TypeOK, Loans!Page, Mutations
    <2> QED
      BY <2>1, <2>2 DEF LoansOK, LoanPageOK
  <1>4. PICK p : p = page'
    OBVIOUS
  <1>5. /\ p \in Loans!Page /\ p.open /\ p.busy = {} /\ p.confirmation = None
        /\ p.stats = IF c.op = "stats" /\ c.answer = "ok" THEN c.data ELSE page.stats
        /\ p.list = IF c.op = "list" /\ c.answer = "ok" THEN c.data ELSE page.list
    <2>0. page \in Loans!Page /\ c.answer \in {"ok", "refused", "failed"}
      BY <1>0 DEF LoansOK, Loans!TypeOK, LoanCallOK
    <2>1. CASE c.answer # "ok"
      <3>1. p = page
        BY <1>4, <2>0, <2>1 DEF Loans!LoadArrives, Loans!Refused
      <3> QED
        BY <1>1, <1>3, <2>0, <2>1, <3>1
    <2>2. CASE c.answer = "ok" /\ c.op = "stats"
      <3>1. p = [page EXCEPT !.stats = c.data] /\ c.data \in Loans!Stats
        BY <1>0, <1>4, <2>2 DEF Loans!LoadArrives, Loans!Refused, LoanCallOK
      <3> QED
        BY <1>1, <1>3, <2>0, <2>2, <3>1 DEF Loans!Page
    <2>3. CASE c.answer = "ok" /\ c.op = "list"
      <3>1. p = [page EXCEPT !.list = c.data] /\ c.data \in Loans!List
        BY <1>0, <1>4, <2>3 DEF Loans!LoadArrives, Loans!Refused, LoanCallOK
      <3> QED
        BY <1>1, <1>3, <2>0, <2>3, <3>1 DEF Loans!Page
    <2> QED
      BY <1>0, <2>1, <2>2, <2>3
  <1>6. Loans!TypeOK' /\ (\A e \in calls : LoanCallOK(e))'
    BY <1>0, <1>4, <1>5 DEF LoansOK, Loans!TypeOK, LoanCallOK
  <1>7. LoanPageOK'
    <2>1. \A e \in calls' : e \in calls /\ e # c
      BY <1>0
    <2>2. \A e \in calls' : e.to = "page" => LoanHeard(e)'
      BY <1>0, <1>2, <1>4, <1>5, <2>1 DEF LoansOK, LoanPageOK, LoanHeard
    <2>3. Loans!LocksHaveTheirCalls' /\ Loans!OneCallPerLoan'
      BY <1>0, <1>2, <1>4, <1>5 DEF LoansOK, LoanPageOK,
         Loans!LocksHaveTheirCalls, Loans!OneCallPerLoan
    <2> QED
      BY <1>0, <1>4, <1>5, <2>1, <2>2, <2>3 DEF LoansOK, LoanPageOK
  <1>8. \A l \in Ids : ~Answered(l) /\ ~Answered(l)'
    BY <1>0, <1>2, TeacherPagesAssumption DEF Answered, LoansOK, LoanCallOK
  <1>9. \A l, list : (Dated(list, l)' <=> Dated(list, l)) /\ (Queued(list, l)' <=> Queued(list, l))
    BY <1>0 DEF Dated, Queued, Loans!Open
  <1>10. p.list # None => \A l \in Ids \ behind : Dated(p.list, l) /\ Queued(p.list, l)
    BY <1>0, <1>5, <1>8 DEF LoansOK, LoanRowsOK
  <1>11. LoanRowsOK'
    BY <1>0, <1>2, <1>4, <1>9, <1>10 DEF LoansOK, LoanRowsOK
  <1>12. LoanCountsOK'
    <2>1. UNCHANGED <<OpenLoans, LostLoans>>
      BY <1>0 DEF OpenLoans, LostLoans, Loans!Open
    <2>2. behind = {} /\ p.stats # None => Counts(p.stats)
      BY <1>0, <1>3, <1>5 DEF LoansOK, LoanCountsOK, Loans!Loaded
    <2>3. behind = {} /\ Loans!Loaded' => ShownLoans' = OpenLoans /\ LostAway' = LostLoans
      <3>1. SUFFICES ASSUME behind = {}, p.list # None
                     PROVE  ShownLoans' = OpenLoans /\ LostAway' = LostLoans
        BY <1>4 DEF Loans!Loaded
      <3>2. \A l \in Ids : p.list.open_loans[l] # None <=> Loans!Open(l)
        BY <1>10, <3>1, TeacherPagesAssumption DEF Dated, LoansOK, Loans!TypeOK, Loans!Loan
      <3>3. ShownLoans' = OpenLoans
        BY <1>4, <3>2 DEF ShownLoans, OpenLoans
      <3>4. \A l \in LostLoans : ~Loans!Open(l)
        BY DEF LostLoans, LoansOK, LoanCountsOK, Loans!Open
      <3> QED
        BY <2>1, <3>3, <3>4 DEF LostAway, OpenLoans, LostLoans
    <2> QED
      BY <1>0, <1>4, <2>1, <2>2, <2>3 DEF LoansOK, LoanCountsOK, Counts, Loans!Loaded
  <1> QED
    BY <1>6, <1>7, <1>11, <1>12 DEF LoansOK

\* The answer about a row is taken in: its lock goes, and the row is p's.
LEMMA LoansUnlockKeeps ==
  ASSUME LoansOK, NEW c \in calls, c.to = "page", c.answer # "none", c.op \in Mutations,
         NEW p \in Loans!Page, page' = p, p.open, p.stats # None, p.list # None,
         p.busy = page.busy \ {[action |-> c.op, id |-> c.id]},
         p.confirmation \in {page.confirmation, None},
         calls' = calls \ {c}, UNCHANGED <<table, behind, faults, changes>>,
         \A l \in Ids : l # c.id =>
           /\ p.list.open_loans[l] = page.list.open_loans[l]
           /\ l \in p.list.review_queue <=> l \in page.list.review_queue,
         IF c.answer = "ok" THEN c.id \notin behind => Dated(p.list, c.id) /\ Queued(p.list, c.id)
         ELSE p.list = page.list,
         behind = {} => /\ p.stats.open_loans = Cardinality(ShownLoans)'
                        /\ p.stats.lost_books = Cardinality(LostAway)'
  PROVE  LoansOK'
  <1>0. LoanCallOK(c) /\ c.id \in Ids /\ Loans!Loaded
    BY DEF LoansOK, LoanPageOK, LoanHeard, LoanCallOK, Mutations, Loans!Closing
  <1>1. Loans!TypeOK' /\ (\A e \in calls : LoanCallOK(e))'
    BY DEF LoansOK, Loans!TypeOK, LoanCallOK
  <1>2. \A e \in calls' : e.to = "page" =>
          /\ e \in calls /\ e # c /\ e.op \in Mutations
          /\ [action |-> e.op, id |-> e.id] \in page.busy
          /\ [action |-> e.op, id |-> e.id] # [action |-> c.op, id |-> c.id]
    <2>1. SUFFICES ASSUME NEW e \in calls, e # c, e.to = "page"
                   PROVE  /\ e.op \in Mutations
                          /\ [action |-> e.op, id |-> e.id] \in page.busy
                          /\ ~(e.op = c.op /\ e.id = c.id)
      OBVIOUS
    <2>2. LoanHeard(e) /\ LoanCallOK(e)
      BY <2>1 DEF LoansOK, LoanPageOK
    <2>3. e.op \in Mutations
      BY <1>0, <2>2 DEF LoanHeard, LoanCallOK, Loans!Loaded
    <2> QED
      BY <2>1, <2>2, <2>3 DEF LoansOK, LoanPageOK, LoanHeard
  <1>3. LoanPageOK'
    <2>1. \A e \in calls' : e.to = "page" => LoanHeard(e)'
      BY <1>2 DEF LoanHeard, Loans!Loaded, Mutations, Loans!Closing
    <2>2. Loans!LocksHaveTheirCalls'
      <3>1. SUFFICES ASSUME NEW b \in page.busy, b # [action |-> c.op, id |-> c.id]
                     PROVE  \E e \in calls' : e.to = "page" /\ e.op = b.action /\ e.id = b.id
        BY DEF Loans!LocksHaveTheirCalls
      <3>2. PICK e \in calls : e.to = "page" /\ e.op = b.action /\ e.id = b.id
        BY DEF LoansOK, LoanPageOK, Loans!LocksHaveTheirCalls
      <3>3. b = [action |-> b.action, id |-> b.id]
        BY DEF LoansOK, Loans!TypeOK, Loans!Page
      <3> QED
        BY <3>1, <3>2, <3>3
    <2>3. Loans!OneCallPerLoan'
      BY DEF LoansOK, LoanPageOK, Loans!OneCallPerLoan
    <2> QED
      BY <1>0, <2>1, <2>2, <2>3 DEF LoansOK, LoanPageOK, Loans!Loaded
  <1>4. \A e \in calls' : e.to = "page" /\ e.id \notin behind => e.id # c.id
    BY <1>2, LoanRowAlone
  <1>5. \A l, list : (Dated(list, l)' <=> Dated(list, l)) /\ (Queued(list, l)' <=> Queued(list, l))
    BY DEF Dated, Queued, Loans!Open
  <1>6. LoanRowsOK'
    <2>1. \A e \in calls' : e.to = "page" /\ e.id \notin behind => LoanRowOK(e)'
      <3>1. SUFFICES ASSUME NEW e \in calls, e \in calls', e.to = "page", e.id \notin behind,
                            e.id # c.id, e.op \in Mutations, e.id \in Ids
                     PROVE  LoanRowOK(e)'
        BY <1>2, <1>4 DEF LoansOK, LoanCallOK, Mutations, Loans!Closing
      <3>2. LoanRowOK(e)
        BY <3>1 DEF LoansOK, LoanRowsOK
      <3> QED
        BY <3>1, <3>2 DEF LoanRowOK, Loans!Open
    <2>2. \A l \in Ids \ behind :
            Answered(l)' \/ (Dated(p.list, l) /\ Queued(p.list, l))
      <3>1. SUFFICES ASSUME NEW l \in Ids \ behind, ~(c.answer = "ok" /\ l = c.id)
                     PROVE  Answered(l)' \/ (Dated(p.list, l) /\ Queued(p.list, l))
        OBVIOUS
      <3>2. Answered(l) => Answered(l)'
        BY <3>1 DEF Answered
      <3>3. Dated(page.list, l) /\ Queued(page.list, l) => Dated(p.list, l) /\ Queued(p.list, l)
        BY <3>1 DEF Dated, Queued
      <3> QED
        BY <1>0, <3>2, <3>3 DEF LoansOK, LoanRowsOK, Loans!Loaded
    <2> QED
      BY <1>2, <1>5, <2>1, <2>2 DEF LoanRowsOK, Mutations, Loans!Closing
  <1>7. LoanCountsOK'
    BY <1>2 DEF LoansOK, LoanCountsOK, Mutations, Loans!Closing
  <1> QED
    BY <1>1, <1>3, <1>6, <1>7 DEF LoansOK

LEMMA LoansArriveKeeps ==
  ASSUME LoansOK, NEW c \in calls, Loans!Arrive(c)
  PROVE  LoansOK'
  <1>0. /\ LoanCallOK(c) /\ c.to = "page" /\ c.answer # "none" /\ calls' = calls \ {c}
        /\ UNCHANGED <<table, behind, faults, changes>> /\ Loans!Heard(c) /\ Loans!OnPage
    BY DEF LoansOK, LoanCallOK, Loans!Arrive, Loans!Heard, Loans!OnPage
  <1>1. CASE Loans!LoadArrives(c)
    BY <1>0, <1>1, LoansLoadArrivesKeeps
  <1>2. CASE c.op \in Mutations
    <2>1. /\ page.open /\ Loans!Loaded /\ page \in Loans!Page /\ c.id \in Ids
          /\ c.id \notin behind => LoanRowOK(c)
      BY <1>0, <1>2 DEF LoansOK, LoanPageOK, LoanHeard, LoanRowsOK, Loans!TypeOK, LoanCallOK,
         Mutations, Loans!Closing
    <2>2. PICK u, p : u = [page EXCEPT !.busy = page.busy \ {[action |-> c.op, id |-> c.id]}]
                      /\ p = page'
      OBVIOUS
    <2>3. /\ u \in Loans!Page /\ u.open /\ u.stats = page.stats /\ u.list = page.list
          /\ u.busy = page.busy \ {[action |-> c.op, id |-> c.id]}
          /\ u.confirmation = page.confirmation /\ u = Loans!Unlocked(c)
      BY <2>1, <2>2 DEF Loans!Page, Loans!Unlocked
    <2>4. page.list \in Loans!List /\ page.stats \in Loans!Stats
      BY <2>1 DEF Loans!Loaded, Loans!Page
    <2>5. behind = {} => /\ page.stats.open_loans = Cardinality(ShownLoans)
                         /\ page.stats.lost_books = Cardinality(LostAway)
      BY <2>1 DEF LoansOK, LoanCountsOK
    <2>6. CASE Loans!Refused(c)
      <3>1. p = u /\ c.answer # "ok"
        BY <1>0, <1>2, <2>2, <2>3, <2>6
           DEF Loans!Arrive, Loans!LoadArrives, Loans!ExtendArrives, Loans!CloseArrives,
               Loans!ReviewArrives, Loans!Refused, Mutations, Loans!Closing
      <3>2. ShownLoans' = ShownLoans /\ LostAway' = LostAway
        BY <1>0, <2>2, <2>3, <3>1 DEF ShownLoans, LostAway, LostLoans
      <3> QED
        BY <1>0, <1>2, <2>1, <2>2, <2>3, <2>5, <3>1, <3>2, LoansUnlockKeeps DEF Loans!Loaded
    <2>7. CASE c.answer = "ok" /\ c.op = "review"
      <3>1. PICK list : list = [page.list EXCEPT !.review_queue = page.list.review_queue \ {c.id}]
        OBVIOUS
      <3>2. p = [u EXCEPT !.list = list]
        BY <1>0, <1>2, <2>2, <2>3, <2>7, <3>1
           DEF Loans!Arrive, Loans!LoadArrives, Loans!ExtendArrives, Loans!CloseArrives,
               Loans!ReviewArrives, Loans!Refused, Mutations, Loans!Closing
      <3>3. /\ list \in Loans!List /\ list.open_loans = page.list.open_loans
            /\ list.review_queue = page.list.review_queue \ {c.id} /\ list # None
        BY <2>4, <3>1, TeacherPagesAssumption DEF Loans!List
      <3>4. /\ p \in Loans!Page /\ p.open /\ p.stats = page.stats /\ p.list = list
            /\ p.busy = u.busy /\ p.confirmation = page.confirmation
        BY <2>3, <3>2, <3>3 DEF Loans!Page
      <3>5. c.id \notin behind => Dated(list, c.id) /\ Queued(list, c.id)
        BY <2>1, <2>7, <3>3 DEF LoanRowOK, Dated, Queued, Loans!Open
      <3>6. ShownLoans' = ShownLoans /\ LostAway' = LostAway
        BY <1>0, <2>2, <3>3, <3>4 DEF ShownLoans, LostAway, LostLoans
      <3> QED
        BY <1>0, <1>2, <2>1, <2>2, <2>3, <2>5, <2>7, <3>3, <3>4, <3>5, <3>6, LoansUnlockKeeps
           DEF Loans!Loaded
    <2>8. CASE c.answer = "ok" /\ c.op = "extend"
      <3>1. PICK open, list :
              /\ open = [page.list.open_loans EXCEPT
                           ![c.id] = IF page.list.open_loans[c.id] = None THEN None ELSE c.data]
              /\ list = [page.list EXCEPT !.open_loans = open]
        OBVIOUS
      <3>2. p = [u EXCEPT !.list = list]
        <4>1. Loans!ExtendArrives(c) /\ ~Loans!Refused(c)
          BY <2>8 DEF Loans!Arrive, Loans!LoadArrives, Loans!CloseArrives, Loans!ReviewArrives,
             Loans!Refused, Loans!Closing
        <4>2. p = [u EXCEPT !.list.open_loans = open]
          BY <2>2, <2>3, <3>1, <4>1 DEF Loans!ExtendArrives
        <4> QED
          BY <2>3, <3>1, <4>2
      <3>3. c.data \in Nat /\ c.data # None
        BY <1>0, <2>8 DEF LoanCallOK
      <3>4. /\ open \in [Ids -> Nat \cup {None}]
            /\ open[c.id] = IF page.list.open_loans[c.id] = None THEN None ELSE c.data
            /\ \A l \in Ids : l # c.id => open[l] = page.list.open_loans[l]
        BY <2>1, <2>4, <3>1, <3>3 DEF Loans!List
      <3>5. /\ list \in Loans!List /\ list.open_loans = open
            /\ list.review_queue = page.list.review_queue /\ list # None
        BY <2>4, <3>1, <3>4, TeacherPagesAssumption DEF Loans!List
      <3>6. /\ p \in Loans!Page /\ p.open /\ p.stats = page.stats /\ p.list = list
            /\ p.busy = u.busy /\ p.confirmation = page.confirmation
        BY <2>3, <3>2, <3>5 DEF Loans!Page
      <3>7. c.id \notin behind => Dated(list, c.id) /\ Queued(list, c.id)
        BY <2>1, <2>8, <3>4, <3>5 DEF LoanRowOK, Dated, Queued, Loans!Open, Loans!Closing
      <3>8. ShownLoans' = ShownLoans /\ LostAway' = LostAway
        BY <1>0, <2>2, <3>3, <3>4, <3>5, <3>6 DEF ShownLoans, LostAway, LostLoans
      <3> QED
        BY <1>0, <1>2, <2>1, <2>2, <2>3, <2>5, <2>8, <3>4, <3>5, <3>6, <3>7, <3>8, LoansUnlockKeeps
           DEF Loans!Loaded
    <2>9. CASE c.answer = "ok" /\ c.op \in Loans!Closing
      <3>1. PICK open, list, stats, confirmation :
              /\ open = [page.list.open_loans EXCEPT ![c.id] = None]
              /\ list = [page.list EXCEPT !.open_loans = open]
              /\ stats = [page.stats EXCEPT
                            !.open_loans = Loans!Decremented(page.stats.open_loans),
                            !.lost_books = IF c.op = "lost" THEN page.stats.lost_books + 1
                                           ELSE page.stats.lost_books]
              /\ confirmation = IF page.confirmation = [action |-> c.op, id |-> c.id] THEN None
                                ELSE page.confirmation
        OBVIOUS
      <3>2. p = [u EXCEPT !.list = list, !.stats = stats, !.confirmation = confirmation]
        <4>1. Loans!CloseArrives(c) /\ ~Loans!Refused(c)
          BY <2>9 DEF Loans!Arrive, Loans!LoadArrives, Loans!ExtendArrives, Loans!ReviewArrives,
             Loans!Refused, Loans!Closing
        <4> QED
          BY <2>2, <2>3, <3>1, <4>1 DEF Loans!CloseArrives
      <3>3. /\ open \in [Ids -> Nat \cup {None}] /\ open[c.id] = None
            /\ \A l \in Ids : l # c.id => open[l] = page.list.open_loans[l]
        BY <2>1, <2>4, <3>1 DEF Loans!List
      <3>4. /\ list \in Loans!List /\ list.open_loans = open
            /\ list.review_queue = page.list.review_queue /\ list # None
        BY <2>4, <3>1, <3>3, TeacherPagesAssumption DEF Loans!List
      <3>5. /\ stats \in Loans!Stats /\ stats # None
            /\ stats.open_loans = Loans!Decremented(page.stats.open_loans)
            /\ stats.lost_books = IF c.op = "lost" THEN page.stats.lost_books + 1
                                  ELSE page.stats.lost_books
        <4>1. /\ stats.open_loans = Loans!Decremented(page.stats.open_loans)
              /\ stats.lost_books = IF c.op = "lost" THEN page.stats.lost_books + 1
                                    ELSE page.stats.lost_books
              /\ stats = [open_loans |-> stats.open_loans, lost_books |-> stats.lost_books]
          BY <2>4, <3>1 DEF Loans!Stats
        <4>2. Loans!Decremented(page.stats.open_loans) \in Nat /\ page.stats.lost_books \in Nat
          BY <2>4 DEF Loans!Stats, Loans!Decremented
        <4>3. stats \in Loans!Stats
          BY <4>1, <4>2 DEF Loans!Stats
        <4> QED
          BY <4>1, <4>3, TeacherPagesAssumption
      <3>6. /\ p \in Loans!Page /\ p.open /\ p.stats = stats /\ p.list = list
            /\ p.busy = u.busy /\ p.confirmation \in {page.confirmation, None}
        BY <2>3, <3>1, <3>2, <3>4, <3>5 DEF Loans!Page
      <3>7. c.id \notin behind => Dated(list, c.id) /\ Queued(list, c.id)
        BY <2>1, <2>9, <3>3, <3>4 DEF LoanRowOK, Dated, Queued, Loans!Open, Loans!Closing
      <3>8. ASSUME behind = {}
            PROVE  /\ stats.open_loans = Cardinality(ShownLoans)'
                   /\ stats.lost_books = Cardinality(LostAway)'
        <4>1. /\ c.id \in ShownLoans /\ (c.id \in LostLoans <=> c.op = "lost")
          BY <2>1, <2>9, <3>8 DEF LoanRowOK, ShownLoans, LostLoans, Loans!Closing
        <4>2. ShownLoans' = ShownLoans \ {c.id}
          BY <2>2, <3>3, <3>4, <3>6 DEF ShownLoans
        <4>3. LostAway' = IF c.op = "lost" THEN LostAway \cup {c.id} ELSE LostAway
          BY <1>0, <4>1, <4>2 DEF LostAway, LostLoans
        <4>4. c.id \notin LostAway
          BY <4>1 DEF LostAway
        <4>5. /\ Cardinality(ShownLoans \ {c.id}) = Cardinality(ShownLoans) - 1
              /\ Cardinality(LostAway \cup {c.id}) = Cardinality(LostAway) + 1
              /\ Cardinality(ShownLoans) # 0
          BY <4>1, <4>4, LoanSets, FS_RemoveElement, FS_AddElement, FS_EmptySet
        <4> QED
          BY <2>5, <3>5, <3>8, <4>2, <4>3, <4>5, LoanSets DEF Loans!Decremented
      <3> QED
        BY <1>0, <1>2, <2>1, <2>2, <2>3, <2>9, <3>3, <3>4, <3>5, <3>6, <3>7, <3>8, LoansUnlockKeeps
    <2> QED
      BY <1>0, <1>2, <2>6, <2>7, <2>8, <2>9 DEF Loans!Refused, LoanCallOK, Mutations
  <1> QED
    BY <1>1, <1>2 DEF Loans!Arrive, Loans!ExtendArrives, Loans!CloseArrives, Loans!ReviewArrives,
       Mutations

LEMMA LoansStart == Loans!Init => LoansOK
  <1>1. SUFFICES ASSUME Loans!Init
                 PROVE  LoansOK
    OBVIOUS
  <1>2. Loans!NoPage \in Loans!Page
    BY DEF Loans!NoPage, Loans!Page
  <1>3. table \in [Ids -> Loans!Loan] /\ \A l \in Ids : ~table[l].lost
    <2>1. PICK First : First = {[state |-> s, due_at |-> 0, lost |-> FALSE] :
                                  s \in {"open", "review"}}
      OBVIOUS
    <2>2. ASSUME NEW loan \in First
          PROVE  loan \in Loans!Loan /\ ~loan.lost
      <3>1. PICK s \in {"open", "review"} : loan = [state |-> s, due_at |-> 0, lost |-> FALSE]
        BY <2>1, <2>2
      <3> QED
        BY <3>1 DEF Loans!Loan
    <2>3. table \in [Ids -> First]
      BY <1>1, <2>1 DEF Loans!Init
    <2> QED
      BY <2>2, <2>3
  <1>4. /\ page = Loans!NoPage /\ behind = {} /\ calls = {} /\ faults = 0 /\ changes = 0
    BY <1>1 DEF Loans!Init
  <1> QED
    BY <1>2, <1>3, <1>4, BrowserAssumption
       DEF LoansOK, Loans!TypeOK, LoanPageOK, LoanRowsOK, LoanCountsOK, Loans!NoPage, Loans!Loaded,
           Loans!LocksHaveTheirCalls, Loans!OneCallPerLoan

LEMMA LoansStep == LoansOK /\ [Loans!Next]_loansVars => LoansOK'
  <1>1. SUFFICES ASSUME LoansOK, [Loans!Next]_loansVars
                 PROVE  LoansOK'
    OBVIOUS
  <1>2. CASE Loans!Next
    <2>1. \/ Loans!Teacher
          \/ \E c \in calls : Loans!Serve(c) \/ Loans!Arrive(c) \/ Loans!Lose(c)
          \/ \E l \in Ids : Loans!StudentReturns(l)
      BY <1>2 DEF Loans!Next
    <2> QED
      BY <1>1, <2>1, LoansTeacherKeeps, LoansServeKeeps, LoansArriveKeeps, LoansLoseKeeps,
         LoansStudentReturnsKeeps
  <1>3. CASE UNCHANGED loansVars
    <2>1. UNCHANGED table /\ UNCHANGED page /\ UNCHANGED behind /\ UNCHANGED calls
          /\ UNCHANGED faults /\ UNCHANGED changes
      BY <1>3 DEF loansVars
    <2>2. UNCHANGED <<OpenLoans, LostLoans, ShownLoans, LostAway>>
      BY <2>1 DEF OpenLoans, LostLoans, ShownLoans, LostAway, Loans!Open
    <2>3. Loans!TypeOK' /\ (\A c \in calls : LoanCallOK(c))'
      BY <1>1, <2>1 DEF LoansOK, Loans!TypeOK, LoanCallOK
    <2>4. LoanPageOK'
      BY <1>1, <2>1 DEF LoansOK, LoanPageOK, LoanHeard, Loans!Loaded,
         Loans!LocksHaveTheirCalls, Loans!OneCallPerLoan
    <2>5. LoanRowsOK'
      BY <1>1, <2>1 DEF LoansOK, LoanRowsOK, LoanRowOK, Answered, Dated, Queued, Loans!Open
    <2>6. LoanCountsOK'
      BY <1>1, <2>1, <2>2 DEF LoansOK, LoanCountsOK, Counts, Loans!Loaded
    <2> QED
      BY <2>3, <2>4, <2>5, <2>6 DEF LoansOK
  <1> QED
    BY <1>1, <1>2, <1>3

-----------------------------------------------------------------------------
(* The page of lost books: what it shows differs from the table by the     *)
(* answers under way.                                                      *)

lostVars == <<table, page, behind, again, calls, faults, changes>>

BookLists == (SUBSET Ids) \cup {None}

LostCallOK(c) ==
    /\ \/ c \in [op: {"list"}, id: {None}, arg: {None}, to: {"page", "gone"},
                 answer: {"none", "ok", "refused", "failed"}, data: BookLists]
       \/ c \in [op: {"stats"}, id: {None}, arg: {None}, to: {"page", "gone"},
                 answer: {"none", "ok", "refused", "failed"}, data: Nat \cup {None}]
       \/ c \in [op: {"found"}, id: Ids, arg: {None}, to: {"page", "gone"},
                 answer: {"none", "ok", "refused", "failed"}, data: {None}]
    /\ c.to = "gone" => c.answer = "none"
    /\ c.op # "found" /\ c.answer = "ok" => c.data # None

LostHeard(c) ==
    /\ page.open
    /\ c.op = "list" => page.books = None
    /\ c.op = "stats" => page.count = None
    /\ c.op = "found" => Lost!Loaded

LostPageOK ==
    /\ ~page.open => page = Lost!NoPage
    /\ \A c \in calls : c.to = "page" => LostHeard(c)
    /\ \A c, d \in calls :
         c.to = "page" /\ d.to = "page" /\ c.op = d.op /\ c.op # "found" => c = d
    /\ page.confirmation # None => Lost!Loaded

\* Books that answers under way say are found.
FoundTold(b) == \E c \in calls : c.to = "page" /\ c.answer = "ok" /\ c.id = b

LostRowsOK ==
    /\ \A b \in Ids \ behind : FoundTold(b) => b \notin table
    /\ \A c \in calls :
         c.to = "page" /\ c.op = "list" /\ c.answer = "ok" =>
           \A b \in Ids \ behind : b \in c.data <=> b \in table
    /\ page.books # None =>
         \A b \in Ids \ behind : b \in table <=> b \in page.books /\ ~FoundTold(b)

\* As long as no book is confirmed twice at once, each answer is about a row
\* of its own.
LostCountOK ==
    behind = {} =>
      /\ \A c \in calls : c.to = "page" /\ c.op = "stats" /\ c.answer = "ok" =>
           c.data = Cardinality(table)
      /\ page.count # None /\ page.books = None => page.count = Cardinality(table)
      /\ Lost!Loaded /\ ~again =>
           /\ page.count = Cardinality(page.books)
           /\ \A c, d \in calls : c.to = "page" /\ d.to = "page" /\ c.op = "found"
                                  /\ d.op = "found" /\ c.id = d.id => c = d
           /\ \A c \in calls : c.to = "page" /\ c.op = "found" => c.id \in page.books

LostOK ==
    /\ Lost!TypeOK
    /\ \A c \in calls : LostCallOK(c)
    /\ LostPageOK /\ LostRowsOK /\ LostCountOK

\* Of the two loads each is one call, and before both are answered the page
\* sends nothing.
LEMMA LostLoading ==
  ASSUME LostOK, ~Lost!Loaded, NEW c \in calls, c.to = "page"
  PROVE  c.op \in {"list", "stats"} /\ c.id = None /\ \A b \in Ids : ~FoundTold(b)
  <1>1. \A d \in calls : d.to = "page" => d.op \in {"list", "stats"} /\ d.id = None
    BY DEF LostOK, LostPageOK, LostHeard, LostCallOK
  <1> QED
    BY <1>1, TeacherPagesAssumption DEF FoundTold

LEMMA LostTurnKeeps ==
  ASSUME LostOK, NEW q \in Ids \cup {None}, page' = [page EXCEPT !.confirmation = q], page.open,
         q # None => Lost!Loaded, UNCHANGED <<table, behind, again, calls, faults, changes>>
  PROVE  LostOK'
  <1>1. PICK p : p = [page EXCEPT !.confirmation = q]
    OBVIOUS
  <1>2. /\ p \in Lost!Page /\ p.open /\ p.books = page.books /\ p.count = page.count /\ page' = p
    BY <1>1 DEF LostOK, Lost!TypeOK, Lost!Page
  <1>3. Lost!TypeOK' /\ (\A c \in calls : LostCallOK(c))'
    BY <1>2 DEF LostOK, Lost!TypeOK, LostCallOK
  <1>4. LostPageOK'
    BY <1>2 DEF LostOK, LostPageOK, LostHeard, Lost!Loaded
  <1>5. LostRowsOK' /\ LostCountOK'
    BY <1>2 DEF LostOK, LostRowsOK, LostCountOK, FoundTold, Lost!Loaded
  <1> QED
    BY <1>3, <1>4, <1>5 DEF LostOK

LEMMA LostFoundKeeps ==
  ASSUME LostOK, Lost!Found
  PROVE  LostOK'
  <1>1. PICK b, p, c : /\ b = page.confirmation /\ p = [page EXCEPT !.busy = b]
                       /\ c = Lost!Request("found", b, None)
    OBVIOUS
  <1>2. /\ b \in Ids /\ b \in page.books /\ page.open /\ Lost!Loaded
        /\ p \in Lost!Page /\ p.open /\ p.books = page.books /\ p.count = page.count
        /\ p.confirmation = page.confirmation
    BY <1>1 DEF Lost!Found, LostOK, LostPageOK, Lost!TypeOK, Lost!Page, Lost!NoPage
  <1>3. /\ page' = p /\ calls' = calls \cup {c} /\ UNCHANGED <<table, behind, faults, changes>>
        /\ again' = (again \/ \E d \in calls : d.op = "found" /\ d.to = "page" /\ d.id = b)
    BY <1>1 DEF Lost!Found, Lost!Send, Lost!Waiting
  <1>4. c.op = "found" /\ c.id = b /\ c.to = "page" /\ c.answer = "none" /\ LostCallOK(c)
    BY <1>1, <1>2 DEF Lost!Request, LostCallOK
  <1>5. Lost!TypeOK' /\ (\A d \in calls : LostCallOK(d))'
    <2>1. again' \in BOOLEAN
      BY <1>3 DEF LostOK, Lost!TypeOK
    <2> QED
      BY <1>2, <1>3, <1>4, <2>1 DEF LostOK, Lost!TypeOK, LostCallOK
  <1>6. LostPageOK'
    BY <1>2, <1>3, <1>4 DEF LostOK, LostPageOK, LostHeard, Lost!Loaded
  <1>7. LostRowsOK'
    BY <1>2, <1>3, <1>4 DEF LostOK, LostRowsOK, FoundTold
  <1>8. LostCountOK'
    <2>1. SUFFICES ASSUME behind = {}
                   PROVE  LostCountOK'
      BY <1>3 DEF LostCountOK
    <2>2. CASE again'
      BY <1>2, <1>3, <1>4, <2>1, <2>2 DEF LostOK, LostCountOK, Lost!Loaded
    <2>3. CASE ~again'
      <3>1. ~again /\ \A d \in calls : ~(d.op = "found" /\ d.to = "page" /\ d.id = b)
        BY <1>3, <2>3
      <3> QED
        BY <1>2, <1>3, <1>4, <2>1, <3>1 DEF LostOK, LostCountOK, Lost!Loaded
    <2> QED
      BY <2>2, <2>3
  <1> QED
    BY <1>5, <1>6, <1>7, <1>8 DEF LostOK

LEMMA LostOpenPageKeeps ==
  ASSUME LostOK, Lost!OpenPage
  PROVE  LostOK'
  <1>1. PICK p, k, s : /\ p = [Lost!NoPage EXCEPT !.open = TRUE]
                       /\ k = Lost!Request("list", None, None)
                       /\ s = Lost!Request("stats", None, None)
    OBVIOUS
  <1>2. /\ p \in Lost!Page /\ p.open /\ p.books = None /\ p.count = None /\ p.confirmation = None
    BY <1>1 DEF Lost!NoPage, Lost!Page
  <1>3. /\ k.op = "list" /\ s.op = "stats" /\ k.answer = "none" /\ s.answer = "none"
        /\ LostCallOK(k) /\ LostCallOK(s)
    <2>1. /\ k.op = "list" /\ k.answer = "none" /\ LostCallOK(k)
      <3>1. /\ k \in [op: {"list"}, id: {None}, arg: {None}, to: {"page", "gone"},
                     answer: {"none", "ok", "refused", "failed"}, data: BookLists]
            /\ k.op = "list" /\ k.answer = "none" /\ k.to = "page"
        <4>1. None \in BookLists
          BY DEF BookLists
        <4> QED
          BY <1>1, <4>1 DEF Lost!Request
      <3> QED
        BY <3>1 DEF LostCallOK
    <2>2. /\ s.op = "stats" /\ s.answer = "none" /\ LostCallOK(s)
      <3>1. /\ s \in [op: {"stats"}, id: {None}, arg: {None}, to: {"page", "gone"},
                     answer: {"none", "ok", "refused", "failed"}, data: Nat \cup {None}]
            /\ s.op = "stats" /\ s.answer = "none" /\ s.to = "page"
        BY <1>1 DEF Lost!Request
      <3> QED
        BY <3>1 DEF LostCallOK
    <2> QED
      BY <2>1, <2>2
  <1>4. /\ page' = p /\ calls' = calls \cup {k, s} /\ behind' = {} /\ again' = FALSE
        /\ UNCHANGED <<table, faults, changes>>
    BY <1>1 DEF Lost!OpenPage
  <1>5. \A c \in calls' : c.to = "page" => c \in {k, s}
    BY <1>4 DEF LostOK, LostPageOK, LostHeard, Lost!OpenPage
  <1>6. Lost!TypeOK' /\ (\A c \in calls : LostCallOK(c))'
    BY <1>2, <1>3, <1>4 DEF LostOK, Lost!TypeOK, LostCallOK
  <1>7. LostPageOK'
    BY <1>2, <1>3, <1>4, <1>5 DEF LostPageOK, LostHeard
  <1>8. LostRowsOK' /\ LostCountOK'
    BY <1>2, <1>3, <1>4, <1>5 DEF LostRowsOK, LostCountOK, FoundTold, Lost!Loaded
  <1> QED
    BY <1>6, <1>7, <1>8 DEF LostOK

LEMMA LostLeaveKeeps ==
  ASSUME LostOK, Lost!Leave
  PROVE  LostOK'
  <1>1. page' = Lost!NoPage /\ UNCHANGED <<table, behind, again, faults, changes>>
    BY DEF Lost!Leave, Lost!OnPage
  <1>2. \A c \in calls' : \E d \in calls : d.answer = "none" /\ c = [d EXCEPT !.to = "gone"]
    BY DEF Lost!Leave, Lost!Abandoned
  <1>3. \A c \in calls' : c.to = "gone" /\ LostCallOK(c)
    <2>1. SUFFICES ASSUME NEW c \in calls', NEW d \in calls, d.answer = "none",
                          c = [d EXCEPT !.to = "gone"]
                   PROVE  c.to = "gone" /\ LostCallOK(c)
      BY <1>2
    <2>2. LostCallOK(d)
      BY DEF LostOK
    <2> QED
      BY <2>1, <2>2 DEF LostCallOK
  <1>4. Lost!NoPage \in Lost!Page
    BY DEF Lost!NoPage, Lost!Page
  <1>5. Lost!TypeOK' /\ (\A c \in calls : LostCallOK(c))'
    BY <1>1, <1>3, <1>4 DEF LostOK, Lost!TypeOK, LostCallOK
  <1>6. LostPageOK' /\ LostRowsOK' /\ LostCountOK'
    BY <1>1, <1>3 DEF LostOK, LostPageOK, LostRowsOK, LostCountOK, FoundTold, Lost!NoPage, Lost!Loaded
  <1> QED
    BY <1>5, <1>6 DEF LostOK

\* An answered call.
Told(c, answer, data) == [c EXCEPT !.answer = answer, !.data = data]

LEMMA LostAnswer ==
  ASSUME NEW c, LostCallOK(c), c.to = "page", NEW answer \in {"ok", "refused", "failed"}, NEW data,
         data \in IF answer # "ok" \/ c.op = "found" THEN {None}
                 ELSE IF c.op = "list" THEN SUBSET Ids ELSE Nat,
         NEW d, d = Told(c, answer, data)
  PROVE  /\ d.op = c.op /\ d.id = c.id /\ d.to = "page" /\ d.answer = answer /\ d.data = data
         /\ LostCallOK(d)
  <1>1. CASE c \in [op: {"list"}, id: {None}, arg: {None}, to: {"page", "gone"},
                   answer: {"none", "ok", "refused", "failed"}, data: BookLists]
    <2>1. /\ d \in [op: {"list"}, id: {None}, arg: {None}, to: {"page", "gone"},
                   answer: {"none", "ok", "refused", "failed"}, data: BookLists]
          /\ d.op = c.op /\ d.id = c.id /\ d.to = "page" /\ d.answer = answer /\ d.data = data
      <3>1. data \in BookLists
        BY <1>1 DEF BookLists
      <3> QED
        BY <1>1, <3>1 DEF Told
    <2>2. data \in SUBSET Ids => data # None
      BY TeacherPagesAssumption
    <2> QED
      BY <1>1, <2>1, <2>2 DEF LostCallOK
  <1>2. CASE c \in [op: {"stats"}, id: {None}, arg: {None}, to: {"page", "gone"},
                   answer: {"none", "ok", "refused", "failed"}, data: Nat \cup {None}]
    <2>1. /\ d \in [op: {"stats"}, id: {None}, arg: {None}, to: {"page", "gone"},
                   answer: {"none", "ok", "refused", "failed"}, data: Nat \cup {None}]
          /\ d.op = c.op /\ d.id = c.id /\ d.to = "page" /\ d.answer = answer /\ d.data = data
      BY <1>2 DEF Told
    <2> QED
      BY <1>2, <2>1, TeacherPagesAssumption DEF LostCallOK
  <1>3. CASE c \in [op: {"found"}, id: Ids, arg: {None}, to: {"page", "gone"},
                   answer: {"none", "ok", "refused", "failed"}, data: {None}]
    <2>1. /\ d \in [op: {"found"}, id: Ids, arg: {None}, to: {"page", "gone"},
                   answer: {"none", "ok", "refused", "failed"}, data: {None}]
          /\ d.op = c.op /\ d.id = c.id /\ d.to = "page" /\ d.answer = answer /\ d.data = data
      BY <1>3 DEF Told
    <2> QED
      BY <1>3, <2>1, TeacherPagesAssumption DEF LostCallOK
  <1> QED
    BY <1>1, <1>2, <1>3 DEF LostCallOK

\* A call moves on, or nobody hears of it any more, and the table is as it was.
LEMMA LostCallMoves ==
  ASSUME LostOK, NEW c \in calls, NEW d, d.op = c.op, d.id = c.id, LostCallOK(d),
         c.to = "page" => d.to = "page" /\ d \in calls', calls \ {c} \subseteq calls',
         c.to = "page" => c \notin calls',
         \A e \in calls' \ calls : e = d \/ (e.to = "gone" /\ LostCallOK(e)),
         c.to = "gone" => d.to = "gone",
         UNCHANGED <<table, page, again>>, behind \subseteq behind', behind' \subseteq Ids,
         faults' \in 0 .. MaxFaults, changes' \in 0 .. 3,
         c.op = "found" =>
           d.answer # "ok" /\ (c.to = "page" /\ c.answer = "ok" => c.id \in behind'),
         d.to = "page" /\ d.op = "list" /\ d.answer = "ok" => d.data = table,
         d.to = "page" /\ d.op = "stats" /\ d.answer = "ok" => d.data = Cardinality(table)
  PROVE  LostOK'
  <1>1. Lost!TypeOK' /\ (\A e \in calls : LostCallOK(e))'
    BY DEF LostOK, Lost!TypeOK, LostCallOK
  <1>2. \A e \in calls' : e.to = "page" => e = d \/ (e \in calls /\ e # c)
    BY DEF LostOK, LostCallOK
  <1>3. (d.to = "page" => c.to = "page") /\ LostCallOK(c)
    BY DEF LostOK, LostCallOK
  <1>4. LostPageOK'
    <2>1. \A e \in calls' : e.to = "page" => LostHeard(e)'
      BY <1>2, <1>3 DEF LostOK, LostPageOK, LostHeard, Lost!Loaded
    <2>2. \A e, f \in calls' :
            e.to = "page" /\ f.to = "page" /\ e.op = f.op /\ e.op # "found" => e = f
      BY <1>2, <1>3 DEF LostOK, LostPageOK
    <2> QED
      BY <2>1, <2>2 DEF LostOK, LostPageOK, Lost!Loaded
  <1>5. LostRowsOK'
    <2>1. \A b \in Ids \ behind' : FoundTold(b)' <=> FoundTold(b)
      <3>1. SUFFICES ASSUME NEW b \in Ids \ behind'
                     PROVE  FoundTold(b)' <=> FoundTold(b)
        OBVIOUS
      <3>2. c.op # "found" => c.id # b
        BY <1>3, TeacherPagesAssumption DEF LostCallOK
      <3> QED
        BY <1>2, <1>3, <3>2 DEF FoundTold
    <2> QED
      BY <1>2, <1>3, <2>1 DEF LostOK, LostRowsOK
  <1>6. LostCountOK'
    BY <1>2, <1>3 DEF LostOK, LostCountOK, Lost!Loaded
  <1> QED
    BY <1>1, <1>4, <1>5, <1>6 DEF LostOK

LEMMA LostChangeElsewhere ==
  ASSUME LostOK, NEW b \in Ids, NEW new \in SUBSET Ids,
         \A a \in Ids : a # b => (a \in new <=> a \in table),
         table' = new, behind' = behind \cup {b},
         calls' \subseteq calls, \A c \in calls : c.to = "page" => c \in calls',
         UNCHANGED <<page, again>>, faults' \in 0 .. MaxFaults, changes' \in 0 .. 3
  PROVE  LostOK'
  <1>1. Lost!TypeOK' /\ (\A e \in calls : LostCallOK(e))'
    BY DEF LostOK, Lost!TypeOK, LostCallOK
  <1>2. LostPageOK'
    BY DEF LostOK, LostPageOK, LostHeard, Lost!Loaded
  <1>3. \A a : FoundTold(a)' <=> FoundTold(a)
    BY DEF FoundTold
  <1>4. LostRowsOK'
    BY <1>3 DEF LostOK, LostRowsOK
  <1>5. LostCountOK'
    BY DEF LostCountOK
  <1> QED
    BY <1>1, <1>2, <1>4, <1>5 DEF LostOK

\* The server answers and leaves the table alone.
LEMMA LostReplyKeeps ==
  ASSUME LostOK, NEW c \in calls, c.answer = "none",
         NEW answer \in {"ok", "refused", "failed"}, NEW data, Lost!Reply(c, answer, data),
         UNCHANGED <<table, page, behind, again, faults, changes>>,
         answer # "ok" => data = None, c.op = "found" => answer # "ok",
         c.op = "list" /\ answer = "ok" => data = table,
         c.op = "stats" /\ answer = "ok" => data = Cardinality(table)
  PROVE  LostOK'
  <1>0. LostCallOK(c) /\ (c.to = "page" \/ c.to = "gone")
    BY DEF LostOK, LostCallOK
  <1>1. behind' \subseteq Ids /\ changes' \in 0 .. 3 /\ faults' \in 0 .. MaxFaults
    BY DEF LostOK, Lost!TypeOK
  <1>2. CASE c.to = "gone"
    <2>1. calls' = calls \ {c}
      BY <1>2 DEF Lost!Reply
    <2> QED
      BY <1>0, <1>1, <1>2, <2>1, LostCallMoves
  <1>3. CASE c.to = "page"
    <2>1. PICK d : d = Told(c, answer, data)
      OBVIOUS
    <2>2. table \in SUBSET Ids /\ table # None /\ Cardinality(table) \in Nat /\ Cardinality(table) # None
      BY TeacherPagesAssumption, FS_Subset, FS_CardinalityType DEF LostOK, Lost!TypeOK
    <2>3. /\ d.op = c.op /\ d.id = c.id /\ d.to = "page" /\ d.answer = answer
          /\ d.data = data /\ LostCallOK(d)
      <3>1. c.op \in {"list", "stats", "found"}
        BY <1>0 DEF LostCallOK
      <3> QED
        <4>1. CASE answer # "ok"
          BY <1>0, <1>3, <2>1, <4>1, LostAnswer
        <4>2. CASE answer = "ok" /\ c.op = "list"
          BY <1>0, <1>3, <2>1, <2>2, <4>2, LostAnswer
        <4>3. CASE answer = "ok" /\ c.op = "stats"
          BY <1>0, <1>3, <2>1, <2>2, <4>3, LostAnswer
        <4> QED
          BY <3>1, <4>1, <4>2, <4>3
    <2>4. calls' = (calls \ {c}) \cup {d}
      BY <1>3, <2>1 DEF Lost!Reply, Told
    <2>5. d # c /\ c \notin calls' /\ d \in calls'
      BY <2>3, <2>4
    <2> QED
      BY <1>1, <1>3, <2>3, <2>4, <2>5, LostCallMoves
  <1> QED
    BY <1>0, <1>2, <1>3

LEMMA LostMarkFoundKeeps ==
  ASSUME LostOK, NEW c \in calls, c.answer = "none", Lost!MarkFound(c),
         UNCHANGED <<page, faults, again>>
  PROVE  LostOK'
  <1>0. LostCallOK(c) /\ c.op = "found" /\ c.id \in Ids /\ (c.to = "page" \/ c.to = "gone")
    BY DEF LostOK, LostCallOK, Lost!MarkFound
  <1>1. /\ table' = table \ {c.id} /\ table \subseteq Ids /\ changes' \in 0 .. 3
        /\ faults' \in 0 .. MaxFaults /\ Lost!Reply(c, "ok", None)
    BY DEF Lost!MarkFound, Lost!Change, LostOK, Lost!TypeOK
  <1>2. CASE c.to = "gone"
    <2>1. /\ behind' = behind \cup {c.id} /\ calls' = calls \ {c}
      BY <1>1, <1>2 DEF Lost!MarkFound, Lost!Reply
    <2>2. PICK new : new = table \ {c.id}
      OBVIOUS
    <2> QED
      BY <1>0, <1>1, <1>2, <2>1, <2>2, LostChangeElsewhere
  <1>3. CASE c.to = "page"
    <2>1. PICK d : d = [c EXCEPT !.answer = "ok", !.data = None]
      OBVIOUS
    <2>2. /\ d.op = "found" /\ d.id = c.id /\ d.to = "page" /\ d.answer = "ok" /\ LostCallOK(d)
      BY <1>0, <1>3, <2>1 DEF LostCallOK
    <2>3. calls' = (calls \ {c}) \cup {d} /\ behind' = behind
      BY <1>1, <1>3, <2>1 DEF Lost!MarkFound, Lost!Reply, LostOK, Lost!TypeOK
    <2>4. Lost!Loaded
      BY <1>0, <1>3 DEF LostOK, LostPageOK, LostHeard
    <2>5. \A e \in calls : e.to = "page" => e.op = "found"
      BY <2>4 DEF LostOK, LostPageOK, LostHeard, LostCallOK, Lost!Loaded
    <2>6. Lost!TypeOK' /\ (\A e \in calls : LostCallOK(e))'
      BY <1>1, <2>2, <2>3 DEF LostOK, Lost!TypeOK, LostCallOK
    <2>7. LostPageOK'
      BY <1>3, <2>2, <2>3, <2>4, <2>5 DEF LostOK, LostPageOK, LostHeard, Lost!Loaded
    <2>8. \A b : FoundTold(b)' <=> (FoundTold(b) \/ b = c.id)
      BY <2>2, <2>3 DEF FoundTold
    <2>9. LostRowsOK'
      BY <1>1, <2>2, <2>3, <2>5, <2>8 DEF LostOK, LostRowsOK
    <2>10. LostCountOK'
      BY <1>3, <1>0, <2>2, <2>3, <2>4, <2>5 DEF LostOK, LostCountOK, Lost!Loaded
    <2> QED
      BY <2>6, <2>7, <2>9, <2>10 DEF LostOK
  <1> QED
    BY <1>0, <1>2, <1>3

LEMMA LostServeKeeps ==
  ASSUME LostOK, NEW c \in calls, Lost!Serve(c)
  PROVE  LostOK'
  <1>0. c.answer = "none" /\ UNCHANGED <<page, faults, again>>
    BY DEF Lost!Serve
  <1>1. CASE Lost!Load(c)
    <2>1. UNCHANGED <<table, behind, changes>> /\ c.op # "found"
      BY <1>1 DEF Lost!Load, Lost!NoChange
    <2>2. CASE c.op = "list"
      BY <1>0, <1>1, <2>1, <2>2, LostReplyKeeps DEF Lost!Load, Lost!NoChange
    <2>3. CASE c.op = "stats"
      <3>1. \A S : Lost!Cardinality(S) = Cardinality(S)
        BY DEF Lost!Cardinality, Cardinality
      <3>2. Lost!Reply(c, "ok", Cardinality(table))
        BY <1>1, <2>3, <3>1 DEF Lost!Load, Lost!NoChange
      <3> QED
        BY <1>0, <2>1, <2>3, <3>2, LostReplyKeeps
    <2> QED
      BY <1>1, <2>2, <2>3 DEF Lost!Load
  <1>2. CASE Lost!MarkFound(c)
    BY <1>0, <1>2, LostMarkFoundKeeps
  <1>3. CASE c.op = "found" /\ Lost!Overloaded(c) /\ UNCHANGED <<table, behind>>
    BY <1>0, <1>3, LostReplyKeeps DEF Lost!Overloaded, Lost!NoChange
  <1> QED
    BY <1>1, <1>2, <1>3 DEF Lost!Serve

LEMMA LostMarkLostKeeps ==
  ASSUME LostOK, NEW b \in Ids, Lost!MarkLost(b)
  PROVE  LostOK'
  <1>1. PICK new : new = table \cup {b}
    OBVIOUS
  <1>2. new \in SUBSET Ids /\ table' = new /\ behind' = behind \cup {b} /\ UNCHANGED <<page, calls, again>>
    BY <1>1 DEF Lost!MarkLost, LostOK, Lost!TypeOK
  <1>3. faults' \in 0 .. MaxFaults /\ changes' \in 0 .. 3
    BY DEF Lost!MarkLost, LostOK, Lost!TypeOK
  <1>4. \A a \in Ids : a # b => (a \in new <=> a \in table)
    BY <1>1
  <1> QED
    BY <1>2, <1>3, <1>4, LostChangeElsewhere

LEMMA LostLoseKeeps ==
  ASSUME LostOK, NEW c \in calls, Lost!Lose(c)
  PROVE  LostOK'
  <1>1. PICK d, e : d = Told(c, "failed", None) /\ e = [c EXCEPT !.to = "gone"]
    OBVIOUS
  <1>2. LostCallOK(c) /\ c.to = "page" /\ c.answer # "failed" /\ UNCHANGED <<table, page, changes, again>>
    BY DEF LostOK, LostCallOK, Lost!Lose, Lost!Fail
  <1>3. /\ d.op = c.op /\ d.id = c.id /\ d.to = "page" /\ d.answer = "failed" /\ LostCallOK(d)
        /\ e.to = "gone" /\ (c.answer = "none" => LostCallOK(e))
    <2>1. /\ d.op = c.op /\ d.id = c.id /\ d.to = "page" /\ d.answer = "failed" /\ LostCallOK(d)
      BY <1>1, <1>2, LostAnswer
    <2>2. e.to = "gone" /\ (c.answer = "none" => LostCallOK(e))
      BY <1>1, <1>2 DEF LostCallOK
    <2> QED
      BY <2>1, <2>2
  <1>4. \/ calls' = (calls \ {c}) \cup {d}
        \/ c.answer = "none" /\ calls' = (calls \ {c}) \cup {d, e}
    BY <1>1 DEF Lost!Lose, Lost!Fail, Told
  <1>5. /\ c \notin calls' /\ d \in calls' /\ calls \ {c} \subseteq calls'
        /\ \A f \in calls' \ calls : f = d \/ (f.to = "gone" /\ LostCallOK(f))
    BY <1>2, <1>3, <1>4
  <1>6. faults' \in 0 .. MaxFaults /\ changes' \in 0 .. 3
    BY <1>2, BrowserAssumption DEF Lost!Lose, Lost!Fail, LostOK, Lost!TypeOK
  <1>7. /\ behind \subseteq behind' /\ behind' \subseteq Ids
        /\ c.op = "found" /\ c.answer = "ok" => c.id \in behind'
    BY <1>2 DEF Lost!Lose, LostOK, Lost!TypeOK, LostCallOK
  <1> QED
    BY <1>2, <1>3, <1>5, <1>6, <1>7, LostCallMoves

LEMMA LostLoadArrivesKeeps ==
  ASSUME LostOK, NEW c \in calls, c.answer # "none", Lost!LoadArrives(c), Lost!Heard(c),
         Lost!OnPage
  PROVE  LostOK'
  <1>0. /\ LostCallOK(c) /\ c.to = "page" /\ c.op \in {"list", "stats"}
        /\ UNCHANGED <<table, behind, again, faults, changes>> /\ calls' = calls \ {c}
    BY DEF LostOK, LostCallOK, Lost!LoadArrives, Lost!Heard, Lost!OnPage
  <1>1. page.open /\ (c.op = "list" => page.books = None) /\ (c.op = "stats" => page.count = None)
    BY <1>0 DEF LostOK, LostPageOK, LostHeard
  <1>2. ~Lost!Loaded /\ page.confirmation = None
    BY <1>0, <1>1 DEF Lost!Loaded, LostOK, LostPageOK
  <1>3. \A e \in calls' : e.to = "page" => e.op # c.op /\ e.op # "found"
    BY <1>0, <1>2, LostLoading DEF LostOK, LostPageOK
  <1>4. PICK p : p = page'
    OBVIOUS
  <1>5. /\ p \in Lost!Page /\ p.open /\ p.confirmation = None
        /\ p.books = IF c.op = "list" /\ c.answer = "ok" THEN c.data ELSE page.books
        /\ p.count = IF c.op = "stats" /\ c.answer = "ok" THEN c.data ELSE page.count
    <2>0. page \in Lost!Page /\ c.answer \in {"ok", "refused", "failed"}
      BY <1>0 DEF LostOK, Lost!TypeOK, LostCallOK
    <2>1. CASE c.answer # "ok"
      <3>1. p = page
        BY <1>4, <2>0, <2>1 DEF Lost!LoadArrives, Lost!Refused
      <3> QED
        BY <1>1, <1>2, <2>0, <2>1, <3>1
    <2>2. CASE c.answer = "ok" /\ c.op = "list"
      <3>1. p = [page EXCEPT !.books = c.data] /\ c.data \in (SUBSET Ids) \cup {None}
        BY <1>0, <1>4, <2>2 DEF Lost!LoadArrives, Lost!Refused, LostCallOK, BookLists
      <3> QED
        BY <1>1, <1>2, <2>0, <2>2, <3>1 DEF Lost!Page
    <2>3. CASE c.answer = "ok" /\ c.op = "stats"
      <3>1. p = [page EXCEPT !.count = c.data] /\ c.data \in Nat \cup {None}
        BY <1>0, <1>4, <2>3 DEF Lost!LoadArrives, Lost!Refused, LostCallOK
      <3> QED
        BY <1>1, <1>2, <2>0, <2>3, <3>1 DEF Lost!Page
    <2> QED
      BY <1>0, <2>1, <2>2, <2>3
  <1>6. Lost!TypeOK' /\ (\A e \in calls : LostCallOK(e))'
    BY <1>0, <1>4, <1>5 DEF LostOK, Lost!TypeOK, LostCallOK
  <1>7. LostPageOK'
    BY <1>0, <1>3, <1>4, <1>5 DEF LostOK, LostPageOK, LostHeard
  <1>8. \A b \in Ids : ~FoundTold(b) /\ ~FoundTold(b)'
    BY <1>0, <1>2, LostLoading DEF FoundTold
  <1>9. p.books # None => \A b \in Ids \ behind : b \in table <=> b \in p.books
    BY <1>0, <1>5, <1>8 DEF LostOK, LostRowsOK
  <1>10. LostRowsOK'
    BY <1>0, <1>3, <1>4, <1>8, <1>9 DEF LostOK, LostRowsOK
  <1>11. LostCountOK'
    <2>1. SUFFICES ASSUME behind = {}
                   PROVE  LostCountOK'
      BY <1>0 DEF LostCountOK
    <2>2. p.count # None => p.count = Cardinality(table)
      BY <1>0, <1>2, <1>5, <2>1 DEF LostOK, LostCountOK, Lost!Loaded
    <2>3. p.books # None => p.books = table
      <3>1. p.books # None => p.books \subseteq Ids
        BY <1>5 DEF Lost!Page
      <3> QED
        BY <1>9, <2>1, <3>1 DEF LostOK, Lost!TypeOK
    <2> QED
      BY <1>0, <1>3, <1>4, <2>1, <2>2, <2>3 DEF LostOK, LostCountOK, Lost!Loaded
  <1> QED
    BY <1>6, <1>7, <1>10, <1>11 DEF LostOK

\* The row that was answered for is taken off and counted.
LEMMA LostFoundArrivesKeeps ==
  ASSUME LostOK, NEW c \in calls, c.answer # "none", Lost!FoundArrives(c), Lost!Heard(c),
         Lost!OnPage
  PROVE  LostOK'
  <1>0. /\ LostCallOK(c) /\ c.to = "page" /\ c.op = "found" /\ c.id \in Ids
        /\ UNCHANGED <<table, behind, again, faults, changes>> /\ calls' = calls \ {c}
        /\ c.answer \in {"ok", "refused", "failed"}
    BY DEF LostOK, LostCallOK, Lost!FoundArrives, Lost!Heard, Lost!OnPage
  <1>1. page.open /\ Lost!Loaded /\ page \in Lost!Page
    BY <1>0 DEF LostOK, LostPageOK, LostHeard, Lost!TypeOK
  <1>2. \A e \in calls : e.to = "page" => e.op = "found"
    BY <1>1 DEF LostOK, LostPageOK, LostHeard, LostCallOK, Lost!Loaded
  <1>3. page.books \subseteq Ids /\ page.count \in Nat
    BY <1>1 DEF Lost!Page, Lost!Loaded
  <1>4. PICK p, books, count :
          /\ p = page' /\ books = page.books \ {c.id}
          /\ count = IF page.count = 0 THEN 0 ELSE page.count - 1
    OBVIOUS
  <1>5. books \subseteq Ids /\ books # None /\ count \in Nat /\ count # None
    BY <1>3, <1>4, TeacherPagesAssumption
  <1>6. /\ p \in Lost!Page /\ p.open /\ p.books # None /\ p.count # None
        /\ IF c.answer = "ok" THEN p.books = books /\ p.count = count
           ELSE p.books = page.books /\ p.count = page.count
    <2>1. CASE c.answer = "ok"
      <3>1. p = [page EXCEPT !.books = books, !.count = count, !.confirmation = None, !.busy = None]
        BY <1>4, <2>1 DEF Lost!FoundArrives, Lost!Refused
      <3> QED
        BY <1>1, <1>5, <2>1, <3>1 DEF Lost!Page
    <2>2. CASE c.answer # "ok"
      <3>1. p = [page EXCEPT !.busy = None]
        BY <1>0, <1>4, <2>2 DEF Lost!FoundArrives, Lost!Refused
      <3> QED
        BY <1>1, <2>2, <3>1 DEF Lost!Page, Lost!Loaded
    <2> QED
      BY <2>1, <2>2
  <1>7. Lost!TypeOK' /\ (\A e \in calls : LostCallOK(e))'
    BY <1>0, <1>4, <1>6 DEF LostOK, Lost!TypeOK, LostCallOK
  <1>8. LostPageOK'
    BY <1>0, <1>2, <1>4, <1>6 DEF LostPageOK, LostHeard, Lost!Loaded
  <1>9. \A b : /\ FoundTold(b)' => FoundTold(b)
               /\ FoundTold(b) => FoundTold(b)' \/ (b = c.id /\ c.answer = "ok")
    BY <1>0 DEF FoundTold
  <1>10. c.answer = "ok" => FoundTold(c.id)
    BY <1>0 DEF FoundTold
  <1>11. LostRowsOK'
    <2>1. \A b \in Ids \ behind : b \in table <=> b \in p.books /\ ~FoundTold(b)'
      BY <1>0, <1>1, <1>4, <1>6, <1>9, <1>10 DEF LostOK, LostRowsOK, Lost!Loaded
    <2> QED
      BY <1>0, <1>2, <1>4, <1>9, <2>1 DEF LostOK, LostRowsOK
  <1>12. LostCountOK'
    <2>1. SUFFICES ASSUME behind = {}, ~again
                   PROVE  /\ p.count = Cardinality(p.books)
                          /\ \A e \in calls' : e.to = "page" => e.id \in p.books
      BY <1>0, <1>1, <1>2, <1>4, <1>6 DEF LostOK, LostCountOK, Lost!Loaded
    <2>2. page.count = Cardinality(page.books) /\ c.id \in page.books
      BY <1>0, <1>1, <2>1 DEF LostOK, LostCountOK
    <2>3. \A e \in calls' : e.to = "page" => e.id \in page.books /\ e.id # c.id
      BY <1>0, <1>1, <1>2, <2>1 DEF LostOK, LostCountOK
    <2>4. /\ IsFiniteSet(page.books) /\ Cardinality(page.books) \in Nat
          /\ Cardinality(books) = Cardinality(page.books) - 1 /\ Cardinality(page.books) # 0
      BY <1>3, <1>4, <2>2, TeacherPagesAssumption, FS_Subset, FS_CardinalityType, FS_RemoveElement,
         FS_EmptySet
    <2> QED
      BY <1>4, <1>6, <2>2, <2>3, <2>4
  <1> QED
    BY <1>7, <1>8, <1>11, <1>12 DEF LostOK

LEMMA LostStart == Lost!Init => LostOK
  <1>1. SUFFICES ASSUME Lost!Init
                 PROVE  LostOK
    OBVIOUS
  <1>2. Lost!NoPage \in Lost!Page
    BY DEF Lost!NoPage, Lost!Page
  <1>3. /\ table \subseteq Ids /\ page = Lost!NoPage /\ behind = {} /\ again = FALSE
        /\ calls = {} /\ faults = 0 /\ changes = 0
    BY <1>1 DEF Lost!Init
  <1>4. Lost!TypeOK
    <2>1. 0 \in 0 .. MaxFaults /\ 0 \in 0 .. 3
      BY BrowserAssumption
    <2>2. page \in Lost!Page
      BY <1>2, <1>3
    <2> QED
      BY <1>3, <2>1, <2>2 DEF Lost!TypeOK
  <1> QED
    BY <1>3, <1>4
       DEF LostOK, LostPageOK, LostRowsOK, LostCountOK, FoundTold, Lost!NoPage, Lost!Loaded

LEMMA LostStep == LostOK /\ [Lost!Next]_lostVars => LostOK'
  <1>1. SUFFICES ASSUME LostOK, [Lost!Next]_lostVars
                 PROVE  LostOK'
    OBVIOUS
  <1>2. ASSUME NEW b \in Ids, Lost!Confirm(b)
        PROVE  LostOK'
    BY <1>1, <1>2, LostTurnKeeps
       DEF Lost!Confirm, Lost!Turn, Lost!OnPage, Lost!Loaded, LostOK, LostPageOK, Lost!NoPage
  <1>3. CASE Lost!CancelConfirmation
    BY <1>1, <1>3, LostTurnKeeps
       DEF Lost!CancelConfirmation, Lost!Turn, Lost!OnPage, LostOK, LostPageOK, Lost!NoPage
  <1>4. ASSUME NEW c \in calls, Lost!Arrive(c)
        PROVE  LostOK'
    BY <1>1, <1>4, LostLoadArrivesKeeps, LostFoundArrivesKeeps DEF Lost!Arrive
  <1>5. CASE Lost!Next
    <2>1. \/ Lost!OpenPage \/ Lost!Leave \/ Lost!CancelConfirmation \/ Lost!Found
          \/ \E b \in Ids : Lost!Confirm(b) \/ Lost!MarkLost(b)
          \/ \E c \in calls : Lost!Serve(c) \/ Lost!Arrive(c) \/ Lost!Lose(c)
      BY <1>5 DEF Lost!Next
    <2> QED
      BY <1>1, <1>2, <1>3, <1>4, <2>1, LostOpenPageKeeps, LostLeaveKeeps, LostFoundKeeps,
         LostMarkLostKeeps, LostServeKeeps, LostLoseKeeps
  <1>6. CASE UNCHANGED lostVars
    BY <1>1, <1>6 DEF lostVars, LostOK, Lost!TypeOK, LostCallOK, LostPageOK, LostHeard, LostRowsOK,
       LostCountOK, FoundTold, Lost!Loaded
  <1> QED
    BY <1>1, <1>5, <1>6

-----------------------------------------------------------------------------
(* The page of requests: a call carries the list that is shown, as long as *)
(* none is sent before the last one is answered.                           *)

requestsVars == <<table, page, behind, again, calls, faults, changes>>

RequestCallOK(c) ==
    /\ \/ c \in [op: {"list"}, id: {None}, arg: {None}, to: {"page", "gone"},
                 answer: {"none", "ok", "refused", "failed"}, data: Requests!Shown \cup {None}]
       \/ c \in [op: {"stats"}, id: {None}, arg: {None}, to: {"page", "gone"},
                 answer: {"none", "ok", "refused", "failed"}, data: Nat \cup {None}]
       \/ c \in [op: {"mark", "delete"}, id: Ids,
                 arg: [mark: Requests!Marks, seen: Requests!Shown], to: {"page", "gone"},
                 answer: {"none", "ok", "refused", "failed"}, data: {None}]
    /\ c.to = "gone" => c.answer = "none"
    /\ c.op = "delete" => c.arg.mark = None
    /\ c.op \in {"list", "stats"} /\ c.answer = "ok" => c.data # None

RequestHeard(c) ==
    /\ page.open
    /\ c.op = "list" => page.requests = None
    /\ c.op = "stats" => page.count = None
    /\ c.op \in {"mark", "delete"} => Requests!Loaded

RequestPageOK ==
    /\ ~page.open => page = Requests!NoPage
    /\ \A c \in calls : c.to = "page" => RequestHeard(c)
    /\ \A c, d \in calls :
         c.to = "page" /\ d.to = "page" /\ c.op = d.op /\ c.op \in {"list", "stats"} => c = d

\* The answer under way about request r, if one is.
Marked(r) ==
    \A c \in calls :
      c.to = "page" /\ c.answer = "ok" /\ c.id = r => table[r] = c.arg.mark

Unmarked(r) == \A c \in calls : ~(c.to = "page" /\ c.answer = "ok" /\ c.id = r)

RequestRowsOK ==
    /\ \A c \in calls :
         c.to = "page" /\ c.op = "list" /\ c.answer = "ok" =>
           \A r \in Ids \ behind : c.data[r] = table[r]
    /\ ~again =>
         /\ \A c, d \in calls :
              c.op \in {"mark", "delete"} /\ d.op \in {"mark", "delete"}
              /\ c.to = "page" /\ d.to = "page" => c = d
         /\ \A c \in calls :
              c.op \in {"mark", "delete"} /\ c.to = "page" => c.arg.seen = page.requests
         /\ page.requests # None =>
              \A r \in Ids \ behind :
                Marked(r) /\ (Unmarked(r) => page.requests[r] = table[r])

RequestCountOK ==
    behind = {} =>
      /\ \A c \in calls : c.to = "page" /\ c.op = "stats" /\ c.answer = "ok" =>
           c.data = Requests!CountOpen(table)
      /\ page.count # None /\ page.requests = None => page.count = Requests!CountOpen(table)
      /\ Requests!Loaded => page.count = Requests!CountOpen(page.requests)
      /\ page.requests # None /\ page.count = None => page.requests = table

RequestsOK ==
    /\ Requests!TypeOK
    /\ \A c \in calls : RequestCallOK(c)
    /\ RequestPageOK /\ RequestRowsOK /\ RequestCountOK

LEMMA RequestsLoading ==
  ASSUME RequestsOK, ~Requests!Loaded, NEW c \in calls, c.to = "page"
  PROVE  c.op \in {"list", "stats"} /\ c.id = None /\ \A r \in Ids : Unmarked(r)
  <1>1. \A d \in calls : d.to = "page" => d.op \in {"list", "stats"} /\ d.id = None
    BY DEF RequestsOK, RequestPageOK, RequestHeard, RequestCallOK
  <1> QED
    BY <1>1, TeacherPagesAssumption DEF Unmarked

LEMMA RequestsTurnKeeps ==
  ASSUME RequestsOK, NEW q \in Ids \cup {None}, page' = [page EXCEPT !.confirmation = q], page.open,
         UNCHANGED <<table, behind, again, calls, faults, changes>>
  PROVE  RequestsOK'
  <1>1. PICK p : p = [page EXCEPT !.confirmation = q]
    OBVIOUS
  <1>2. /\ p \in Requests!Page /\ p.open /\ p.requests = page.requests /\ p.count = page.count
        /\ page' = p
    BY <1>1 DEF RequestsOK, Requests!TypeOK, Requests!Page
  <1>3. Requests!TypeOK' /\ (\A c \in calls : RequestCallOK(c))'
    BY <1>2 DEF RequestsOK, Requests!TypeOK, RequestCallOK
  <1>4. RequestPageOK'
    BY <1>2 DEF RequestsOK, RequestPageOK, RequestHeard, Requests!Loaded
  <1>5. RequestRowsOK' /\ RequestCountOK'
    BY <1>2 DEF RequestsOK, RequestRowsOK, RequestCountOK, Marked, Unmarked, Requests!Loaded
  <1> QED
    BY <1>3, <1>4, <1>5 DEF RequestsOK

LEMMA RequestsSendKeeps ==
  ASSUME RequestsOK, NEW op \in {"mark", "delete"}, NEW r \in Ids, NEW mark \in Requests!Marks,
         op = "delete" => mark = None, Requests!Listed(r), Requests!Mutate(op, r, mark)
  PROVE  RequestsOK'
  <1>1. PICK p, arg, c : /\ p = [page EXCEPT !.busy = r]
                         /\ arg = [mark |-> mark, seen |-> page.requests]
                         /\ c = Requests!Request(op, r, arg)
    OBVIOUS
  <1>2. /\ page.open /\ Requests!Loaded /\ page.requests \in Requests!Shown
        /\ p \in Requests!Page /\ p.open /\ p.requests = page.requests /\ p.count = page.count
    BY <1>1 DEF Requests!Listed, Requests!Loaded, RequestsOK, RequestPageOK, Requests!TypeOK,
       Requests!Page, Requests!NoPage
  <1>3. /\ page' = p /\ calls' = calls \cup {c} /\ UNCHANGED <<table, behind, faults, changes>>
        /\ again' \in BOOLEAN
        /\ ~again' => ~again /\ \A d \in calls : d.to = "page" => d.op \notin {"mark", "delete"}
    BY <1>1 DEF Requests!Mutate, Requests!Send, Requests!Waiting, RequestsOK, Requests!TypeOK
  <1>4. /\ c.op = op /\ c.id = r /\ c.to = "page" /\ c.answer = "none"
        /\ c.arg = arg /\ arg.seen = page.requests /\ RequestCallOK(c)
    <2>1. arg \in [mark: Requests!Marks, seen: Requests!Shown] /\ arg.seen = page.requests
          /\ arg.mark = mark
      BY <1>1, <1>2
    <2> QED
      BY <1>1, <2>1 DEF Requests!Request, RequestCallOK
  <1>5. Requests!TypeOK' /\ (\A d \in calls : RequestCallOK(d))'
    BY <1>2, <1>3, <1>4 DEF RequestsOK, Requests!TypeOK, RequestCallOK
  <1>6. RequestPageOK'
    BY <1>2, <1>3, <1>4 DEF RequestsOK, RequestPageOK, RequestHeard, Requests!Loaded
  <1>7. RequestRowsOK'
    <2>1. \A s : (Marked(s) => Marked(s)') /\ (Unmarked(s)' => Unmarked(s))
      BY <1>3, <1>4 DEF Marked, Unmarked
    <2>2. ~again' =>
            /\ \A d, e \in calls' :
                 d.op \in {"mark", "delete"} /\ e.op \in {"mark", "delete"}
                 /\ d.to = "page" /\ e.to = "page" => d = e
            /\ \A d \in calls' :
                 d.op \in {"mark", "delete"} /\ d.to = "page" => d.arg.seen = page.requests
      BY <1>3, <1>4
    <2>3. \A d \in calls' :
            d.to = "page" /\ d.op = "list" /\ d.answer = "ok" =>
              \A s \in Ids \ behind : d.data[s] = table[s]
      BY <1>3, <1>4 DEF RequestsOK, RequestRowsOK
    <2> QED
      BY <1>2, <1>3, <2>1, <2>2, <2>3 DEF RequestsOK, RequestRowsOK
  <1>8. RequestCountOK'
    BY <1>2, <1>3, <1>4 DEF RequestsOK, RequestCountOK, Requests!Loaded
  <1> QED
    BY <1>5, <1>6, <1>7, <1>8 DEF RequestsOK

LEMMA RequestsOpenPageKeeps ==
  ASSUME RequestsOK, Requests!OpenPage
  PROVE  RequestsOK'
  <1>1. PICK p, k, s : /\ p = [Requests!NoPage EXCEPT !.open = TRUE]
                       /\ k = Requests!Request("list", None, None)
                       /\ s = Requests!Request("stats", None, None)
    OBVIOUS
  <1>2. /\ p \in Requests!Page /\ p.open /\ p.requests = None /\ p.count = None
    BY <1>1 DEF Requests!NoPage, Requests!Page
  <1>3. /\ k.op = "list" /\ k.answer = "none" /\ RequestCallOK(k)
    BY <1>1 DEF Requests!Request, RequestCallOK
  <1>4. /\ s.op = "stats" /\ s.answer = "none" /\ RequestCallOK(s)
    BY <1>1 DEF Requests!Request, RequestCallOK
  <1>5. /\ page' = p /\ calls' = calls \cup {k, s} /\ behind' = {} /\ again' = FALSE
        /\ UNCHANGED <<table, faults, changes>>
    BY <1>1 DEF Requests!OpenPage
  <1>6. \A c \in calls' : c.to = "page" => c \in {k, s}
    BY <1>5 DEF RequestsOK, RequestPageOK, RequestHeard, Requests!OpenPage
  <1>7. Requests!TypeOK' /\ (\A c \in calls : RequestCallOK(c))'
    BY <1>2, <1>3, <1>4, <1>5 DEF RequestsOK, Requests!TypeOK, RequestCallOK
  <1>8. RequestPageOK'
    BY <1>2, <1>3, <1>4, <1>5, <1>6 DEF RequestPageOK, RequestHeard
  <1>9. RequestRowsOK' /\ RequestCountOK'
    BY <1>2, <1>3, <1>4, <1>5, <1>6 DEF RequestRowsOK, RequestCountOK, Requests!Loaded
  <1> QED
    BY <1>7, <1>8, <1>9 DEF RequestsOK

LEMMA RequestsLeaveKeeps ==
  ASSUME RequestsOK, Requests!Leave
  PROVE  RequestsOK'
  <1>1. page' = Requests!NoPage /\ UNCHANGED <<table, behind, again, faults, changes>>
    BY DEF Requests!Leave, Requests!OnPage
  <1>2. \A c \in calls' : \E d \in calls : d.answer = "none" /\ c = [d EXCEPT !.to = "gone"]
    BY DEF Requests!Leave, Requests!Abandoned
  <1>3. \A c \in calls' : c.to = "gone" /\ RequestCallOK(c)
    <2>1. SUFFICES ASSUME NEW c \in calls', NEW d \in calls, d.answer = "none",
                          c = [d EXCEPT !.to = "gone"]
                   PROVE  c.to = "gone" /\ RequestCallOK(c)
      BY <1>2
    <2>2. RequestCallOK(d)
      BY DEF RequestsOK
    <2> QED
      BY <2>1, <2>2 DEF RequestCallOK
  <1>4. Requests!NoPage \in Requests!Page
    BY DEF Requests!NoPage, Requests!Page
  <1>5. Requests!TypeOK' /\ (\A c \in calls : RequestCallOK(c))'
    BY <1>1, <1>3, <1>4 DEF RequestsOK, Requests!TypeOK, RequestCallOK
  <1>6. RequestPageOK' /\ RequestRowsOK' /\ RequestCountOK'
    BY <1>1, <1>3 DEF RequestsOK, RequestPageOK, RequestRowsOK, RequestCountOK, Requests!NoPage,
       Requests!Loaded
  <1> QED
    BY <1>5, <1>6 DEF RequestsOK

\* A call moves on, or nobody hears of it any more, and the table is as it was.
LEMMA RequestsCallMoves ==
  ASSUME RequestsOK, NEW c \in calls, NEW d, d.op = c.op, d.id = c.id, d.arg = c.arg,
         RequestCallOK(d),
         c.to = "page" => d.to = "page" /\ d \in calls', calls \ {c} \subseteq calls',
         c.to = "page" => c \notin calls',
         \A e \in calls' \ calls : e = d \/ (e.to = "gone" /\ RequestCallOK(e)),
         c.to = "gone" => d.to = "gone",
         UNCHANGED <<table, page, again>>, behind \subseteq behind', behind' \subseteq Ids,
         faults' \in 0 .. MaxFaults, changes' \in 0 .. MaxChanges,
         c.op \in {"mark", "delete"} =>
           d.answer # "ok" /\ (c.to = "page" /\ c.answer = "ok" => c.id \in behind'),
         d.to = "page" /\ d.op = "list" /\ d.answer = "ok" => d.data = table,
         d.to = "page" /\ d.op = "stats" /\ d.answer = "ok" => d.data = Requests!CountOpen(table)
  PROVE  RequestsOK'
  <1>1. Requests!TypeOK' /\ (\A e \in calls : RequestCallOK(e))'
    BY DEF RequestsOK, Requests!TypeOK, RequestCallOK
  <1>2. \A e \in calls' : e.to = "page" => e = d \/ (e \in calls /\ e # c)
    BY DEF RequestsOK, RequestCallOK
  <1>3. (d.to = "page" => c.to = "page") /\ RequestCallOK(c)
    BY DEF RequestsOK, RequestCallOK
  <1>4. RequestPageOK'
    <2>1. \A e \in calls' : e.to = "page" => RequestHeard(e)'
      BY <1>2, <1>3 DEF RequestsOK, RequestPageOK, RequestHeard, Requests!Loaded
    <2>2. \A e, f \in calls' :
            e.to = "page" /\ f.to = "page" /\ e.op = f.op /\ e.op \in {"list", "stats"} => e = f
      BY <1>2, <1>3 DEF RequestsOK, RequestPageOK
    <2> QED
      BY <2>1, <2>2 DEF RequestsOK, RequestPageOK
  <1>5. RequestRowsOK'
    <2>1. \A r \in Ids \ behind' : (Marked(r) => Marked(r)') /\ (Unmarked(r)' => Unmarked(r))
      <3>1. SUFFICES ASSUME NEW r \in Ids \ behind'
                     PROVE  (Marked(r) => Marked(r)') /\ (Unmarked(r)' => Unmarked(r))
        OBVIOUS
      <3>2. c.op \notin {"mark", "delete"} => c.id # r
        BY <1>3, TeacherPagesAssumption DEF RequestCallOK
      <3> QED
        BY <1>2, <1>3, <3>2 DEF Marked, Unmarked
    <2>2. ~again =>
            /\ \A e, f \in calls' :
                 e.op \in {"mark", "delete"} /\ f.op \in {"mark", "delete"}
                 /\ e.to = "page" /\ f.to = "page" => e = f
            /\ \A e \in calls' :
                 e.op \in {"mark", "delete"} /\ e.to = "page" => e.arg.seen = page.requests
      BY <1>2, <1>3 DEF RequestsOK, RequestRowsOK
    <2>3. \A e \in calls' :
            e.to = "page" /\ e.op = "list" /\ e.answer = "ok" =>
              \A r \in Ids \ behind' : e.data[r] = table[r]
      BY <1>2, <1>3 DEF RequestsOK, RequestRowsOK
    <2> QED
      BY <2>1, <2>2, <2>3 DEF RequestsOK, RequestRowsOK
  <1>6. RequestCountOK'
    BY <1>2, <1>3 DEF RequestsOK, RequestCountOK, Requests!Loaded
  <1> QED
    BY <1>1, <1>4, <1>5, <1>6 DEF RequestsOK

LEMMA RequestsAnswer ==
  ASSUME NEW c, RequestCallOK(c), c.to = "page",
         NEW answer \in {"ok", "refused", "failed"}, NEW data,
         data \in IF answer # "ok" \/ c.op \in {"mark", "delete"} THEN {None}
                 ELSE IF c.op = "list" THEN Requests!Shown ELSE Nat,
         NEW d, d = Told(c, answer, data)
  PROVE  /\ d.op = c.op /\ d.id = c.id /\ d.arg = c.arg /\ d.to = "page" /\ d.answer = answer
         /\ d.data = data /\ RequestCallOK(d)
  <1>0. PICK Lists : Lists = Requests!Shown \cup {None}
    OBVIOUS
  <1>1. CASE c \in [op: {"list"}, id: {None}, arg: {None}, to: {"page", "gone"},
                   answer: {"none", "ok", "refused", "failed"}, data: Lists]
    <2>1. /\ d \in [op: {"list"}, id: {None}, arg: {None}, to: {"page", "gone"},
                   answer: {"none", "ok", "refused", "failed"}, data: Lists]
          /\ d.op = c.op /\ d.id = c.id /\ d.arg = c.arg /\ d.to = "page" /\ d.answer = answer
          /\ d.data = data
      <3>1. data \in Lists
        BY <1>0, <1>1
      <3> QED
        BY <1>1, <3>1 DEF Told
    <2> QED
      BY <1>0, <1>1, <2>1, TeacherPagesAssumption DEF RequestCallOK
  <1>2. CASE c \in [op: {"stats"}, id: {None}, arg: {None}, to: {"page", "gone"},
                   answer: {"none", "ok", "refused", "failed"}, data: Nat \cup {None}]
    <2>1. /\ d \in [op: {"stats"}, id: {None}, arg: {None}, to: {"page", "gone"},
                   answer: {"none", "ok", "refused", "failed"}, data: Nat \cup {None}]
          /\ d.op = c.op /\ d.id = c.id /\ d.arg = c.arg /\ d.to = "page" /\ d.answer = answer
          /\ d.data = data
      BY <1>2 DEF Told
    <2> QED
      BY <1>2, <2>1, TeacherPagesAssumption DEF RequestCallOK
  <1>3. CASE c \in [op: {"mark", "delete"}, id: Ids,
                   arg: [mark: Requests!Marks, seen: Requests!Shown], to: {"page", "gone"},
                   answer: {"none", "ok", "refused", "failed"}, data: {None}]
    <2>1. /\ d \in [op: {"mark", "delete"}, id: Ids,
                   arg: [mark: Requests!Marks, seen: Requests!Shown], to: {"page", "gone"},
                   answer: {"none", "ok", "refused", "failed"}, data: {None}]
          /\ d.op = c.op /\ d.id = c.id /\ d.arg = c.arg /\ d.to = "page" /\ d.answer = answer
          /\ d.data = data
      BY <1>3 DEF Told
    <2> QED
      BY <1>3, <2>1, TeacherPagesAssumption DEF RequestCallOK
  <1> QED
    BY <1>0, <1>1, <1>2, <1>3 DEF RequestCallOK

LEMMA RequestsChangeElsewhere ==
  ASSUME RequestsOK, NEW r \in Ids, NEW mark \in Requests!Marks,
         table' = [table EXCEPT ![r] = mark], behind' = behind \cup {r},
         calls' \subseteq calls, \A c \in calls : c.to = "page" => c \in calls',
         UNCHANGED <<page, again>>, faults' \in 0 .. MaxFaults, changes' \in 0 .. MaxChanges
  PROVE  RequestsOK'
  <1>1. table' \in Requests!Shown /\ \A s \in Ids : s # r => table'[s] = table[s]
    BY DEF RequestsOK, Requests!TypeOK, Requests!Shown
  <1>2. Requests!TypeOK' /\ (\A e \in calls : RequestCallOK(e))'
    BY <1>1 DEF RequestsOK, Requests!TypeOK, RequestCallOK
  <1>3. RequestPageOK'
    BY DEF RequestsOK, RequestPageOK, RequestHeard, Requests!Loaded
  <1>4. \A s \in Ids \ behind' : (Marked(s) => Marked(s)') /\ (Unmarked(s)' => Unmarked(s))
    BY <1>1 DEF Marked, Unmarked
  <1>5. RequestRowsOK'
    BY <1>1, <1>4 DEF RequestsOK, RequestRowsOK
  <1>6. RequestCountOK'
    BY DEF RequestCountOK
  <1> QED
    BY <1>2, <1>3, <1>5, <1>6 DEF RequestsOK

LEMMA CountOpenType ==
  ASSUME NEW list
  PROVE  Requests!CountOpen(list) \in Nat
  <1>1. PICK Opened : Opened = {r \in Ids : list[r] = "open"}
    OBVIOUS
  <1>2. \A S : Requests!Cardinality(S) = Cardinality(S)
    BY DEF Requests!Cardinality, Cardinality
  <1>3. Requests!CountOpen(list) = Cardinality(Opened)
    BY <1>1, <1>2 DEF Requests!CountOpen
  <1>4. IsFiniteSet(Opened)
    BY <1>1, TeacherPagesAssumption, FS_Subset
  <1> QED
    BY <1>3, <1>4, FS_CardinalityType

\* The server answers and leaves the table alone.
LEMMA RequestsReplyKeeps ==
  ASSUME RequestsOK, NEW c \in calls, c.answer = "none",
         NEW answer \in {"ok", "refused", "failed"}, NEW data, Requests!Reply(c, answer, data),
         UNCHANGED <<table, page, behind, again, faults, changes>>,
         answer # "ok" => data = None, c.op \in {"mark", "delete"} => answer # "ok",
         c.op = "list" /\ answer = "ok" => data = table,
         c.op = "stats" /\ answer = "ok" => data = Requests!CountOpen(table)
  PROVE  RequestsOK'
  <1>0. /\ RequestCallOK(c) /\ (c.to = "page" \/ c.to = "gone")
        /\ c.op \in {"list", "stats", "mark", "delete"}
    BY DEF RequestsOK, RequestCallOK
  <1>1. behind' \subseteq Ids /\ changes' \in 0 .. MaxChanges /\ faults' \in 0 .. MaxFaults
    BY DEF RequestsOK, Requests!TypeOK
  <1>2. CASE c.to = "gone"
    <2>1. calls' = calls \ {c}
      BY <1>2 DEF Requests!Reply
    <2> QED
      BY <1>0, <1>1, <1>2, <2>1, RequestsCallMoves
  <1>3. CASE c.to = "page"
    <2>1. PICK d : d = Told(c, answer, data)
      OBVIOUS
    <2>2. table \in Requests!Shown /\ Requests!CountOpen(table) \in Nat
      BY CountOpenType DEF RequestsOK, Requests!TypeOK
    <2>3. /\ d.op = c.op /\ d.id = c.id /\ d.arg = c.arg /\ d.to = "page" /\ d.answer = answer
          /\ d.data = data /\ RequestCallOK(d)
      <3>1. CASE answer # "ok"
        BY <1>0, <1>3, <2>1, <3>1, RequestsAnswer
      <3>2. CASE answer = "ok" /\ c.op = "list"
        BY <1>0, <1>3, <2>1, <2>2, <3>2, RequestsAnswer
      <3>3. CASE answer = "ok" /\ c.op = "stats"
        BY <1>0, <1>3, <2>1, <2>2, <3>3, RequestsAnswer
      <3> QED
        BY <1>0, <3>1, <3>2, <3>3
    <2>4. calls' = (calls \ {c}) \cup {d}
      BY <1>3, <2>1 DEF Requests!Reply, Told
    <2>5. d # c /\ c \notin calls' /\ d \in calls'
      BY <2>3, <2>4
    <2> QED
      BY <1>1, <1>3, <2>3, <2>4, <2>5, RequestsCallMoves
  <1> QED
    BY <1>0, <1>2, <1>3

\* The server changes a request, whether the page waits for it or not.
LEMMA RequestsUpdateKeeps ==
  ASSUME RequestsOK, NEW c \in calls, c.answer = "none", c.op \in {"mark", "delete"},
         NEW mark, mark = c.arg.mark, Requests!Change(c, None),
         table' = [table EXCEPT ![c.id] = mark],
         behind' = behind \cup (IF c.to = "gone" THEN {c.id} ELSE {}),
         UNCHANGED <<page, faults, again>>
  PROVE  RequestsOK'
  <1>0. /\ RequestCallOK(c) /\ c.id \in Ids /\ (c.to = "page" \/ c.to = "gone")
        /\ mark \in Requests!Marks
    BY DEF RequestsOK, RequestCallOK
  <1>1. /\ changes' \in 0 .. MaxChanges /\ faults' \in 0 .. MaxFaults
        /\ Requests!Reply(c, "ok", None)
    BY BrowserAssumption DEF Requests!Change, RequestsOK, Requests!TypeOK
  <1>2. CASE c.to = "gone"
    <2>1. /\ behind' = behind \cup {c.id} /\ calls' = calls \ {c}
      BY <1>1, <1>2 DEF Requests!Reply
    <2> QED
      BY <1>0, <1>1, <1>2, <2>1, RequestsChangeElsewhere
  <1>3. CASE c.to = "page"
    <2>1. PICK d : d = Told(c, "ok", None)
      OBVIOUS
    <2>2. /\ d.op = c.op /\ d.id = c.id /\ d.arg = c.arg /\ d.to = "page" /\ d.answer = "ok"
          /\ RequestCallOK(d)
      BY <1>0, <1>3, <2>1, RequestsAnswer
    <2>3. calls' = (calls \ {c}) \cup {d} /\ behind' = behind
      BY <1>1, <1>3, <2>1 DEF Requests!Reply, Told, RequestsOK, Requests!TypeOK
    <2>4. Requests!Loaded
      BY <1>0, <1>3 DEF RequestsOK, RequestPageOK, RequestHeard
    <2>5. \A e \in calls : e.to = "page" => e.op \in {"mark", "delete"}
      BY <2>4 DEF RequestsOK, RequestPageOK, RequestHeard, RequestCallOK, Requests!Loaded
    <2>6. /\ table' \in Requests!Shown /\ table'[c.id] = mark
          /\ \A s \in Ids : s # c.id => table'[s] = table[s]
      BY <1>0 DEF RequestsOK, Requests!TypeOK, Requests!Shown
    <2>7. Requests!TypeOK' /\ (\A e \in calls : RequestCallOK(e))'
      BY <1>1, <2>2, <2>3, <2>6 DEF RequestsOK, Requests!TypeOK, RequestCallOK
    <2>8. RequestPageOK'
      BY <1>3, <2>2, <2>3, <2>4, <2>5 DEF RequestsOK, RequestPageOK, RequestHeard, Requests!Loaded
    <2>9. RequestRowsOK'
      <3>1. \A e \in calls' : e.to = "page" => e.op \in {"mark", "delete"}
        BY <2>2, <2>3, <2>5
      <3>2. ASSUME ~again
            PROVE  /\ \A e, f \in calls' : e.to = "page" /\ f.to = "page" => e = f
                   /\ \A e \in calls' : e.to = "page" => e.arg.seen = page.requests
                   /\ \A r \in Ids \ behind :
                        Marked(r)' /\ (Unmarked(r)' => page.requests[r] = table'[r])
        <4>1. \A e \in calls' : e.to = "page" => e = d
          BY <1>3, <2>3, <2>5, <3>2 DEF RequestsOK, RequestRowsOK
        <4>2. d.arg.seen = page.requests
          BY <1>3, <2>2, <3>2 DEF RequestsOK, RequestRowsOK
        <4>3. ASSUME NEW r \in Ids \ behind
              PROVE  Marked(r)' /\ (Unmarked(r)' => page.requests[r] = table'[r])
          <5>1. CASE r = c.id
            BY <2>2, <2>3, <2>6, <4>1, <5>1 DEF Marked, Unmarked
          <5>2. CASE r # c.id
            <6>1. Marked(r)'
              BY <2>2, <4>1, <5>2 DEF Marked
            <6>2. Unmarked(r)
              BY <1>3, <2>2, <2>5, <3>2 DEF Unmarked, RequestsOK, RequestRowsOK
            <6>3. page.requests[r] = table[r]
              BY <2>4, <3>2, <6>2 DEF RequestsOK, RequestRowsOK, Requests!Loaded
            <6> QED
              BY <2>6, <5>2, <6>1, <6>3
          <5> QED
            BY <5>1, <5>2
        <4> QED
          BY <4>1, <4>2, <4>3
      <3> QED
        BY <2>3, <3>1, <3>2 DEF RequestRowsOK
    <2>10. RequestCountOK'
      BY <2>2, <2>3, <2>4, <2>5 DEF RequestsOK, RequestCountOK, Requests!Loaded
    <2> QED
      BY <2>7, <2>8, <2>9, <2>10 DEF RequestsOK
  <1> QED
    BY <1>0, <1>2, <1>3

LEMMA RequestsServeKeeps ==
  ASSUME RequestsOK, NEW c \in calls, Requests!Serve(c)
  PROVE  RequestsOK'
  <1>0. c.answer = "none" /\ UNCHANGED <<page, faults, again>> /\ RequestCallOK(c)
    BY DEF Requests!Serve, RequestsOK
  <1>1. CASE Requests!Load(c)
    BY <1>0, <1>1, RequestsReplyKeeps DEF Requests!Load, Requests!NoChange
  <1>2. ASSUME c.op \in {"mark", "delete"}, Requests!Update(c, c.arg.mark)
        PROVE  RequestsOK'
    <2>1. CASE table[c.id] = None
      BY <1>0, <1>2, <2>1, RequestsReplyKeeps DEF Requests!Update, Requests!NoChange
    <2>2. CASE table[c.id] # None
      BY <1>0, <1>2, <2>2, RequestsUpdateKeeps DEF Requests!Update
    <2> QED
      BY <2>1, <2>2
  <1>3. CASE Requests!SetPurchased(c)
    BY <1>2, <1>3 DEF Requests!SetPurchased
  <1>4. CASE Requests!DeleteRequest(c)
    <2>1. c.op = "delete" /\ c.arg.mark = None
      BY <1>0, <1>4 DEF Requests!DeleteRequest, RequestCallOK
    <2> QED
      BY <1>2, <1>4, <2>1 DEF Requests!DeleteRequest
  <1>5. CASE /\ c.op \in {"mark", "delete"}
             /\ Requests!Overloaded(c) /\ UNCHANGED <<table, behind>>
    BY <1>0, <1>5, RequestsReplyKeeps DEF Requests!Overloaded, Requests!NoChange
  <1> QED
    BY <1>1, <1>3, <1>4, <1>5 DEF Requests!Serve

LEMMA RequestsLoseKeeps ==
  ASSUME RequestsOK, NEW c \in calls, Requests!Lose(c)
  PROVE  RequestsOK'
  <1>1. PICK d, e : d = Told(c, "failed", None) /\ e = [c EXCEPT !.to = "gone"]
    OBVIOUS
  <1>2. /\ RequestCallOK(c) /\ c.to = "page" /\ c.answer # "failed"
        /\ UNCHANGED <<table, page, changes, again>>
    BY DEF RequestsOK, RequestCallOK, Requests!Lose, Requests!Fail
  <1>3. /\ d.op = c.op /\ d.id = c.id /\ d.arg = c.arg /\ d.to = "page" /\ d.answer = "failed"
        /\ RequestCallOK(d)
    BY <1>1, <1>2, RequestsAnswer
  <1>4. e.to = "gone" /\ (c.answer = "none" => RequestCallOK(e))
    BY <1>1, <1>2 DEF RequestCallOK
  <1>5. \/ calls' = (calls \ {c}) \cup {d}
        \/ c.answer = "none" /\ calls' = (calls \ {c}) \cup {d, e}
    BY <1>1 DEF Requests!Lose, Requests!Fail, Told
  <1>6. /\ c \notin calls' /\ d \in calls' /\ calls \ {c} \subseteq calls'
        /\ \A f \in calls' \ calls : f = d \/ (f.to = "gone" /\ RequestCallOK(f))
    BY <1>2, <1>3, <1>4, <1>5
  <1>7. faults' \in 0 .. MaxFaults /\ changes' \in 0 .. MaxChanges
    BY <1>2, BrowserAssumption DEF Requests!Lose, Requests!Fail, RequestsOK, Requests!TypeOK
  <1>8. /\ behind \subseteq behind' /\ behind' \subseteq Ids
        /\ c.op \in {"mark", "delete"} /\ c.answer = "ok" => c.id \in behind'
    BY <1>2 DEF Requests!Lose, RequestsOK, Requests!TypeOK, RequestCallOK
  <1> QED
    BY <1>2, <1>3, <1>6, <1>7, <1>8, RequestsCallMoves

LEMMA RequestsLoadArrivesKeeps ==
  ASSUME RequestsOK, NEW c \in calls, c.answer # "none", Requests!LoadArrives(c),
         Requests!Heard(c), Requests!OnPage
  PROVE  RequestsOK'
  <1>0. /\ RequestCallOK(c) /\ c.to = "page" /\ c.op \in {"list", "stats"}
        /\ UNCHANGED <<table, behind, again, faults, changes>> /\ calls' = calls \ {c}
    BY DEF RequestsOK, RequestCallOK, Requests!LoadArrives, Requests!Heard, Requests!OnPage
  <1>1. /\ page.open /\ (c.op = "list" => page.requests = None)
        /\ c.op = "stats" => page.count = None
    BY <1>0 DEF RequestsOK, RequestPageOK, RequestHeard
  <1>2. ~Requests!Loaded
    BY <1>0, <1>1 DEF Requests!Loaded
  <1>3. \A e \in calls' : e.to = "page" => e.op # c.op /\ e.op \in {"list", "stats"}
    BY <1>0, <1>2, RequestsLoading DEF RequestsOK, RequestPageOK
  <1>4. PICK p : p = page'
    OBVIOUS
  <1>5. /\ p \in Requests!Page /\ p.open
        /\ p.requests = IF c.op = "list" /\ c.answer = "ok" THEN c.data ELSE page.requests
        /\ p.count = IF c.op = "stats" /\ c.answer = "ok" THEN c.data ELSE page.count
    <2>0. page \in Requests!Page /\ c.answer \in {"ok", "refused", "failed"}
      BY <1>0 DEF RequestsOK, Requests!TypeOK, RequestCallOK
    <2>1. CASE c.answer # "ok"
      <3>1. p = page
        BY <1>4, <2>0, <2>1 DEF Requests!LoadArrives, Requests!Refused
      <3> QED
        BY <1>1, <2>0, <2>1, <3>1
    <2>2. CASE c.answer = "ok" /\ c.op = "list"
      <3>1. p = [page EXCEPT !.requests = c.data] /\ c.data \in Requests!Shown \cup {None}
        BY <1>0, <1>4, <2>2 DEF Requests!LoadArrives, Requests!Refused, RequestCallOK
      <3> QED
        BY <1>1, <2>0, <2>2, <3>1 DEF Requests!Page
    <2>3. CASE c.answer = "ok" /\ c.op = "stats"
      <3>1. p = [page EXCEPT !.count = c.data] /\ c.data \in Nat \cup {None}
        BY <1>0, <1>4, <2>3 DEF Requests!LoadArrives, Requests!Refused, RequestCallOK
      <3> QED
        BY <1>1, <2>0, <2>3, <3>1 DEF Requests!Page
    <2> QED
      BY <1>0, <2>1, <2>2, <2>3
  <1>6. Requests!TypeOK' /\ (\A e \in calls : RequestCallOK(e))'
    BY <1>0, <1>4, <1>5 DEF RequestsOK, Requests!TypeOK, RequestCallOK
  <1>7. RequestPageOK'
    BY <1>0, <1>3, <1>4, <1>5 DEF RequestsOK, RequestPageOK, RequestHeard
  <1>8. \A r \in Ids : Unmarked(r) /\ Unmarked(r)' /\ Marked(r)'
    BY <1>0, <1>2, RequestsLoading DEF Unmarked, Marked
  <1>9. p.requests # None /\ (~again \/ page.requests = None) =>
          \A r \in Ids \ behind : p.requests[r] = table[r]
    BY <1>0, <1>5, <1>8 DEF RequestsOK, RequestRowsOK
  <1>10. RequestRowsOK'
    BY <1>0, <1>3, <1>4, <1>8, <1>9 DEF RequestsOK, RequestRowsOK
  <1>11. RequestCountOK'
    <2>1. SUFFICES ASSUME behind = {}
                   PROVE  RequestCountOK'
      BY <1>0 DEF RequestCountOK
    <2>2. p.count # None => p.count = Requests!CountOpen(table)
      BY <1>0, <1>2, <1>5, <2>1 DEF RequestsOK, RequestCountOK, Requests!Loaded
    <2>3. p.requests # None => p.requests = table
      <3>1. CASE page.requests # None
        BY <1>0, <1>1, <1>2, <1>5, <2>1, <3>1 DEF RequestsOK, RequestCountOK, Requests!Loaded
      <3>2. CASE page.requests = None
        BY <1>5, <1>9, <2>1, <3>2
           DEF RequestsOK, Requests!TypeOK, Requests!Page, Requests!Shown
      <3> QED
        BY <3>1, <3>2
    <2> QED
      BY <1>0, <1>3, <1>4, <2>1, <2>2, <2>3 DEF RequestsOK, RequestCountOK, Requests!Loaded
  <1> QED
    BY <1>6, <1>7, <1>10, <1>11 DEF RequestsOK

\* The list that the call carried takes the place of the one shown.
LEMMA RequestsMutationArrivesKeeps ==
  ASSUME RequestsOK, NEW c \in calls, c.answer # "none", Requests!MutationArrives(c),
         Requests!Heard(c), Requests!OnPage
  PROVE  RequestsOK'
  <1>0. /\ RequestCallOK(c) /\ c.to = "page" /\ c.op \in {"mark", "delete"} /\ c.id \in Ids
        /\ c.arg.mark \in Requests!Marks /\ c.arg.seen \in Requests!Shown
        /\ UNCHANGED <<table, behind, again, faults, changes>> /\ calls' = calls \ {c}
        /\ c.answer \in {"ok", "refused", "failed"}
    BY DEF RequestsOK, RequestCallOK, Requests!MutationArrives, Requests!Heard, Requests!OnPage
  <1>1. page.open /\ Requests!Loaded /\ page \in Requests!Page
    BY <1>0 DEF RequestsOK, RequestPageOK, RequestHeard, Requests!TypeOK
  <1>2. \A e \in calls : e.to = "page" => e.op \in {"mark", "delete"}
    BY <1>1 DEF RequestsOK, RequestPageOK, RequestHeard, RequestCallOK, Requests!Loaded
  <1>3. PICK p, next, count :
          /\ p = page' /\ next = [c.arg.seen EXCEPT ![c.id] = c.arg.mark]
          /\ count = Requests!CountOpen(next)
    OBVIOUS
  <1>4. /\ next \in Requests!Shown /\ next # None /\ count \in Nat /\ count # None
        /\ next[c.id] = c.arg.mark /\ \A r \in Ids : r # c.id => next[r] = c.arg.seen[r]
    <2>1. /\ next \in Requests!Shown /\ next[c.id] = c.arg.mark
          /\ \A r \in Ids : r # c.id => next[r] = c.arg.seen[r]
      BY <1>0, <1>3 DEF Requests!Shown
    <2> QED
      BY <1>3, <2>1, CountOpenType, TeacherPagesAssumption
  <1>5. /\ p \in Requests!Page /\ p.open /\ p.requests # None /\ p.count # None
        /\ IF c.answer = "ok" THEN p.requests = next /\ p.count = count
           ELSE p.requests = page.requests /\ p.count = page.count
    <2>1. CASE c.answer = "ok"
      <3>1. PICK u : u = [page EXCEPT !.requests = next, !.count = count]
        OBVIOUS
      <3>2. /\ u \in Requests!Page /\ u.open /\ u.requests = next /\ u.count = count
            /\ u = Requests!Updated(c)
        BY <1>1, <1>3, <1>4, <3>1 DEF Requests!Page, Requests!Updated
      <3>3. p = [u EXCEPT !.confirmation = IF c.op = "delete" THEN None ELSE u.confirmation,
                          !.busy = None]
        BY <1>3, <2>1, <3>2 DEF Requests!MutationArrives, Requests!Refused
      <3> QED
        BY <1>4, <2>1, <3>2, <3>3 DEF Requests!Page
    <2>2. CASE c.answer # "ok"
      <3>1. p = [page EXCEPT !.busy = None]
        BY <1>0, <1>3, <2>2 DEF Requests!MutationArrives, Requests!Refused
      <3> QED
        BY <1>1, <2>2, <3>1 DEF Requests!Page, Requests!Loaded
    <2> QED
      BY <2>1, <2>2
  <1>6. Requests!TypeOK' /\ (\A e \in calls : RequestCallOK(e))'
    BY <1>0, <1>3, <1>5 DEF RequestsOK, Requests!TypeOK, RequestCallOK
  <1>7. RequestPageOK'
    BY <1>0, <1>2, <1>3, <1>5 DEF RequestPageOK, RequestHeard, Requests!Loaded
  <1>8. RequestRowsOK'
    <2>1. ASSUME ~again
          PROVE  /\ \A e \in calls' : e.to # "page"
                 /\ \A r \in Ids \ behind : p.requests[r] = table[r]
      <3>1. \A e \in calls : e.to = "page" => e = c
        BY <1>0, <1>2, <2>1 DEF RequestsOK, RequestRowsOK
      <3>2. c.arg.seen = page.requests
        BY <1>0, <2>1 DEF RequestsOK, RequestRowsOK
      <3>3. ASSUME NEW r \in Ids \ behind
            PROVE  p.requests[r] = table[r]
        <4>1. Marked(r) /\ (Unmarked(r) => page.requests[r] = table[r])
          BY <1>1, <2>1 DEF RequestsOK, RequestRowsOK, Requests!Loaded
        <4>2. CASE c.answer = "ok" /\ r = c.id
          BY <1>0, <1>4, <1>5, <4>1, <4>2 DEF Marked
        <4>3. CASE ~(c.answer = "ok" /\ r = c.id)
          <5>1. Unmarked(r)
            BY <3>1, <4>3 DEF Unmarked
          <5> QED
            BY <1>4, <1>5, <3>2, <4>1, <4>3, <5>1
        <4> QED
          BY <4>2, <4>3
      <3> QED
        BY <1>0, <3>1, <3>3
    <2> QED
      BY <1>0, <1>2, <1>3, <2>1 DEF RequestRowsOK, Marked, Unmarked
  <1>9. RequestCountOK'
    BY <1>0, <1>1, <1>2, <1>3, <1>4, <1>5 DEF RequestsOK, RequestCountOK, Requests!Loaded
  <1> QED
    BY <1>6, <1>7, <1>8, <1>9 DEF RequestsOK

LEMMA RequestsStart == Requests!Init => RequestsOK
  <1>1. SUFFICES ASSUME Requests!Init
                 PROVE  RequestsOK
    OBVIOUS
  <1>2. /\ table \in Requests!Shown /\ page = Requests!NoPage /\ behind = {} /\ again = FALSE
        /\ calls = {} /\ faults = 0 /\ changes = 0
    BY <1>1 DEF Requests!Init, Requests!Shown, Requests!Marks
  <1>3. Requests!NoPage \in Requests!Page
    BY DEF Requests!NoPage, Requests!Page
  <1>4. Requests!TypeOK
    <2>1. 0 \in 0 .. MaxFaults /\ 0 \in 0 .. MaxChanges
      BY BrowserAssumption
    <2>2. page \in Requests!Page
      BY <1>2, <1>3
    <2> QED
      BY <1>2, <2>1, <2>2 DEF Requests!TypeOK
  <1> QED
    BY <1>2, <1>4
       DEF RequestsOK, RequestPageOK, RequestRowsOK, RequestCountOK, Requests!NoPage,
           Requests!Loaded

LEMMA RequestsStep == RequestsOK /\ [Requests!Next]_requestsVars => RequestsOK'
  <1>1. SUFFICES ASSUME RequestsOK, [Requests!Next]_requestsVars
                 PROVE  RequestsOK'
    OBVIOUS
  <1>0. /\ page.confirmation \in Ids \cup {None}
        /\ ~page.open => page.requests = None /\ page.confirmation = None
    BY <1>1 DEF RequestsOK, RequestPageOK, Requests!TypeOK, Requests!Page, Requests!NoPage
  <1>2. ASSUME NEW r \in Ids, Requests!Confirm(r)
        PROVE  RequestsOK'
    BY <1>0, <1>1, <1>2, RequestsTurnKeeps
       DEF Requests!Confirm, Requests!OnPage, Requests!Listed, Requests!Loaded
  <1>3. CASE Requests!CancelConfirmation
    BY <1>0, <1>1, <1>3, RequestsTurnKeeps DEF Requests!CancelConfirmation, Requests!OnPage
  <1>4. ASSUME NEW r \in Ids, Requests!TogglePurchased(r)
        PROVE  RequestsOK'
    <2>1. PICK mark : mark = IF page.requests[r] = "open" THEN "purchased" ELSE "open"
      OBVIOUS
    <2>2. mark \in Requests!Marks /\ Requests!Listed(r) /\ Requests!Mutate("mark", r, mark)
      BY <1>4, <2>1 DEF Requests!TogglePurchased, Requests!Marks
    <2> QED
      BY <1>1, <2>2, RequestsSendKeeps
  <1>5. CASE Requests!RemoveRequest
    <2>1. /\ page.confirmation \in Ids /\ Requests!Listed(page.confirmation)
          /\ Requests!Mutate("delete", page.confirmation, None) /\ None \in Requests!Marks
      BY <1>0, <1>5 DEF Requests!RemoveRequest, Requests!Marks
    <2> QED
      BY <1>1, <2>1, RequestsSendKeeps
  <1>6. ASSUME NEW c \in calls, Requests!Arrive(c)
        PROVE  RequestsOK'
    BY <1>1, <1>6, RequestsLoadArrivesKeeps, RequestsMutationArrivesKeeps DEF Requests!Arrive
  <1>7. CASE Requests!Next
    <2>1. \/ Requests!OpenPage \/ Requests!Leave \/ Requests!CancelConfirmation
          \/ Requests!RemoveRequest
          \/ \E r \in Ids : Requests!TogglePurchased(r) \/ Requests!Confirm(r)
          \/ \E c \in calls : Requests!Serve(c) \/ Requests!Arrive(c) \/ Requests!Lose(c)
      BY <1>7 DEF Requests!Next
    <2> QED
      BY <1>1, <1>2, <1>3, <1>4, <1>5, <1>6, <2>1, RequestsOpenPageKeeps, RequestsLeaveKeeps,
         RequestsServeKeeps, RequestsLoseKeeps
  <1>8. CASE UNCHANGED requestsVars
    BY <1>1, <1>8 DEF requestsVars, RequestsOK, Requests!TypeOK, RequestCallOK, RequestPageOK,
       RequestHeard, RequestRowsOK, RequestCountOK, Marked, Unmarked, Requests!Loaded
  <1> QED
    BY <1>1, <1>7, <1>8

-----------------------------------------------------------------------------
(* The three pages as sections of the teacher's part.                      *)

ListsOK ==
    /\ section = "loans" => LoansOK
    /\ section = "lost" => LostOK
    /\ section = "requests" => RequestsOK

LEMMA ListsStart == Init => ListsOK
  BY LoansStart, LostStart, RequestsStart DEF Init, ListsOK

LEMMA ListsStep == ListsOK /\ [Next]_vars => ListsOK'
  <1>1. SUFFICES ASSUME ListsOK, [Next]_vars
                 PROVE  ListsOK'
    OBVIOUS
  <1>2. UNCHANGED section
    BY <1>1 DEF Next, vars
  <1>3. CASE section = "loans"
    <2>1. [Loans!Next]_loansVars
      BY <1>1, <1>3 DEF Next, vars, loansVars
    <2> QED
      BY <1>1, <1>2, <1>3, <2>1, LoansStep DEF ListsOK
  <1>4. CASE section = "lost"
    <2>1. [Lost!Next]_lostVars
      BY <1>1, <1>4 DEF Next, vars, lostVars
    <2> QED
      BY <1>1, <1>2, <1>4, <2>1, LostStep DEF ListsOK
  <1>5. CASE section = "requests"
    <2>1. [Requests!Next]_requestsVars
      BY <1>1, <1>5 DEF Next, vars, requestsVars
    <2> QED
      BY <1>1, <1>2, <1>5, <2>1, RequestsStep DEF ListsOK
  <1> QED
    BY <1>2, <1>3, <1>4, <1>5 DEF ListsOK

LEMMA ListsAlways == Spec => []ListsOK
  BY ListsStart, ListsStep, PTL DEF Spec

\* Nothing under way: no answer is.
LEMMA LoansQuiet ==
  ASSUME LoansOK
  PROVE  Loans!RowsTrue /\ Loans!CountersTrue /\ Loans!LocksHaveTheirCalls /\ Loans!OneCallPerLoan
  <1>1. ASSUME Loans!Loaded, calls = {}, NEW l \in Ids \ behind
        PROVE  Dated(page.list, l) /\ Queued(page.list, l)
    BY <1>1 DEF LoansOK, LoanRowsOK, Answered, Loans!Loaded
  <1>2. Loans!RowsTrue
    BY <1>1 DEF Loans!RowsTrue, Dated, Queued
  <1>3. Loans!CountersTrue
    <2>1. SUFFICES ASSUME Loans!Loaded, calls = {}, behind = {}
                   PROVE  /\ page.stats.open_loans = Loans!Cardinality({l \in Ids : Loans!Open(l)})
                          /\ page.stats.lost_books = Loans!Cardinality({l \in Ids : table[l].lost})
      BY DEF Loans!CountersTrue
    <2>2. \A S : Loans!Cardinality(S) = Cardinality(S)
      BY DEF Loans!Cardinality, Cardinality
    <2>3. /\ page.stats.open_loans = Cardinality(ShownLoans)
          /\ page.stats.lost_books = Cardinality(LostAway)
      BY <2>1 DEF LoansOK, LoanCountsOK
    <2>4. \A l \in Ids : Loans!Open(l) <=> page.list.open_loans[l] # None
      BY <1>1, <2>1, TeacherPagesAssumption DEF Dated, LoansOK, Loans!TypeOK, Loans!Loan
    <2>5. ShownLoans = OpenLoans
      BY <2>4 DEF ShownLoans, OpenLoans
    <2>6. \A l \in LostLoans : ~Loans!Open(l)
      BY DEF LostLoans, LoansOK, LoanCountsOK, Loans!Open
    <2>7. LostAway = LostLoans
      BY <2>5, <2>6 DEF LostAway, OpenLoans
    <2> QED
      BY <2>2, <2>3, <2>5, <2>7 DEF OpenLoans, LostLoans
  <1> QED
    BY <1>2, <1>3 DEF LoansOK, LoanPageOK

LEMMA LostQuiet ==
  ASSUME LostOK
  PROVE  Lost!RowsTrue /\ Lost!CounterTrue
  <1>1. ASSUME Lost!Loaded, calls = {}, NEW b \in Ids \ behind
        PROVE  b \in page.books <=> b \in table
    BY <1>1 DEF LostOK, LostRowsOK, FoundTold, Lost!Loaded
  <1>2. Lost!RowsTrue
    BY <1>1 DEF Lost!RowsTrue
  <1>3. Lost!CounterTrue
    <2>1. SUFFICES ASSUME Lost!Loaded, calls = {}, behind = {}, ~again
                   PROVE  page.count = Lost!Cardinality(table)
      BY DEF Lost!CounterTrue
    <2>2. page.books = table
      BY <1>1, <2>1 DEF LostOK, Lost!TypeOK, Lost!Page, Lost!Loaded
    <2>3. page.count = Cardinality(page.books)
      BY <2>1 DEF LostOK, LostCountOK
    <2>4. Lost!Cardinality(table) = Cardinality(table)
      BY DEF Lost!Cardinality, Cardinality
    <2> QED
      BY <2>2, <2>3, <2>4
  <1> QED
    BY <1>2, <1>3

LEMMA RequestsQuiet ==
  ASSUME RequestsOK
  PROVE  Requests!RowsTrue /\ Requests!CounterTrue
  <1>1. Requests!RowsTrue
    BY DEF Requests!RowsTrue, RequestsOK, RequestRowsOK, Unmarked, Requests!Loaded
  <1>2. Requests!CounterTrue
    BY DEF Requests!CounterTrue, RequestsOK, RequestCountOK
  <1> QED
    BY <1>1, <1>2

\* On the pages of loans, lost books and requests the counters, which are read
\* apart from the rows and counted by hand from then on, agree with the table,
\* whatever was sent together, refused, lost or answered too late (AdminLoans,
\* AdminLost, AdminBookRequests).
THEOREM CountersStayTrue == Spec => [](section # "books" => CountersTrue)
  <1>1. ListsOK => (section # "books" => CountersTrue)
    BY LoansQuiet, LostQuiet, RequestsQuiet DEF ListsOK, CountersTrue
  <1> QED
    BY <1>1, ListsAlways, PTL
=============================================================================
