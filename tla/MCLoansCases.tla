---------------------------- MODULE MCLoansCases ----------------------------
(***************************************************************************)
(* Loans for TLC in three cases, each with its own part of the constants.  *)
(* The case is chosen at the start, with the ids it is confined to; what   *)
(* module Loans states is checked of all three.                            *)
(***************************************************************************)
EXTENDS MCLoans

VARIABLE case

caseVars == <<vars, case>>

\* Two students, two books: every race of borrows with each other, with
\* returns and with the teacher's work on the catalogue.
Borrow == INSTANCE Loans WITH
    Reasons <- {}, ShelfEvidence <- {"skipped"}, BookMethods <- {"skipped"},
    MaxExtensions <- 0

\* One loan from borrow to history: every kind of evidence, the ISBN edited
\* meanwhile, a stranger's requests, reasons, extensions, reviews and closes.
Close(b, l) == INSTANCE Loans WITH Books <- {b}, LoanIds <- {l}

\* One student's two loans, their reasons saved from two tabs at once.
Saved(u, b, i) == INSTANCE Loans WITH
    Students <- {u}, Books <- {b}, Isbns <- {i},
    ShelfEvidence <- {"skipped"}, BookMethods <- {"skipped"},
    MaxExtensions <- 0

Cases ==
    {[name |-> "borrow"]}
      \cup [name: {"close"}, book: Books, loan: LoanIds]
      \cup [name: {"reasons"}, user: Students, book: Books, isbn: Isbns]

CasesInit == Init /\ case \in Cases

CasesNext ==
    /\ \/ case.name = "borrow" /\ Borrow!Next
       \/ \E b \in Books, l \in LoanIds :
            /\ case = [name |-> "close", book |-> b, loan |-> l]
            /\ Close(b, l)!Next
       \/ \E u \in Students, b \in Books, i \in Isbns :
            /\ case = [name |-> "reasons", user |-> u, book |-> b, isbn |-> i]
            /\ Saved(u, b, i)!Next
    /\ UNCHANGED case

CasesSpec == CasesInit /\ [][CasesNext]_caseVars
=============================================================================
