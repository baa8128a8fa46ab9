-------------------------- MODULE MCReturnReasons --------------------------
(***************************************************************************)
(* What becomes of the reasons for a return, in three cases; the case is   *)
(* chosen at the start.                                                    *)
(***************************************************************************)
EXTENDS ReturnFlow, TLC

CONSTANTS TabStudents, TabLoans, TabTokens

VARIABLE case

\* One student's two loans, one after the other: answers about the first
\* arrive while the second is returned.
Late == INSTANCE ReturnFlow WITH MaxFaults <- 0

\* One loan, and a call of which the answer is lost.
Lost == INSTANCE ReturnFlow WITH Loans <- TabLoans

\* Two students on one tab, with sessions that expire in between.
SignIns == INSTANCE ReturnFlow WITH
    Students <- TabStudents, Loans <- TabLoans, Tokens <- TabTokens, MaxFaults <- 0

Symmetry ==
    Permutations(Loans) \cup Permutations(TabStudents) \cup Permutations(TabTokens)

CasesInit ==
    \/ case = "late" /\ Late!Init
    \/ case = "lost" /\ Lost!Init
    \/ case = "sign_ins" /\ SignIns!Init

CasesNext ==
    /\ \/ case = "late" /\ Late!Next
       \/ case = "lost" /\ Lost!Next
       \/ case = "sign_ins" /\ SignIns!Next
    /\ UNCHANGED case

CasesSpec == CasesInit /\ [][CasesNext]_<<vars, case>>
=============================================================================
