\* x1 and x2 are the loans of case late and the students of case sign_ins, so that
\* one permutation serves both.
CONSTANTS
    Students = {s1}
    Loans = {x1, x2}
    Codes = {c1}
    Reasons = {finished, boring}
    Finished = finished
    Tokens = {t1}
    TabStudents = {x1, x2}
    TabLoans = {l1}
    TabTokens = {t1, t2}
    MaxCalls = 2
    MaxFaults = 1
    None = None

SPECIFICATION CasesSpec
SYMMETRY Symmetry
INVARIANTS
    SavedIsSaved
    ChoiceKept
CHECK_DEADLOCK FALSE
