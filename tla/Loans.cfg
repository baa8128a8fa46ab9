\* The constants of the three cases of MCLoansCases together.
CONSTANTS
    Students = {s1, s2}
    Books = {b1, b2}
    Isbns = {i1, i2}
    LoanIds = {l1, l2}
    Requests = {r1, r2}
    None = None
    Reasons = {"finished", "boring"}
    ShelfEvidence = {"scan", "wrong_code", "skipped"}
    BookMethods = {"scan", "manual", "skipped"}
    MaxExtensions = 1

SPECIFICATION CasesSpec
SYMMETRY Symmetry
INVARIANTS
    OneOpenLoan
    LoansKeepTheirBook
    BorrowAnswersTrue
    NoUnexpectedBranch
    RowChecks
    CloseAnswersTrue
    CelebrationCounts
    FirstBookOnce
PROPERTIES
    ImplementsLending
    HistoryIsKept
    ClosedByOwnerOrTeacher
