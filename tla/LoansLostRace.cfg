\* The book is reported lost or hidden between the check and the insert.
CONSTANTS
    Students = {s1}
    Books = {b1}
    Isbns = {i1}
    LoanIds = {l1, l2}
    Requests = {r1, r2}
    None = None
    Reasons = {}
    ShelfEvidence = {"skipped"}
    BookMethods = {"skipped"}
    MaxExtensions = 0

SPECIFICATION Spec
PROPERTY OnlyAvailableBooksAreLent
