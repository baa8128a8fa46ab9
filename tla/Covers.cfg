\* Two requests at once on two books, with two failures or restarts.
CONSTANTS
    Books = {b1, b2}
    Covers = {c1, c2, c3, c4}
    Requests = {r1, r2}
    MaxErrors = 2
    None = None

SPECIFICATION Spec
SYMMETRY Symmetry
INVARIANTS
    TypeOK
    NamedCoversStored
    LeftoversAreLostUpdates
CHECK_DEADLOCK FALSE
