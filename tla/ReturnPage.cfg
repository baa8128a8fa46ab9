\* One loan from the shelf's code to the celebration, with one fault.
CONSTANTS
    Students = {s1}
    Loans = {l1}
    Codes = {c1, c2}
    Reasons = {finished}
    Finished = finished
    Tokens = {t1}
    MaxCalls = 2
    MaxFaults = 1
    None = None

SPECIFICATION Spec
INVARIANTS
    TypeOK
    ToldReturned
PROPERTIES
    BusyEnds
CHECK_DEADLOCK FALSE
