\* Two requests whose marks are clicked one soon after the other.
CONSTANTS
    RequestIds = {r1, r2}
    None = None
    MaxCalls = 2
    MaxFaults = 0
    MaxChanges = 2

SPECIFICATION Spec
INVARIANTS
    RowsStayUntilNextVisit
