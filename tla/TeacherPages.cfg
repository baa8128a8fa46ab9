\* Two of everything, one failing call, two changes of the table.
CONSTANTS
    Ids = {d1, d2}
    Others = {d3}
    Values = {v1, v2}
    Value = v3
    Blank = Blank
    Typed = Typed
    Chosen = Chosen
    None = None
    MaxCalls = 2
    MaxFaults = 1
    MaxChanges = 2
SPECIFICATION Spec
SYMMETRY Symmetry
INVARIANTS
    TypeOK
    RowsTrue
    FormTrue
    CountersTrue
    LocksHaveTheirCalls
