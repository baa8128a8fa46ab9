\* Two of everything, one failing call, two changes by others; three runs of the
\* camera, which may be used up.
CONSTANTS
    None = None
    Books = {b1, b2}
    MaxCalls = 2
    MaxFaults = 1
    MaxChanges = 2
    Codes = {c1, c2}
    MaxRuns = 3
    Students = {s1, s2}
    Root = root
    Paths = {root, profile}
    MaxSessions = 2
SPECIFICATION Spec
INVARIANTS
    TypeOK
    AnswersTrue
    LocksHaveTheirCalls
    CameraOff
    SignInTrue
PROPERTIES
    KeepsPromise
    WaitingEnds
CHECK_DEADLOCK FALSE
