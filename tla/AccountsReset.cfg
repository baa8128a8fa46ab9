\* The teacher resets a password while a device is signing in with it.
CONSTANTS
    Users = {u1}
    Codes = {c1}
    Passwords = {p1}
    TooShort = TooShort
    Providers = {}
    Subjects = {}
    Devices = {d1}
    Tokens = {t1, t2}
    States = {}
    Requests = {r1}
    FutureAdmins = {}
    MaxResets = 1
    None = None

SPECIFICATION Spec
SYMMETRY Symmetry
INVARIANTS
    ResetLocksOut
