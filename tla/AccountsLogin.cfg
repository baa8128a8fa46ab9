\* Two students and two codes that change hands, logins from two requests at
\* once with two passwords, and a reset in between.
CONSTANTS
    Users = {u1, u2}
    Codes = {c1, c2}
    Passwords = {p1, p2}
    TooShort = TooShort
    Providers = {}
    Subjects = {}
    Devices = {d1}
    Tokens = {t1, t2}
    States = {}
    Requests = {r1, r2}
    FutureAdmins = {}
    MaxResets = 1
    None = None

SPECIFICATION Spec
SYMMETRY Symmetry
INVARIANTS
    CodesNameOneStudent
    SessionsProvePassword
