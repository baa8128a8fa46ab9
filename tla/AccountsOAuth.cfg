\* Logins through both providers from two browsers, with the teacher's bans
\* and corrections in between.
CONSTANTS
    Users = {u1, u2}
    Codes = {}
    Passwords = {}
    TooShort = TooShort
    Providers = {yandex, vk}
    Subjects = {x1}
    Devices = {d1, d2}
    Tokens = {t1, t2}
    States = {s1, s2}
    Requests = {r1, r2}
    FutureAdmins = {}
    MaxResets = 0
    None = None

SPECIFICATION Spec
SYMMETRY Symmetry
INVARIANTS
    OneAccountPerIdentity
    CallbackTiedToBrowser
PROPERTIES
    NameBelongsToTeacher
