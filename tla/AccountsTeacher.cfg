\* One student by code or by provider, with every kind of request two at once,
\* whom the teacher renames, resets, bans and gives two codes, and whom the owner
\* may make an admin.
CONSTANTS
    Users = {u1}
    Codes = {c1, c2}
    Passwords = {p1}
    TooShort = TooShort
    Providers = {yandex}
    Subjects = {x1}
    Devices = {d1}
    Tokens = {t1, t2}
    States = {s1}
    Requests = {r1, r2}
    FutureAdmins = {u1}
    MaxResets = 1
    None = None

SPECIFICATION Spec
SYMMETRY Symmetry
INVARIANTS
    TypeOK
PROPERTIES
    BanHolds
    AdminsUntouched
