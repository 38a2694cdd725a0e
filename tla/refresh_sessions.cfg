\* Rotations, logouts and password resets of one account, answers lost.
SPECIFICATION Spec
CONSTANTS
    Tokens = {t1, t2, t3}
    Links = {l1, l2}
    Devices = {d1, d2}
    Clients = {c1, c2, c3}
    None = None
    MaxRequests = 5
    Ops = {"login", "refresh", "logout", "logoutAll", "forgot", "reset", "expire", "lose", "fail"}
SYMMETRY Symmetry
INVARIANTS
    TypeOK
    HandedOn
    OnlyInFlightEscapes
    NoFalseAlarm
PROPERTIES
    ResetByFreshLink
CHECK_DEADLOCK FALSE
