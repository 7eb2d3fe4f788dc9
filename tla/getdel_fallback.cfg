SPECIFICATION Spec
CONSTANTS
    Token = {t1}
    Code = {c1, c2}
    Verifier = {p1, p2}
    Desk = {i1}
    Drainer = {d1}
    BatchSize = 2
    MaxFaults = 0
    MaxOutages = 1
    MaxChecks = 2
    MaxDeskOps = 1
    NoCode = NoCode
    NoToken = NoToken
SYMMETRY Symmetry
CHECK_DEADLOCK FALSE
INVARIANTS
    CacheAdmitsOnce
