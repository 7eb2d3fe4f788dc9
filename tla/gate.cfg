SPECIFICATION Spec
CONSTANTS
    Token = {t1}
    Code = {c1, c2}
    Verifier = {p1, p2}
    Desk = {i1}
    Drainer = {d1}
    BatchSize = 2
    MaxFaults = 1
    MaxOutages = 1
    MaxChecks = 3
    MaxDeskOps = 3
    NoCode = NoCode
    NoToken = NoToken
CONSTRAINT Budget
SYMMETRY Symmetry
CHECK_DEADLOCK FALSE
INVARIANTS
    TypeOK
    EachPathAdmitsOnce
    NoReentryBeforeDrain
    DepartureJustified
    AdmissionReachesRow
