SPECIFICATION Spec
CONSTANTS
    Token = {t1, t2, t3}
    Drainer = {d1}
    BatchSize = 2
    MaxFaults = 0
    MaxOutages = 0
CHECK_DEADLOCK FALSE
INVARIANTS
    QueueTypeOK
PROPERTIES
    RowsMirrorAnswers
    DepartureSettles
