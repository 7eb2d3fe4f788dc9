SPECIFICATION Spec
CONSTANTS
    Token = {t1, t2}
    Drainer = {d1, d2}
    BatchSize = 2
    MaxFaults = 0
    MaxOutages = 0
CHECK_DEADLOCK FALSE
PROPERTIES
    LastEventWins
