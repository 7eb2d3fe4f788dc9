SPECIFICATION Spec
CONSTANTS
    starter = starter
    standard = standard
    Check = {c1, c2}
    Writer = {w1, w2}
    Maintainer = {m1}
    Tier = {starter, standard}
    RfidTier = {standard}
    Limit <- MCLimit
    Period = 2
    MonthStart = {3}
    FirstTier = standard
    FirstExpiry = 2
    FirstDay = 2
    OverrideDay = {0}
    None = None
    MaxDay = 3
    MaxRequests = 2
    MaxFaults = 1
INVARIANTS
    TypeOK
    CacheHonest
    ServedOnlyInTerm
PROPERTIES
    RetiredOnlyWhenOverdue
    OverdueIsRetired
    CounterReachesRow
