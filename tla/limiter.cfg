SPECIFICATION Spec
CONSTANTS
    Request = {p1, p2}
    MaxFailures = 3
    MaxMade = 2
    Window = 2
    Block = 2
    MaxFaults = 2
INVARIANTS
    TypeOK
    AttemptsBounded
PROPERTIES
    LockoutEnds
    CountersEnd
