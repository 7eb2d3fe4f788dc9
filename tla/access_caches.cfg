SPECIFICATION Spec
CONSTANTS
    Landlord = landlord
    Resident = {r1}
    Client = {c1, c2}
    Admin = {a1, a2}
    None = None
    MaxRequests = 3
    MaxFaults = 1
CHECK_DEADLOCK FALSE
INVARIANTS
    TypeOK
    SessionHonest
    RfidHonest
    LoggedOutStaysOut
    RegistrationsOverlap
