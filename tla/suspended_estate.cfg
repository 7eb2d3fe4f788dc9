SPECIFICATION Spec
CONSTANTS
    Landlord = landlord
    Resident = {r1}
    Client = {c1}
    Admin = {a1}
    None = None
    MaxRequests = 2
    MaxFaults = 0
CHECK_DEADLOCK FALSE
PROPERTIES
    SuspendedIsBlocked
