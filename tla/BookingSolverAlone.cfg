SPECIFICATION Spec
CONSTANTS
    r1 = r1
    r2 = r2
    Nil = Nil
    Requests = {r1}
    Classes <- MCClasses
    Staff <- MCStaff
    Rooms <- MCRooms
    Days <- MCDays
    Kinds <- MCKinds
    Absent = Nil
    CreatePayloads <- ManualPayloads
    Patches <- NoPayloads
    MaxHours <- TightHours
    Sessions <- NoSessions
    SolverSessions <- SolverChoices
    MaxRequests = 3
INVARIANTS
    NoDoubleBooking
