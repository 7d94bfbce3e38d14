SPECIFICATION FairSpec
CONSTANTS
    r1 = r1
    r2 = r2
    Nil = Nil
    Requests = {r1}
    Classes <- MCClasses
    Staff <- MCStaff
    Rooms <- MCRooms
    Days <- MCDays
    Kinds <- MCKinds
    Absent = Nil
    CreatePayloads <- ManualPayloads
    Patches <- TimePatches
    MaxHours <- TightHours
    Sessions <- GreedySessions
    SolverSessions <- NoChoices
    MaxRequests = 5
INVARIANTS
    NoDoubleBooking
PROPERTIES
    ImplementsConflictFreeTimetable
    EveryRequestAnswered
