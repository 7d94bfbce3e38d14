SPECIFICATION Spec
CONSTANTS
    r1 = r1
    r2 = r2
    Nil = Nil
    Requests = {r1, r2}
    Classes <- MCClasses
    Staff <- MCStaff
    Rooms <- MCRooms
    Days <- MCDays
    Kinds <- MCKinds
    Absent = Nil
    CreatePayloads <- ManualPayloads
    Patches <- ManualPatches
    MaxHours <- TightHours
    Sessions <- GreedySessions
    SolverSessions <- SolverChoices
    MaxRequests = 4
SYMMETRY MCSymmetry
INVARIANTS
    TypeOK
    PlansClear
    PlansSpread
    ClassRowsAccounted
    ClashOnlyWhenUnseen
PROPERTIES
    ReplaceLeavesOnlyMissed
    HoursKept
