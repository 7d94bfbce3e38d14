SPECIFICATION Spec
CONSTANTS
    Requests = {r1, r2}
    Passwords = {"old", "new"}
    Actors = {"administrator", "super_admin"}
    Creations <- MCCreations
    MaxRequests = 4
CHECK_DEADLOCK FALSE
SYMMETRY Symmetry
INVARIANTS TypeOK ChangesLostOnlyToRacer
