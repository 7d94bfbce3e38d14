SPECIFICATION Spec
CONSTANTS
    r1 = r1
    r2 = r2
    Requests = {r1, r2}
    Populations <- MCPopulations
    Production = TRUE
    SuperAdminEnv = TRUE
    TokenTTL = 1
    MaxAccounts = 3
    MaxRequests = 3
SYMMETRY MCSymmetry
INVARIANTS TypeOK RoleHeldRecently
PROPERTIES SuperAdminsByPeers RacesOnlyRestore LastSuperAdmin
