SPECIFICATION Spec
CONSTANTS
    Admins = {a1}
    NoRow = NoRow
    Omitted = Omitted
    Budgets <- MCBudgets
    MaxPuts = 0
    MaxBoots = 0
    Requests = {r1}
    None = None
    Schools <- MCSchools
    SolverFallback = "true"
    SolverTimeout = 35
    SolveTimes <- MCSolveTimes
    MaxGenerations = 2
CHECK_DEADLOCK FALSE
PROPERTIES StoredIsComplete
