SPECIFICATION FairSpec
CONSTANTS
    Admins = {a1, a2}
    NoRow = NoRow
    Omitted = Omitted
    Budgets <- MCBudgets
    MaxPuts = 2
    MaxBoots = 1
    Requests = {r1}
    None = None
    Schools <- MCSchools
    SolverFallback = "true"
    SolverTimeout = 35
    SolveTimes <- MCSolveTimes
    MaxGenerations = 1
CHECK_DEADLOCK FALSE
INVARIANTS TypeOK LostOnlyToRacer FallbackOnlyWhenUnreachable
PROPERTIES ReplacedOnSuccessOnly ImplementsGenerationService EveryGenerationAnswered
