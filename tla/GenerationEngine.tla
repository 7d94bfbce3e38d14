-------------------------- MODULE GenerationEngine --------------------------
(***************************************************************************)
(* Which engine answers a request to generate (or preview) the timetable   *)
(* of a class, and what the class's timetable is afterwards: the dispatch  *)
(* of internal/services/timetable.go, the HTTP client of solverclient.go   *)
(* and the solver service behind it.  The settings row is read twice by a  *)
(* request that goes to the solver, and administrators change it meanwhile *)
(* (GenerationSettings).                                                   *)
(*                                                                         *)
(* A timetable is only a number of sessions here; where sessions can be    *)
(* placed is the subject of TimetableBooking.                              *)
(***************************************************************************)
EXTENDS GenerationSettings

CONSTANTS
    Requests,       \* the generations that can be in flight at the same time
    None,           \* no answer, no engine, no call yet
    Schools,        \* what the tables of modules, subjects, staff and rooms can hold
    SolverFallback, \* SOLVER_FALLBACK: "true", "false" or "unset"
    SolverTimeout,  \* SOLVER_TIMEOUT_SECONDS
    SolveTimes,     \* the seconds the solver takes to prove a timetable optimal
    MaxGenerations  \* bound: generations and previews

(* course, general and subjects are the sessions that the course's modules, *)
(* the general modules and the subjects table ask for; allocated and        *)
(* daysOff are the teachers with module links and with unavailable days.    *)
School == [course: Nat, general: Nat, subjects: Nat, rooms: Nat,
           staff: Nat, allocated: Nat, daysOff: Nat]

ASSUME EngineAssumption ==
    /\ Schools \subseteq School
    /\ \A s \in Schools : s.allocated <= s.staff /\ s.daysOff <= s.staff
    /\ None \notin School /\ None # "greedy"
    /\ None \notin [code: Nat, engine: {None, "solver", "greedy"}]
    /\ SolverFallback \in {"true", "false", "unset"}
    /\ SolverTimeout \in Nat /\ SolveTimes \subseteq Nat
    /\ MaxGenerations \in Nat

VARIABLES
    school,      \* the tables the engines read
    stored,      \* the sessions of the class in the table timetables
    gpc,         \* per request, what it does next
    persist,     \* per request, whether it is a generate and not a preview
    engine,      \* per request, the engine of the settings row
    hadSolver,   \* per request, whether the solver was enabled
    problem,     \* per request, the tables as its engine read them
    budget,      \* per request, the seconds the solver is given
    called,      \* per request, how the call of the solver ended
    answer,      \* per request, the status code and the engine of its answer
    generations  \* generations so far, for MaxGenerations

taskVars == <<persist, problem, budget>>
engineVars == <<school, stored, gpc, taskVars, engine, hadSolver, called, answer, generations>>
vars == <<settingsVars, engineVars>>

Calls == {None, "unreachable", "late", "rejected", "infeasible", "solved"}
Answers == [code: {200, 422, 500}, engine: {None, "solver", "greedy"}]

EngineTypeOK ==
    /\ school \in Schools
    /\ stored \in Nat
    /\ gpc \in [Requests -> {"idle", "dispatch", "build", "call", "greedy", "persist", "respond"}]
    /\ persist \in [Requests -> BOOLEAN]
    /\ engine \in [Requests -> Engines]
    /\ hadSolver \in [Requests -> BOOLEAN]
    /\ problem \in [Requests -> Schools \cup {None}]
    /\ budget \in [Requests -> Budgets \cup {30}]
    /\ \A r \in Requests : gpc[r] = "call" => problem[r] # None
    /\ called \in [Requests -> Calls]
    /\ answer \in [Requests -> Answers \cup {None}]
    /\ generations \in Nat

TypeOK == SettingsTypeOK /\ EngineTypeOK

-----------------------------------------------------------------------------
(* The sessions a class needs: subjects count only without general modules. *)
Sessions(s) == s.course + s.general + (IF s.general = 0 THEN s.subjects ELSE 0)

(* Some list of the request body is a nil slice and therefore null: there   *)
(* are no modules, subjects (they are not loaded beside general modules),   *)
(* rooms or teachers, or a teacher has no module or no unavailable day.     *)
NullList(s) ==
    \/ s.course + s.general = 0
    \/ s.general > 0 \/ s.subjects = 0
    \/ s.rooms = 0 \/ s.staff = 0
    \/ s.allocated < s.staff \/ s.daysOff < s.staff

(* SOLVER_FALLBACK is "false" by default when a solver is configured. *)
AllowFallback == SolverFallback = "true"

(* The seconds until the solver answers: it stops at its budget. *)
SolveTime(t, b) == IF t < b THEN t ELSE b

(* What the handler of r had read is not used again. *)
Forget(r) ==
    /\ persist' = [persist EXCEPT ![r] = FALSE]
    /\ problem' = [problem EXCEPT ![r] = None]
    /\ budget' = [budget EXCEPT ![r] = 30]

Respond(r, code, eng) ==
    /\ gpc' = [gpc EXCEPT ![r] = "idle"]
    /\ answer' = [answer EXCEPT ![r] = [code |-> code, engine |-> eng]]
    /\ Forget(r)

Reaches(r, next) ==
    /\ gpc' = [gpc EXCEPT ![r] = next]
    /\ UNCHANGED answer

GoTo(r, next) == Reaches(r, next) /\ UNCHANGED taskVars

(* POST /generate or /generate/preview for the class. *)
Generate(r) ==
    /\ gpc[r] = "idle"
    /\ generations < MaxGenerations
    /\ generations' = generations + 1
    /\ \E p \in BOOLEAN : persist' = [persist EXCEPT ![r] = p]
    /\ gpc' = [gpc EXCEPT ![r] = "dispatch"]
    /\ answer' = [answer EXCEPT ![r] = None]
    /\ called' = [called EXCEPT ![r] = None]
    /\ UNCHANGED <<settingsVars, school, stored, engine, hadSolver, problem, budget>>

(* generate: the engine of the settings row decides who plans. *)
Dispatch(r) ==
    /\ gpc[r] = "dispatch"
    /\ engine' = [engine EXCEPT ![r] = Current.engine]
    /\ hadSolver' = [hadSolver EXCEPT ![r] = solverURL]
    /\ \/ Current.engine # "greedy" /\ solverURL /\ GoTo(r, "build")
       \/ Current.engine = "solver" /\ ~solverURL /\ Respond(r, 500, None)
       \/ Current.engine = "auto" /\ ~solverURL /\ GoTo(r, "greedy")
       \/ Current.engine = "greedy" /\ GoTo(r, "greedy")
    /\ UNCHANGED <<settingsVars, school, stored, called, generations>>

BuildSolverRequest(r) ==
    /\ gpc[r] = "build"
    /\ problem' = [problem EXCEPT ![r] = school]
    /\ budget' = [budget EXCEPT ![r] = Current.budget]
    /\ Reaches(r, "call")
    /\ UNCHANGED <<settingsVars, school, stored, persist, engine, hadSolver, called, generations>>

(* Mutant of AfterUnreachable: a solver that cannot be reached is tried again. *)
AfterUnreachable_Retries(r) == GoTo(r, "build")

(* ErrSolverUnreachable: only the engine "auto" falls back. *)
AfterUnreachable(r) ==
    IF engine[r] = "auto" /\ AllowFallback THEN GoTo(r, "greedy") ELSE Respond(r, 500, None)

(* The call ends with outcome c. *)
Called(r, c) ==
    /\ called' = [called EXCEPT ![r] = c]
    /\ UNCHANGED <<settingsVars, school, stored, engine, hadSolver, generations>>

(* No connection, an answer cut short, 5xx, or a body that is not JSON. *)
SolverUnreachable(r) == gpc[r] = "call" /\ Called(r, "unreachable") /\ AfterUnreachable(r)

(* The service checks the body before it plans. *)
InTime(r) ==
    /\ gpc[r] = "call"
    /\ ~NullList(problem[r])
    /\ \E t \in SolveTimes : SolveTime(t, budget[r]) <= SolverTimeout

(* The client gives up on a solver that is still within its budget. *)
SolverLate(r) ==
    /\ gpc[r] = "call"
    /\ ~NullList(problem[r])
    /\ \E t \in SolveTimes : SolveTime(t, budget[r]) > SolverTimeout
    /\ Called(r, "late")
    /\ AfterUnreachable(r)

(* 422 with a JSON body: it decodes to a response without status and        *)
(* assignments, which generateWithSolver takes for a timetable.             *)
SolverRejects(r) ==
    /\ gpc[r] = "call"
    /\ NullList(problem[r])
    /\ Called(r, "rejected")
    /\ GoTo(r, "persist")

(* Mutant of SolverInfeasible: an infeasible class is left to the greedy engine. *)
SolverInfeasible_FallsBack(r) ==
    /\ InTime(r)
    /\ Called(r, "infeasible")
    /\ GoTo(r, "greedy")

SolverInfeasible(r) ==
    /\ InTime(r)
    /\ Called(r, "infeasible")
    /\ Respond(r, 422, "solver")

SolverSolves(r) ==
    /\ InTime(r)
    /\ Called(r, "solved")
    /\ GoTo(r, "persist")

(* generateGreedy cannot place some session: nothing is written. *)
GreedyInfeasible(r) ==
    /\ gpc[r] = "greedy"
    /\ Sessions(school) > 0
    /\ Respond(r, 422, "greedy")
    /\ UNCHANGED <<settingsVars, school, stored, engine, hadSolver, called, generations>>

(* generateGreedy has placed every session. *)
GreedyPlaces(r) ==
    /\ gpc[r] = "greedy"
    /\ Sessions(school) > 0 => school.rooms > 0 /\ school.staff > 0
    /\ problem' = [problem EXCEPT ![r] = school]
    /\ Reaches(r, "persist")
    /\ UNCHANGED <<settingsVars, school, stored, persist, engine, hadSolver, budget, called, generations>>

(* The engine that planned for r. *)
Planner(r) == IF called[r] \in {"solved", "rejected"} THEN "solver" ELSE "greedy"

Planned(r) == IF called[r] = "rejected" THEN 0 ELSE Sessions(problem[r])

(* Mutant of Finish: a preview is stored as well. *)
Finish_StoresPreviews(r) ==
    /\ gpc[r] = "persist"
    /\ stored' = Planned(r)
    /\ Reaches(r, "respond")
    /\ Forget(r)
    /\ UNCHANGED <<settingsVars, school, engine, hadSolver, called, generations>>

(* ReplaceClassTimetable commits; a preview has nothing to store. *)
Finish(r) ==
    /\ gpc[r] = "persist"
    /\ stored' = IF persist[r] THEN Planned(r) ELSE stored
    /\ Reaches(r, "respond")
    /\ Forget(r)
    /\ UNCHANGED <<settingsVars, school, engine, hadSolver, called, generations>>

(* The plan is answered with 200. *)
AnswerPlan(r) ==
    /\ gpc[r] = "respond"
    /\ Respond(r, 200, Planner(r))
    /\ UNCHANGED <<settingsVars, school, stored, engine, hadSolver, called, generations>>

(* Statements that can fail: of the reads, and of the replacement. *)
InStatement(r) ==
    \/ gpc[r] \in {"dispatch", "build", "greedy"}
    \/ gpc[r] = "persist" /\ persist[r]

(* Mutant of DatabaseFails: the DELETE of a replacement that fails has been committed. *)
DatabaseFails_Deleted(r) ==
    /\ InStatement(r)
    /\ stored' = IF gpc[r] = "persist" THEN 0 ELSE stored
    /\ Respond(r, 500, None)
    /\ UNCHANGED <<settingsVars, school, engine, hadSolver, called, generations>>

(* A statement fails: 500, and a transaction that was open is rolled back. *)
DatabaseFails(r) ==
    /\ InStatement(r)
    /\ Respond(r, 500, None)
    /\ UNCHANGED <<settingsVars, school, stored, engine, hadSolver, called, generations>>

(* An administrator edits modules, subjects, teachers or rooms. *)
EditSchool ==
    /\ school' \in Schools \ {school}
    /\ UNCHANGED <<settingsVars, stored, gpc, taskVars, engine, hadSolver, called, answer,
                   generations>>

(* A restart drops the generations in flight; their clients get no answer. *)
Restart ==
    /\ Boot
    /\ gpc' = [r \in Requests |-> "idle"]
    /\ persist' = [r \in Requests |-> FALSE]
    /\ problem' = [r \in Requests |-> None]
    /\ budget' = [r \in Requests |-> 30]
    /\ UNCHANGED <<school, stored, engine, hadSolver, called, answer, generations>>

-----------------------------------------------------------------------------
(* The class has a timetable of an earlier generation. *)
Init ==
    /\ SettingsInit
    /\ school \in Schools
    /\ stored = 1
    /\ gpc = [r \in Requests |-> "idle"]
    /\ persist = [r \in Requests |-> FALSE]
    /\ engine = [r \in Requests |-> "auto"]
    /\ hadSolver = [r \in Requests |-> FALSE]
    /\ problem = [r \in Requests |-> None]
    /\ budget = [r \in Requests |-> 30]
    /\ called = [r \in Requests |-> None]
    /\ answer = [r \in Requests |-> None]
    /\ generations = 0

(* What the server does about r without waiting for the solver to answer. *)
Step(r) ==
    \/ Dispatch(r)
    \/ BuildSolverRequest(r)
    \/ SolverUnreachable(r)
    \/ GreedyInfeasible(r)
    \/ GreedyPlaces(r)
    \/ Finish(r)
    \/ AnswerPlan(r)
    \/ DatabaseFails(r)

SolverAnswers(r) == SolverLate(r) \/ SolverRejects(r) \/ SolverInfeasible(r) \/ SolverSolves(r)

Next ==
    \/ \E r \in Requests : Generate(r) \/ Step(r) \/ SolverAnswers(r)
    \/ EditSchool
    \/ Restart
    \/ (\E a \in Admins : Put(a)) /\ UNCHANGED engineVars

Spec == Init /\ [][Next]_vars

(* Handlers run on, and the client's timeout ends a call nobody answers. *)
Fairness == \A r \in Requests : WF_vars(Step(r))
FairSpec == Spec /\ Fairness

-----------------------------------------------------------------------------
(* Properties *)

(***************************************************************************)
(* The greedy engine answers only when the settings ask for it, when there *)
(* was no solver, or when the engine is "auto", falling back is allowed    *)
(* and the call failed in transport: never after the solver's verdict      *)
(* "infeasible" ("Never fall back on model infeasibility").                *)
(***************************************************************************)
FallbackOnlyWhenUnreachable ==
    \A r \in Requests :
        answer[r] # None /\ answer[r].engine = "greedy" =>
            \/ engine[r] = "greedy"
            \/ engine[r] = "auto" /\ ~hadSolver[r]
            \/ engine[r] = "auto" /\ AllowFallback /\ called[r] \in {"unreachable", "late"}

(***************************************************************************)
(* The class's timetable changes only when a generate commits, which 200   *)
(* answers, and to all the sessions of the tables its engine had read:     *)
(* errors, fallbacks, previews, restarts and failing statements leave it   *)
(* whole.  The exception is a request body that the solver has refused.    *)
(***************************************************************************)
ReplacedOnSuccessOnly ==
    [][stored' # stored =>
          \E r \in Requests :
              /\ persist[r] /\ gpc[r] = "persist" /\ gpc'[r] = "respond"
              /\ called[r] # "rejected" => stored' = Sessions(problem[r])]_vars

(***************************************************************************)
(* A generate that commits, and is then answered with 200, has stored      *)
(* every session of the class ("Exactly one slot assignment per required   *)
(* session").                                                              *)
(***************************************************************************)
StoredIsComplete ==
    [][\A r \in Requests :
          persist[r] /\ gpc[r] = "persist" /\ gpc'[r] = "respond" =>
              stored' = Sessions(problem[r])]_vars

(* The task of a client that the state of its request stands for. *)
Task(r) ==
    IF gpc[r] = "idle" THEN "none"
    ELSE IF gpc[r] = "respond" THEN "finished"
    ELSE IF persist[r] THEN "generate" ELSE "preview"

Reply(r) ==
    IF answer[r] = None THEN "none" ELSE IF answer[r].code = 200 THEN "ok" ELSE "error"

(***************************************************************************)
(* Dispatch, solver, fallback and replacement together keep the promise of *)
(* the abstract service: atomic replacement, errors without effect, and    *)
(* previews that store nothing, whoever plans and whatever fails.          *)
(***************************************************************************)
Service == INSTANCE GenerationService WITH
    timetable <- stored,
    task <- [r \in Requests |-> Task(r)],
    reply <- [r \in Requests |-> Reply(r)]
ImplementsGenerationService == Service!Spec

(* Every generation is answered, or dropped by a restart. *)
EveryGenerationAnswered == \A r \in Requests : gpc[r] # "idle" ~> gpc[r] = "idle"
=============================================================================
