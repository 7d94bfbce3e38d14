----------------------- MODULE GenerationEngine_proofs -----------------------
(***************************************************************************)
(* Theorems about GenerationEngine: which settings can be lost, when the   *)
(* greedy engine may answer, when the timetable of a class changes, and    *)
(* that the engine implements the abstract GenerationService.              *)
(***************************************************************************)
EXTENDS GenerationEngine, TLAPS

-----------------------------------------------------------------------------
(* The settings *)

(* What a PUT in flight will store of a field that its body does not give is *)
(* the value last asked for, unless it is behind or that value is lost.      *)
DraftsCurrent ==
    \A a \in Admins : spc[a] # "idle" =>
        \A f \in Fields \ given[a] :
            draft[a][f] = wanted[f] \/ f \in behind[a] \/ f \in clobbered

SettingsInv == SettingsTypeOK /\ LostOnlyToRacer /\ DraftsCurrent

LEMMA CurrentType == SettingsTypeOK => Current \in Settings
BY SettingsAssumption
   DEF SettingsTypeOK, Current, Settings, DefaultGenerationSettings, Engines

LEMMA LoadType ==
    ASSUME SettingsTypeOK, NEW a \in Admins, LoadAndMerge(a)
    PROVE  SettingsTypeOK'
<1>1. Current \in Settings
  BY CurrentType
<1>2. PICK e \in Engines \cup {Omitted}, b \in Budgets \cup {Omitted} :
        /\ draft' = [draft EXCEPT ![a] =
              [engine |-> Merged("engine", e), budget |-> Merged("budget", b)]]
        /\ given' = [given EXCEPT ![a] =
              {f \in Fields : (IF f = "engine" THEN e ELSE b) # Omitted}]
  BY DEF LoadAndMerge
<1>3. Merged("engine", e) \in Engines /\ Merged("budget", b) \in Budgets \cup {30}
  BY <1>1 DEF Merged, Settings
<1>4. draft' \in [Admins -> Settings]
  BY <1>2, <1>3 DEF SettingsTypeOK, Settings
<1>5. given' \in [Admins -> SUBSET Fields]
  BY <1>2 DEF SettingsTypeOK
<1> QED
  BY <1>4, <1>5 DEF LoadAndMerge, SettingsTypeOK

LEMMA StoreType ==
    ASSUME SettingsTypeOK, NEW a \in Admins, Store(a)
    PROVE  SettingsTypeOK'
<1>1. draft[a] \in Settings
  BY DEF SettingsTypeOK
<1>2. wanted' \in Settings
  BY <1>1 DEF Store, SettingsTypeOK, Settings, Fields
<1>3. draft' \in [Admins -> Settings]
  BY DEF Store, AnswerPut, SettingsTypeOK, Settings, DefaultGenerationSettings, Engines
<1>4. given' \in [Admins -> SUBSET Fields] /\ spc' \in [Admins -> {"idle", "first", "create", "update"}]
  BY DEF Store, AnswerPut, SettingsTypeOK
<1>5. behind' \in [Admins -> SUBSET Fields] /\ clobbered' \in SUBSET Fields
  BY DEF Store, SettingsTypeOK
<1> QED
  BY <1>1, <1>2, <1>3, <1>4, <1>5 DEF Store, SettingsTypeOK

LEMMA FailType ==
    ASSUME SettingsTypeOK, NEW a \in Admins, PutFails(a)
    PROVE  SettingsTypeOK'
<1>1. draft' \in [Admins -> Settings]
  BY DEF PutFails, AnswerPut, SettingsTypeOK, Settings, DefaultGenerationSettings, Engines
<1> QED
  BY <1>1 DEF PutFails, AnswerPut, SettingsTypeOK

LEMMA BootType ==
    ASSUME SettingsTypeOK, Boot
    PROVE  SettingsTypeOK'
<1>1. draft' \in [Admins -> Settings]
  BY DEF Boot, Settings, DefaultGenerationSettings, Engines
<1> QED
  BY <1>1 DEF Boot, SettingsTypeOK

LEMMA PutType ==
    ASSUME SettingsTypeOK, NEW a \in Admins, Put(a)
    PROVE  SettingsTypeOK'
<1>1. CASE LoadAndMerge(a)
  BY <1>1, LoadType
<1>2. CASE UpsertFirst(a)
  BY <1>2 DEF UpsertFirst, SettingsTypeOK
<1>3. CASE UpsertCreate(a) \/ UpsertUpdate(a)
  BY <1>3, StoreType DEF UpsertCreate, UpsertUpdate
<1>4. CASE PutFails(a)
  BY <1>4, FailType
<1> QED
  BY <1>1, <1>2, <1>3, <1>4 DEF Put

LEMMA LoadCurrent ==
    ASSUME SettingsInv, NEW a \in Admins, LoadAndMerge(a)
    PROVE  LostOnlyToRacer' /\ DraftsCurrent'
<1> USE DEF SettingsInv
<1>1. LostOnlyToRacer'
  BY DEF LoadAndMerge, LostOnlyToRacer, Current
<1>2. PICK e \in Engines \cup {Omitted}, b \in Budgets \cup {Omitted} :
        /\ draft' = [draft EXCEPT ![a] =
              [engine |-> Merged("engine", e), budget |-> Merged("budget", b)]]
        /\ given' = [given EXCEPT ![a] =
              {f \in Fields : (IF f = "engine" THEN e ELSE b) # Omitted}]
  BY DEF LoadAndMerge
<1>3. \A f \in Fields \ given'[a] : draft'[a][f] = Current[f]
  BY <1>2 DEF SettingsTypeOK, Merged, Fields
<1>4. ASSUME NEW c \in Admins, spc'[c] # "idle", NEW f \in Fields \ given'[c]
      PROVE  draft'[c][f] = wanted'[f] \/ f \in behind'[c] \/ f \in clobbered'
  <2>1. CASE c = a
    BY <2>1, <1>3, <1>4 DEF LostOnlyToRacer, LoadAndMerge
  <2>2. CASE c # a
    BY <2>2, <1>2, <1>4 DEF DraftsCurrent, LoadAndMerge, SettingsTypeOK
  <2> QED
    BY <2>1, <2>2
<1> QED
  BY <1>1, <1>4 DEF DraftsCurrent

LEMMA StoreCurrent ==
    ASSUME SettingsInv, NEW a \in Admins, spc[a] # "idle", Store(a)
    PROVE  LostOnlyToRacer' /\ DraftsCurrent'
<1> USE DEF SettingsInv
<1>1. Current' = draft[a]
  BY SettingsAssumption DEF Store, Current, SettingsTypeOK
<1>2. ASSUME NEW f \in Fields, draft[a][f] # wanted'[f]
      PROVE  f \in clobbered'
  <2>1. f \notin given[a] /\ draft[a][f] # wanted[f]
    BY <1>2 DEF Store
  <2> QED
    BY <2>1 DEF DraftsCurrent, Store
<1>3. LostOnlyToRacer'
  BY <1>1, <1>2 DEF LostOnlyToRacer
<1>4. ASSUME NEW c \in Admins, spc'[c] # "idle", NEW f \in Fields \ given'[c]
      PROVE  draft'[c][f] = wanted'[f] \/ f \in behind'[c] \/ f \in clobbered'
  <2>1. c # a /\ spc[c] # "idle" /\ draft'[c] = draft[c] /\ f \notin given[c]
    BY <1>4 DEF Store, AnswerPut, SettingsTypeOK
  <2>2. draft[c][f] = wanted[f] \/ f \in behind[c] \/ f \in clobbered
    BY <2>1 DEF DraftsCurrent
  <2>3. behind'[c] = behind[c] \cup given[a]
    BY <2>1 DEF Store
  <2> QED
    BY <2>1, <2>2, <2>3 DEF Store
<1> QED
  BY <1>3, <1>4 DEF DraftsCurrent

LEMMA FailCurrent ==
    ASSUME SettingsInv, NEW a \in Admins, PutFails(a)
    PROVE  LostOnlyToRacer' /\ DraftsCurrent'
<1>1. LostOnlyToRacer'
  BY DEF SettingsInv, LostOnlyToRacer, PutFails, Current
<1>2. DraftsCurrent'
  BY DEF SettingsInv, DraftsCurrent, PutFails, AnswerPut, SettingsTypeOK
<1> QED
  BY <1>1, <1>2

LEMMA PutKeepsSettings ==
    ASSUME SettingsInv, NEW a \in Admins, Put(a)
    PROVE  SettingsInv'
<1>1. SettingsTypeOK'
  BY PutType DEF SettingsInv
<1>2. CASE LoadAndMerge(a)
  BY <1>1, <1>2, LoadCurrent DEF SettingsInv
<1>3. CASE UpsertFirst(a)
  BY <1>1, <1>3
     DEF SettingsInv, UpsertFirst, LostOnlyToRacer, Current, DraftsCurrent, SettingsTypeOK
<1>4. CASE UpsertCreate(a) \/ UpsertUpdate(a)
  BY <1>1, <1>4, StoreCurrent DEF SettingsInv, UpsertCreate, UpsertUpdate
<1>5. CASE PutFails(a)
  BY <1>1, <1>5, FailCurrent DEF SettingsInv
<1> QED
  BY <1>2, <1>3, <1>4, <1>5 DEF Put

LEMMA BootKeepsSettings ==
    ASSUME SettingsInv, Boot
    PROVE  SettingsInv'
<1>1. SettingsTypeOK'
  BY BootType DEF SettingsInv
<1>2. LostOnlyToRacer' /\ DraftsCurrent'
  BY DEF SettingsInv, Boot, LostOnlyToRacer, Current, DraftsCurrent
<1> QED
  BY <1>1, <1>2 DEF SettingsInv

LEMMA SameSettings ==
    ASSUME SettingsInv, UNCHANGED settingsVars
    PROVE  SettingsInv'
BY DEF SettingsInv, SettingsTypeOK, LostOnlyToRacer, Current, DraftsCurrent, settingsVars

LEMMA SettingsStart == Init => SettingsInv
<1> SUFFICES ASSUME Init PROVE SettingsInv
  OBVIOUS
<1>1. SettingsTypeOK
  BY SettingsAssumption
     DEF Init, SettingsInit, SettingsTypeOK, Settings, DefaultGenerationSettings, Engines, Fields
<1>2. LostOnlyToRacer /\ DraftsCurrent
  BY DEF Init, SettingsInit, LostOnlyToRacer, DraftsCurrent, Current
<1> QED
  BY <1>1, <1>2 DEF SettingsInv

-----------------------------------------------------------------------------
(* Types of the engine *)

(* A plan that is to be stored was made from tables that were read. *)
PlansRead == \A r \in Requests : gpc[r] = "persist" => problem[r] # None

TypeInv == TypeOK /\ PlansRead

GPC == {"idle", "dispatch", "build", "call", "greedy", "persist", "respond"}

(* What an action may do to the request r alone. *)
Moves(r, next, q, b) ==
    /\ gpc' = [gpc EXCEPT ![r] = next]
    /\ problem' = [problem EXCEPT ![r] = q]
    /\ budget' = [budget EXCEPT ![r] = b]

LEMMA MovesType ==
    ASSUME TypeInv, NEW r \in Requests, NEW next \in GPC, NEW q \in Schools \cup {None},
           NEW b \in Budgets \cup {30}, Moves(r, next, q, b),
           next \in {"call", "persist"} => q # None,
           SettingsTypeOK', school' \in Schools, stored' \in Nat, generations' \in Nat,
           persist' \in [Requests -> BOOLEAN], engine' \in [Requests -> Engines],
           hadSolver' \in [Requests -> BOOLEAN], called' \in [Requests -> Calls],
           answer' \in [Requests -> Answers \cup {None}]
    PROVE  TypeInv'
<1>1. /\ gpc' \in [Requests -> GPC]
      /\ problem' \in [Requests -> Schools \cup {None}]
      /\ budget' \in [Requests -> Budgets \cup {30}]
  BY DEF Moves, TypeInv, TypeOK, EngineTypeOK, GPC
<1>2. \A c \in Requests : gpc'[c] \in {"call", "persist"} => problem'[c] # None
  BY DEF Moves, TypeInv, TypeOK, EngineTypeOK, PlansRead
<1> QED
  BY <1>1, <1>2 DEF TypeInv, TypeOK, EngineTypeOK, PlansRead, GPC

LEMMA RespondMoves ==
    ASSUME TypeInv, NEW r \in Requests, NEW code \in {200, 422, 500},
           NEW eng \in {None, "solver", "greedy"}, Respond(r, code, eng)
    PROVE  /\ Moves(r, "idle", None, 30)
           /\ persist' \in [Requests -> BOOLEAN]
           /\ answer' \in [Requests -> Answers \cup {None}]
BY DEF Respond, Forget, Moves, TypeInv, TypeOK, EngineTypeOK, Answers

LEMMA GoToMoves ==
    ASSUME TypeInv, NEW r \in Requests, NEW next, GoTo(r, next)
    PROVE  /\ Moves(r, next, problem[r], budget[r])
           /\ persist' \in [Requests -> BOOLEAN]
           /\ answer' \in [Requests -> Answers \cup {None}]
BY DEF GoTo, Reaches, taskVars, Moves, TypeInv, TypeOK, EngineTypeOK

(* What all steps of the engine leave alone that are not of another component. *)
LEMMA UnchangedType ==
    ASSUME TypeInv
    PROVE  /\ UNCHANGED settingsVars => SettingsTypeOK'
           /\ UNCHANGED school => school' \in Schools
           /\ UNCHANGED stored => stored' \in Nat
           /\ UNCHANGED generations => generations' \in Nat
           /\ UNCHANGED persist => persist' \in [Requests -> BOOLEAN]
           /\ UNCHANGED engine => engine' \in [Requests -> Engines]
           /\ UNCHANGED hadSolver => hadSolver' \in [Requests -> BOOLEAN]
           /\ UNCHANGED called => called' \in [Requests -> Calls]
           /\ UNCHANGED answer => answer' \in [Requests -> Answers \cup {None}]
           /\ \A r \in Requests :
                 /\ problem[r] \in Schools \cup {None} /\ budget[r] \in Budgets \cup {30}
                 /\ gpc[r] \in {"call", "persist"} => problem[r] # None
BY DEF TypeInv, TypeOK, EngineTypeOK, SettingsTypeOK, settingsVars, PlansRead

LEMMA RespondType ==
    ASSUME TypeInv, NEW r \in Requests, NEW code \in {200, 422, 500},
           NEW eng \in {None, "solver", "greedy"}, Respond(r, code, eng),
           UNCHANGED <<settingsVars, school, stored, generations>>,
           engine' \in [Requests -> Engines], hadSolver' \in [Requests -> BOOLEAN],
           called' \in [Requests -> Calls]
    PROVE  TypeInv'
<1>1. /\ Moves(r, "idle", None, 30)
      /\ persist' \in [Requests -> BOOLEAN]
      /\ answer' \in [Requests -> Answers \cup {None}]
  BY RespondMoves
<1>2. SettingsTypeOK' /\ school' \in Schools /\ stored' \in Nat /\ generations' \in Nat
  BY UnchangedType
<1>3. "idle" \in GPC /\ None \in Schools \cup {None} /\ 30 \in Budgets \cup {30}
  BY DEF GPC
<1>4. ~("idle" \in {"call", "persist"})
  OBVIOUS
<1> QED
  BY <1>1, <1>2, <1>3, <1>4, MovesType

LEMMA GenerateType ==
    ASSUME TypeInv, NEW r \in Requests, Generate(r)
    PROVE  TypeInv'
<1>1. Moves(r, "dispatch", problem[r], budget[r])
  BY DEF Generate, Moves, TypeInv, TypeOK, EngineTypeOK
<1>2. /\ persist' \in [Requests -> BOOLEAN]
      /\ called' \in [Requests -> Calls]
      /\ answer' \in [Requests -> Answers \cup {None}]
      /\ generations' \in Nat
  BY DEF Generate, TypeInv, TypeOK, EngineTypeOK, Calls
<1> QED
  BY <1>1, <1>2, UnchangedType, MovesType DEF Generate, GPC

LEMMA DispatchType ==
    ASSUME TypeInv, NEW r \in Requests, Dispatch(r)
    PROVE  TypeInv'
<1>1. /\ engine' \in [Requests -> Engines]
      /\ hadSolver' \in [Requests -> BOOLEAN]
  BY CurrentType DEF Dispatch, TypeInv, TypeOK, EngineTypeOK, Settings, SettingsTypeOK
<1>2. CASE GoTo(r, "build")
  BY <1>1, <1>2, GoToMoves, UnchangedType, MovesType DEF Dispatch, GPC
<1>3. CASE Respond(r, 500, None)
  BY <1>1, <1>3, RespondType, UnchangedType DEF Dispatch
<1>4. CASE GoTo(r, "greedy")
  BY <1>1, <1>4, GoToMoves, UnchangedType, MovesType DEF Dispatch, GPC
<1> QED
  BY <1>2, <1>3, <1>4 DEF Dispatch

LEMMA BuildType ==
    ASSUME TypeInv, NEW r \in Requests, BuildSolverRequest(r)
    PROVE  TypeInv'
<1>1. Moves(r, "call", school, Current.budget)
  BY DEF BuildSolverRequest, Reaches, Moves
<1>2. school # None /\ school \in Schools /\ Current.budget \in Budgets \cup {30}
  BY EngineAssumption, CurrentType DEF TypeInv, TypeOK, EngineTypeOK, Settings
<1> QED
  BY <1>1, <1>2, UnchangedType, MovesType DEF BuildSolverRequest, Reaches, GPC

(* The four ways in which a call ends, of which none is a plan by the greedy engine. *)
LEMMA CallType ==
    ASSUME TypeInv, NEW r \in Requests, gpc[r] = "call", NEW c \in Calls, Called(r, c),
           GoTo(r, "persist") \/ Respond(r, 422, "solver") \/ AfterUnreachable(r)
    PROVE  TypeInv'
<1>1. called' \in [Requests -> Calls]
  BY DEF Called, TypeInv, TypeOK, EngineTypeOK
<1>2. CASE GoTo(r, "persist") \/ GoTo(r, "greedy")
  BY <1>1, <1>2, GoToMoves, UnchangedType, MovesType DEF Called, GPC
<1>3. CASE Respond(r, 422, "solver") \/ Respond(r, 500, None)
  BY <1>1, <1>3, RespondType, UnchangedType DEF Called
<1> QED
  BY <1>2, <1>3 DEF AfterUnreachable

LEMMA GreedyType ==
    ASSUME TypeInv, NEW r \in Requests, GreedyInfeasible(r) \/ GreedyPlaces(r)
    PROVE  TypeInv'
<1>1. CASE GreedyInfeasible(r)
  BY <1>1, RespondType, UnchangedType DEF GreedyInfeasible
<1>2. CASE GreedyPlaces(r)
  <2>1. Moves(r, "persist", school, budget[r])
    BY <1>2 DEF GreedyPlaces, Reaches, Moves, TypeInv, TypeOK, EngineTypeOK
  <2>2. school # None /\ school \in Schools
    BY EngineAssumption DEF TypeInv, TypeOK, EngineTypeOK
  <2> QED
    BY <1>2, <2>1, <2>2, UnchangedType, MovesType DEF GreedyPlaces, Reaches, GPC
<1> QED
  BY <1>1, <1>2

LEMMA SessionsType == ASSUME NEW s \in Schools PROVE Sessions(s) \in Nat
BY EngineAssumption DEF Sessions, School

LEMMA PlannedType ==
    ASSUME TypeInv, NEW r \in Requests, gpc[r] = "persist"
    PROVE  Planned(r) \in Nat
BY SessionsType DEF Planned, TypeInv, TypeOK, EngineTypeOK, PlansRead

LEMMA FinishType ==
    ASSUME TypeInv, NEW r \in Requests, Finish(r) \/ AnswerPlan(r) \/ DatabaseFails(r)
    PROVE  TypeInv'
<1>1. CASE Finish(r)
  <2>1. Moves(r, "respond", None, 30) /\ persist' \in [Requests -> BOOLEAN]
    BY <1>1 DEF Finish, Reaches, Forget, Moves, TypeInv, TypeOK, EngineTypeOK
  <2>2. stored' \in Nat
    BY <1>1, PlannedType DEF Finish, TypeInv, TypeOK, EngineTypeOK
  <2> QED
    BY <1>1, <2>1, <2>2, UnchangedType, MovesType DEF Finish, Reaches, GPC
<1>2. CASE AnswerPlan(r)
  <2>1. Planner(r) \in {None, "solver", "greedy"}
    BY DEF Planner
  <2> QED
    BY <1>2, <2>1, RespondType, UnchangedType DEF AnswerPlan
<1>3. CASE DatabaseFails(r)
  BY <1>3, RespondType, UnchangedType DEF DatabaseFails
<1> QED
  BY <1>1, <1>2, <1>3

LEMMA OthersType ==
    ASSUME TypeInv, EditSchool \/ Restart \/ ((\E a \in Admins : Put(a)) /\ UNCHANGED engineVars)
    PROVE  TypeInv'
<1>1. CASE EditSchool
  BY <1>1 DEF EditSchool, TypeInv, TypeOK, EngineTypeOK, PlansRead, SettingsTypeOK, settingsVars,
              taskVars
<1>2. CASE Restart
  BY <1>2, BootType DEF Restart, TypeInv, TypeOK, EngineTypeOK, PlansRead
<1>3. CASE (\E a \in Admins : Put(a)) /\ UNCHANGED engineVars
  BY <1>3, PutType DEF TypeInv, TypeOK, EngineTypeOK, PlansRead, engineVars, taskVars
<1> QED
  BY <1>1, <1>2, <1>3

LEMMA TypeStart == Init => TypeInv
<1> SUFFICES ASSUME Init PROVE TypeInv
  OBVIOUS
<1>1. SettingsTypeOK
  BY SettingsStart DEF SettingsInv
<1>2. EngineTypeOK /\ PlansRead
  BY DEF Init, EngineTypeOK, PlansRead, Engines, Calls
<1> QED
  BY <1>1, <1>2 DEF TypeInv, TypeOK

LEMMA TypeStep == TypeInv /\ [Next]_vars => TypeInv'
<1> SUFFICES ASSUME TypeInv, [Next]_vars PROVE TypeInv'
  OBVIOUS
<1>1. ASSUME NEW r \in Requests, Generate(r) \/ Step(r) \/ SolverAnswers(r) PROVE TypeInv'
  <2>1. CASE Generate(r)
    BY <2>1, GenerateType
  <2>2. CASE Dispatch(r) \/ BuildSolverRequest(r)
    BY <2>2, DispatchType, BuildType
  <2>3. CASE SolverUnreachable(r) \/ SolverAnswers(r)
    BY <2>3, CallType
       DEF SolverUnreachable, SolverAnswers, SolverLate, SolverRejects, SolverInfeasible,
           SolverSolves, InTime, Calls
  <2>4. CASE GreedyInfeasible(r) \/ GreedyPlaces(r)
    BY <2>4, GreedyType
  <2>5. CASE Finish(r) \/ AnswerPlan(r) \/ DatabaseFails(r)
    BY <2>5, FinishType
  <2> QED
    BY <1>1, <2>1, <2>2, <2>3, <2>4, <2>5 DEF Step
<1>2. CASE UNCHANGED vars
  BY <1>2 DEF vars, engineVars, settingsVars, taskVars, TypeInv, TypeOK, EngineTypeOK, PlansRead,
              SettingsTypeOK
<1> QED
  BY <1>1, <1>2, OthersType DEF Next

-----------------------------------------------------------------------------
(* Who plans *)

(* The reasons for which the greedy engine may plan for r. *)
Excused(r) ==
    \/ engine[r] = "greedy"
    \/ engine[r] = "auto" /\ ~hadSolver[r]
    \/ engine[r] = "auto" /\ AllowFallback /\ called[r] \in {"unreachable", "late"}

(* An answer is kept until the next request, and with it what it depended on. *)
WellPlanned(r) ==
    /\ gpc[r] # "idle" => answer[r] = None
    /\ gpc[r] = "greedy" => Excused(r)
    /\ gpc[r] \in {"persist", "respond"} => called[r] \in {"solved", "rejected"} \/ Excused(r)
    /\ answer[r] # None /\ answer[r].engine = "greedy" => Excused(r)

PlannerInv == \A r \in Requests : WellPlanned(r)

(* The request c is where it was. *)
Same(c) ==
    /\ gpc'[c] = gpc[c] /\ persist'[c] = persist[c] /\ answer'[c] = answer[c]
    /\ engine'[c] = engine[c] /\ hadSolver'[c] = hadSolver[c] /\ called'[c] = called[c]

LEMMA RespondSame ==
    ASSUME TypeInv, NEW r \in Requests, NEW c \in Requests \ {r}, NEW code, NEW eng,
           Respond(r, code, eng), UNCHANGED <<engine, hadSolver>>,
           called'[c] = called[c]
    PROVE  Same(c)
BY DEF Respond, Forget, Same, TypeInv, TypeOK, EngineTypeOK

LEMMA GoToSame ==
    ASSUME TypeInv, NEW r \in Requests, NEW c \in Requests \ {r}, NEW next,
           GoTo(r, next), UNCHANGED <<engine, hadSolver>>,
           called'[c] = called[c]
    PROVE  Same(c)
BY DEF GoTo, Reaches, taskVars, Same, TypeInv, TypeOK, EngineTypeOK

LEMMA CalledSame ==
    ASSUME TypeInv, NEW r \in Requests, NEW c \in Requests \ {r}, NEW outcome, Called(r, outcome),
           GoTo(r, "persist") \/ Respond(r, 422, "solver") \/ AfterUnreachable(r)
    PROVE  Same(c)
<1>1. called'[c] = called[c] /\ UNCHANGED <<engine, hadSolver>>
  BY DEF Called, TypeInv, TypeOK, EngineTypeOK
<1>2. CASE GoTo(r, "persist") \/ GoTo(r, "greedy")
  BY <1>1, <1>2, GoToSame
<1>3. CASE Respond(r, 422, "solver") \/ Respond(r, 500, None)
  BY <1>1, <1>3, RespondSame
<1> QED
  BY <1>2, <1>3 DEF AfterUnreachable

LEMMA DispatchSame ==
    ASSUME TypeInv, NEW r \in Requests, NEW c \in Requests \ {r}, Dispatch(r)
    PROVE  Same(c)
<1>1. engine'[c] = engine[c] /\ hadSolver'[c] = hadSolver[c] /\ called'[c] = called[c]
  BY DEF Dispatch, TypeInv, TypeOK, EngineTypeOK
<1>2. CASE \E next : GoTo(r, next)
  BY <1>1, <1>2 DEF GoTo, Reaches, taskVars, Same, TypeInv, TypeOK, EngineTypeOK
<1>3. CASE Respond(r, 500, None)
  BY <1>1, <1>3 DEF Respond, Forget, Same, TypeInv, TypeOK, EngineTypeOK
<1> QED
  BY <1>2, <1>3 DEF Dispatch

(* A step for one request leaves the others where they are. *)
LEMMA OthersSame ==
    ASSUME TypeInv, NEW r \in Requests, NEW c \in Requests \ {r},
           Generate(r) \/ Step(r) \/ SolverAnswers(r)
    PROVE  Same(c)
<1>1. CASE Generate(r)
  BY <1>1 DEF Generate, Same, TypeInv, TypeOK, EngineTypeOK
<1>2. CASE Dispatch(r)
  BY <1>2, DispatchSame
<1>3. CASE SolverUnreachable(r) \/ SolverAnswers(r)
  BY <1>3, CalledSame
     DEF SolverUnreachable, SolverAnswers, SolverLate, SolverRejects, SolverInfeasible, SolverSolves
<1>4. CASE GreedyInfeasible(r) \/ AnswerPlan(r) \/ DatabaseFails(r)
  BY <1>4, RespondSame DEF GreedyInfeasible, AnswerPlan, DatabaseFails
<1>5. CASE BuildSolverRequest(r) \/ GreedyPlaces(r)
  BY <1>5 DEF BuildSolverRequest, GreedyPlaces, Reaches, Same, TypeInv, TypeOK, EngineTypeOK
<1>6. CASE Finish(r)
  BY <1>6 DEF Finish, Reaches, Forget, Same, TypeInv, TypeOK, EngineTypeOK
<1> QED
  BY <1>1, <1>2, <1>3, <1>4, <1>5, <1>6 DEF Step

LEMMA SamePlanned ==
    ASSUME NEW c \in Requests, WellPlanned(c), Same(c)
    PROVE  WellPlanned(c)'
BY DEF Same, WellPlanned, Excused, AllowFallback

LEMMA NoneIsNoAnswer ==
    /\ None # "greedy" /\ \A r \in Requests : None \notin Answers
BY EngineAssumption DEF Answers

LEMMA DispatchPlanned ==
    ASSUME TypeInv, NEW r \in Requests, WellPlanned(r), Dispatch(r)
    PROVE  WellPlanned(r)'
<1>1. answer[r] = None /\ engine'[r] = Current.engine /\ hadSolver'[r] = solverURL
  BY DEF WellPlanned, Dispatch, TypeInv, TypeOK, EngineTypeOK
<1>2. CASE Current.engine # "greedy" /\ solverURL /\ GoTo(r, "build")
  BY <1>1, <1>2 DEF GoTo, Reaches, taskVars, WellPlanned, TypeInv, TypeOK, EngineTypeOK
<1>3. CASE Respond(r, 500, None)
  BY <1>1, <1>3, EngineAssumption DEF Respond, WellPlanned, TypeInv, TypeOK, EngineTypeOK
<1>4. CASE Current.engine = "auto" /\ ~solverURL /\ GoTo(r, "greedy")
  BY <1>1, <1>4 DEF GoTo, Reaches, taskVars, WellPlanned, Excused, TypeInv, TypeOK, EngineTypeOK
<1>5. CASE Current.engine = "greedy" /\ GoTo(r, "greedy")
  BY <1>1, <1>5 DEF GoTo, Reaches, taskVars, WellPlanned, Excused, TypeInv, TypeOK, EngineTypeOK
<1> QED
  BY <1>2, <1>3, <1>4, <1>5 DEF Dispatch

(* r is answered, by the greedy engine only when it was excused. *)
LEMMA RespondPlanned ==
    ASSUME TypeInv, NEW r \in Requests, NEW code, NEW eng, Respond(r, code, eng),
           eng = "greedy" => Excused(r)'
    PROVE  WellPlanned(r)'
BY DEF Respond, WellPlanned, TypeInv, TypeOK, EngineTypeOK

LEMMA UnreachablePlanned ==
    ASSUME TypeInv, NEW r \in Requests, WellPlanned(r), gpc[r] = "call",
           NEW outcome \in {"unreachable", "late"}, Called(r, outcome), AfterUnreachable(r)
    PROVE  WellPlanned(r)'
<1>1. answer[r] = None /\ called'[r] = outcome /\ engine'[r] = engine[r]
  BY DEF WellPlanned, Called, TypeInv, TypeOK, EngineTypeOK
<1>2. CASE engine[r] = "auto" /\ AllowFallback /\ GoTo(r, "greedy")
  BY <1>1, <1>2
     DEF GoTo, Reaches, taskVars, WellPlanned, Excused, AllowFallback, TypeInv, TypeOK, EngineTypeOK
<1>3. CASE Respond(r, 500, None)
  BY <1>3, RespondPlanned, NoneIsNoAnswer
<1> QED
  BY <1>2, <1>3 DEF AfterUnreachable

LEMMA SolverPlanned ==
    ASSUME TypeInv, NEW r \in Requests, WellPlanned(r), gpc[r] = "call",
           NEW outcome \in {"solved", "rejected"}, Called(r, outcome), GoTo(r, "persist")
    PROVE  WellPlanned(r)'
BY DEF WellPlanned, Called, GoTo, Reaches, TypeInv, TypeOK, EngineTypeOK

LEMMA EngineChoice ==
    ASSUME TypeInv, NEW r \in Requests, WellPlanned(r), Generate(r) \/ Step(r) \/ SolverAnswers(r)
    PROVE  WellPlanned(r)'
<1>1. CASE Generate(r)
  BY <1>1 DEF Generate, WellPlanned, TypeInv, TypeOK, EngineTypeOK
<1>2. CASE Dispatch(r)
  BY <1>2, DispatchPlanned
<1>3. CASE SolverUnreachable(r) \/ SolverLate(r)
  BY <1>3, UnreachablePlanned DEF SolverUnreachable, SolverLate
<1>4. CASE SolverRejects(r) \/ SolverSolves(r)
  BY <1>4, SolverPlanned DEF SolverRejects, SolverSolves, InTime
<1>5. CASE SolverInfeasible(r) \/ DatabaseFails(r)
  BY <1>5, RespondPlanned, NoneIsNoAnswer DEF SolverInfeasible, DatabaseFails
<1>6. CASE GreedyInfeasible(r) \/ AnswerPlan(r)
  <2>1. gpc[r] \in {"greedy", "respond"} /\ Excused(r)' = Excused(r)
    BY <1>6 DEF GreedyInfeasible, AnswerPlan, Excused, AllowFallback
  <2>2. CASE GreedyInfeasible(r)
    BY <2>1, <2>2, RespondPlanned DEF GreedyInfeasible, WellPlanned
  <2>3. CASE AnswerPlan(r)
    BY <2>1, <2>3, RespondPlanned DEF AnswerPlan, Planner, WellPlanned
  <2> QED
    BY <1>6, <2>2, <2>3
<1>7. CASE BuildSolverRequest(r) \/ GreedyPlaces(r) \/ Finish(r)
  <2>1. /\ gpc'[r] \in {"call", "persist", "respond"}
        /\ gpc[r] = "build" => gpc'[r] = "call"
        /\ gpc[r] \in {"build", "greedy", "persist"}
        /\ answer' = answer /\ called' = called /\ engine' = engine /\ hadSolver' = hadSolver
    BY <1>7 DEF BuildSolverRequest, GreedyPlaces, Finish, Reaches, TypeInv, TypeOK, EngineTypeOK
  <2> QED
    BY <2>1 DEF WellPlanned, Excused, AllowFallback
<1> QED
  BY <1>1, <1>2, <1>3, <1>4, <1>5, <1>6, <1>7 DEF Step, SolverAnswers

LEMMA RestPlanned ==
    ASSUME TypeInv, NEW c \in Requests, WellPlanned(c),
           \/ EditSchool
           \/ Restart
           \/ (\E a \in Admins : Put(a)) /\ UNCHANGED engineVars
           \/ UNCHANGED vars
    PROVE  WellPlanned(c)'
<1>1. CASE Restart
  BY <1>1 DEF Restart, WellPlanned, Excused, AllowFallback
<1>2. CASE ~Restart
  <2>1. Same(c)
    BY <1>2 DEF EditSchool, Same, vars, engineVars, taskVars
  <2> QED
    BY <2>1, SamePlanned
<1> QED
  BY <1>1, <1>2

LEMMA PlannerStep == TypeInv /\ PlannerInv /\ [Next]_vars => PlannerInv'
<1> SUFFICES ASSUME TypeInv, PlannerInv, [Next]_vars, NEW c \in Requests PROVE WellPlanned(c)'
  BY DEF PlannerInv
<1>0. WellPlanned(c)
  BY DEF PlannerInv
<1>1. ASSUME NEW r \in Requests, Generate(r) \/ Step(r) \/ SolverAnswers(r) PROVE WellPlanned(c)'
  <2>1. CASE c = r
    BY <1>0, <1>1, <2>1, EngineChoice
  <2>2. CASE c # r
    BY <1>0, <1>1, <2>2, OthersSame, SamePlanned
  <2> QED
    BY <2>1, <2>2
<1> QED
  BY <1>0, <1>1, RestPlanned DEF Next

-----------------------------------------------------------------------------
(* The theorems *)

(***************************************************************************)
(* The settings row, the requests in flight and the stored timetable have  *)
(* the types that the handlers give them.                                  *)
(***************************************************************************)
THEOREM EngineTypes == Spec => []TypeOK
<1>1. TypeInv => TypeOK
  BY DEF TypeInv
<1> QED
  BY TypeStart, TypeStep, <1>1, PTL DEF Spec

LEMMA SettingsStep == SettingsInv /\ [Next]_vars => SettingsInv'
<1> SUFFICES ASSUME SettingsInv, [Next]_vars PROVE SettingsInv'
  OBVIOUS
<1>1. CASE \E a \in Admins : Put(a)
  BY <1>1, PutKeepsSettings
<1>2. CASE Restart
  BY <1>2, BootKeepsSettings DEF Restart
<1>3. CASE UNCHANGED settingsVars
  BY <1>3, SameSettings
<1>4. ASSUME NEW r \in Requests, Generate(r) \/ Step(r) \/ SolverAnswers(r)
      PROVE  UNCHANGED settingsVars
  BY <1>4
     DEF Generate, Step, SolverAnswers, Dispatch, BuildSolverRequest, SolverUnreachable, SolverLate,
         SolverRejects, SolverInfeasible, SolverSolves, Called, GreedyInfeasible, GreedyPlaces,
         Finish, AnswerPlan, DatabaseFails
<1> QED
  BY <1>1, <1>2, <1>3, <1>4 DEF Next, EditSchool, vars

(***************************************************************************)
(* For any number of administrators and of generations beside them, a      *)
(* setting is lost only to a PUT that had loaded the row before.           *)
(***************************************************************************)
THEOREM SettingsLostToRacers == Spec => []LostOnlyToRacer
<1>1. SettingsInv => LostOnlyToRacer
  BY DEF SettingsInv
<1> QED
  BY SettingsStart, SettingsStep, <1>1, PTL DEF Spec

(***************************************************************************)
(* The greedy engine never answers after the solver's verdict.             *)
(***************************************************************************)
THEOREM FallbackIsExcused == Spec => []FallbackOnlyWhenUnreachable
<1>1. Init => PlannerInv
  BY DEF Init, PlannerInv, WellPlanned
<1>2. PlannerInv => FallbackOnlyWhenUnreachable
  BY DEF PlannerInv, WellPlanned, Excused, FallbackOnlyWhenUnreachable
<1> QED
  BY TypeStart, TypeStep, PlannerStep, <1>1, <1>2, PTL DEF Spec
(***************************************************************************)
(* Only the commit of a generate changes the class's timetable, whatever   *)
(* the other requests, the administrators and restarts do meanwhile.       *)
(***************************************************************************)
LEMMA OnlyFinishStores ==
    ASSUME [Next]_vars, stored' # stored
    PROVE  \E r \in Requests : Finish(r)
BY DEF Next, vars, engineVars, Generate, Step, SolverAnswers, Dispatch, BuildSolverRequest,
       SolverUnreachable, SolverLate, SolverRejects, SolverInfeasible, SolverSolves, Called,
       GreedyInfeasible, GreedyPlaces, AnswerPlan, DatabaseFails, EditSchool, Restart

THEOREM ReplacedOnCommit == Spec => ReplacedOnSuccessOnly
<1> DEFINE Commits ==
        stored' # stored =>
            \E r \in Requests :
                /\ persist[r] /\ gpc[r] = "persist" /\ gpc'[r] = "respond"
                /\ called[r] # "rejected" => stored' = Sessions(problem[r])
<1>1. TypeInv /\ [Next]_vars => Commits
  <2> SUFFICES ASSUME TypeInv, [Next]_vars, stored' # stored PROVE Commits
    OBVIOUS
  <2>1. PICK r \in Requests : Finish(r)
    BY OnlyFinishStores
  <2>2. persist[r] /\ gpc[r] = "persist" /\ stored' = Planned(r)
    BY <2>1 DEF Finish
  <2>3. gpc'[r] = "respond"
    BY <2>1 DEF Finish, Reaches, TypeInv, TypeOK, EngineTypeOK
  <2> QED
    BY <2>2, <2>3 DEF Planned
<1>2. TypeInv /\ [Next]_vars => [Commits]_vars
  BY <1>1
<1> QED
  BY TypeStart, TypeStep, <1>2, PTL DEF Spec, ReplacedOnSuccessOnly
-----------------------------------------------------------------------------
(* The refinement *)

Tasks == [r \in Requests |-> Task(r)]
Replies == [r \in Requests |-> Reply(r)]

LEMMA TaskValues ==
    ASSUME TypeInv, NEW r \in Requests
    PROVE  /\ Tasks[r] = Task(r) /\ Replies[r] = Reply(r)
           /\ gpc[r] = "idle" => Task(r) = "none"
           /\ gpc[r] = "respond" => Task(r) = "finished"
           /\ gpc[r] \in {"dispatch", "build", "call", "greedy", "persist"} =>
                 Task(r) = (IF persist[r] THEN "generate" ELSE "preview")
BY DEF Tasks, Replies, Task

(* A step that leaves the other requests alone moves one task and one reply. *)
LEMMA OneMoves ==
    ASSUME NEW r \in Requests, \A c \in Requests \ {r} : Same(c)
    PROVE  /\ Tasks' = [Tasks EXCEPT ![r] = Task(r)']
           /\ Replies' = [Replies EXCEPT ![r] = Reply(r)']
<1>1. \A c \in Requests \ {r} : Task(c)' = Task(c) /\ Reply(c)' = Reply(c)
  BY DEF Same, Task, Reply
<1> QED
  BY <1>1 DEF Tasks, Replies

LEMMA GenerateAsks ==
    ASSUME TypeInv, NEW r \in Requests, Generate(r)
    PROVE  Service!Ask(r)
<1>1. /\ gpc[r] = "idle" /\ gpc'[r] = "dispatch" /\ answer'[r] = None
      /\ UNCHANGED stored
  BY DEF Generate, TypeInv, TypeOK, EngineTypeOK
<1>2. Task(r)' \in {"generate", "preview"} /\ Reply(r)' = "none"
  BY <1>1 DEF Task, Reply
<1>3. /\ Tasks' = [Tasks EXCEPT ![r] = Task(r)']
      /\ Replies' = [Replies EXCEPT ![r] = Reply(r)']
  BY OthersSame, OneMoves
<1> QED
  BY <1>1, <1>2, <1>3, TaskValues DEF Service!Ask, Tasks, Replies

(* An error is answered while the generation has not been finished. *)
LEMMA ErrorFails ==
    ASSUME TypeInv, NEW r \in Requests,
           gpc[r] \in {"dispatch", "build", "call", "greedy", "persist"},
           \A c \in Requests \ {r} : Same(c),
           NEW code \in {422, 500}, NEW eng \in {None, "solver", "greedy"},
           Respond(r, code, eng), UNCHANGED stored
    PROVE  Service!Fail(r)
<1>1. gpc'[r] = "idle" /\ answer'[r] = [code |-> code, engine |-> eng]
  BY DEF Respond, TypeInv, TypeOK, EngineTypeOK
<1>2. answer'[r] # None /\ answer'[r].code # 200
  BY <1>1, EngineAssumption
<1>3. Task(r)' = "none" /\ Reply(r)' = "error"
  BY <1>1, <1>2 DEF Task, Reply
<1>4. Task(r) \in {"generate", "preview"}
  BY TaskValues
<1>5. /\ Tasks' = [Tasks EXCEPT ![r] = "none"]
      /\ Replies' = [Replies EXCEPT ![r] = "error"]
  BY <1>3, OneMoves
<1>6. Tasks[r] \in {"generate", "preview"}
  BY <1>4, TaskValues
<1> QED
  BY <1>5, <1>6 DEF Service!Fail, Tasks, Replies

(* A step from one working state to another is a stutter for the client. *)
LEMMA WorkStutters ==
    ASSUME TypeInv, NEW r \in Requests,
           gpc[r] \in {"dispatch", "build", "call", "greedy", "persist"},
           gpc'[r] \in {"dispatch", "build", "call", "greedy", "persist"},
           \A c \in Requests \ {r} : Same(c),
           persist'[r] = persist[r], answer'[r] = answer[r], UNCHANGED stored
    PROVE  UNCHANGED Service!vars
<1>1. Task(r)' = Task(r) /\ Reply(r)' = Reply(r)
  BY DEF Task, Reply
<1>2. Tasks' = [Tasks EXCEPT ![r] = Tasks[r]] /\ Replies' = [Replies EXCEPT ![r] = Replies[r]]
  BY <1>1, OneMoves, TaskValues
<1>3. Tasks' = Tasks /\ Replies' = Replies
  BY <1>2 DEF Tasks, Replies
<1> QED
  BY <1>3 DEF Service!vars, Tasks, Replies

LEMMA GoToStutters ==
    ASSUME TypeInv, NEW r \in Requests, \A c \in Requests \ {r} : Same(c),
           gpc[r] \in {"dispatch", "build", "call", "greedy", "persist"},
           NEW next \in {"build", "call", "greedy", "persist"}, GoTo(r, next), UNCHANGED stored
    PROVE  UNCHANGED Service!vars
<1>1. gpc'[r] = next /\ persist'[r] = persist[r] /\ answer'[r] = answer[r]
  BY DEF GoTo, Reaches, taskVars, TypeInv, TypeOK, EngineTypeOK
<1> QED
  BY <1>1, WorkStutters

LEMMA FinishFinishes ==
    ASSUME TypeInv, PlannerInv, NEW r \in Requests, Finish(r)
    PROVE  Service!Finish(r)
<1>1. gpc[r] = "persist" /\ gpc'[r] = "respond" /\ answer'[r] = answer[r]
  BY DEF Finish, Reaches, TypeInv, TypeOK, EngineTypeOK
<1>2. Task(r)' = "finished" /\ Reply(r)' = Reply(r)
  BY <1>1 DEF Task, Reply
<1>3. stored' \in Nat /\ (~persist[r] => stored' = stored)
  BY PlannedType DEF Finish, TypeInv, TypeOK, EngineTypeOK
<1>4. /\ Tasks' = [Tasks EXCEPT ![r] = "finished"]
      /\ Replies' = [Replies EXCEPT ![r] = Replies[r]]
  BY <1>2, OthersSame, OneMoves, TaskValues DEF Step
<1>5. Replies' = Replies
  BY <1>4 DEF Replies
<1>6. Tasks[r] = IF persist[r] THEN "generate" ELSE "preview"
  BY <1>1, TaskValues
<1> QED
  BY <1>3, <1>4, <1>5, <1>6 DEF Service!Finish, Tasks, Replies

LEMMA AnswerSucceeds ==
    ASSUME TypeInv, NEW r \in Requests, AnswerPlan(r)
    PROVE  Service!Succeed(r)
<1>1. /\ gpc[r] = "respond" /\ gpc'[r] = "idle" /\ UNCHANGED stored
      /\ answer'[r] = [code |-> 200, engine |-> Planner(r)]
  BY DEF AnswerPlan, Respond, TypeInv, TypeOK, EngineTypeOK
<1>2. answer'[r] # None /\ answer'[r].code = 200
  BY <1>1, EngineAssumption DEF Planner
<1>3. Task(r)' = "none" /\ Reply(r)' = "ok"
  BY <1>1, <1>2 DEF Task, Reply
<1>4. /\ Tasks' = [Tasks EXCEPT ![r] = "none"]
      /\ Replies' = [Replies EXCEPT ![r] = "ok"]
  BY <1>3, OthersSame, OneMoves DEF Step
<1> QED
  BY <1>1, <1>4, TaskValues DEF Service!Succeed, Tasks, Replies

LEMMA CallServes ==
    ASSUME TypeInv, NEW r \in Requests, SolverUnreachable(r) \/ SolverAnswers(r)
    PROVE  Service!Fail(r) \/ UNCHANGED Service!vars
<1>1. gpc[r] = "call" /\ UNCHANGED stored
  BY DEF SolverUnreachable, SolverAnswers, SolverLate, SolverRejects, SolverInfeasible,
         SolverSolves, InTime, Called
<1>2. \A c \in Requests \ {r} : Same(c)
  BY OthersSame DEF Step
<1>3. CASE GoTo(r, "persist") \/ GoTo(r, "greedy")
  BY <1>1, <1>2, <1>3, GoToStutters
<1>4. CASE Respond(r, 500, None) \/ Respond(r, 422, "solver")
  BY <1>1, <1>2, <1>4, ErrorFails
<1> QED
  BY <1>3, <1>4
     DEF SolverUnreachable, SolverAnswers, SolverLate, SolverRejects, SolverInfeasible,
         SolverSolves, AfterUnreachable

LEMMA StepServes ==
    ASSUME TypeInv, PlannerInv, NEW r \in Requests, Step(r)
    PROVE  \/ Service!Finish(r) \/ Service!Succeed(r) \/ Service!Fail(r)
           \/ UNCHANGED Service!vars
<1>1. \A c \in Requests \ {r} : Same(c)
  BY OthersSame
<1>2. CASE Dispatch(r)
  <2>1. gpc[r] = "dispatch" /\ UNCHANGED stored
    BY <1>2 DEF Dispatch
  <2>2. CASE GoTo(r, "build") \/ GoTo(r, "greedy")
    BY <1>1, <2>1, <2>2, GoToStutters
  <2>3. CASE Respond(r, 500, None)
    BY <1>1, <2>1, <2>3, ErrorFails
  <2> QED
    BY <1>2, <2>2, <2>3 DEF Dispatch
<1>3. CASE BuildSolverRequest(r) \/ GreedyPlaces(r)
  <2>1. /\ gpc[r] \in {"build", "greedy"} /\ gpc'[r] \in {"call", "persist"}
        /\ persist'[r] = persist[r] /\ answer'[r] = answer[r] /\ UNCHANGED stored
    BY <1>3 DEF BuildSolverRequest, GreedyPlaces, Reaches, TypeInv, TypeOK, EngineTypeOK
  <2> QED
    BY <1>1, <2>1, WorkStutters
<1>4. CASE SolverUnreachable(r)
  BY <1>4, CallServes
<1>5. CASE GreedyInfeasible(r)
  BY <1>1, <1>5, ErrorFails DEF GreedyInfeasible
<1>6. CASE DatabaseFails(r)
  BY <1>1, <1>6, ErrorFails DEF DatabaseFails, InStatement
<1>7. CASE Finish(r)
  BY <1>7, FinishFinishes
<1>8. CASE AnswerPlan(r)
  BY <1>8, AnswerSucceeds
<1> QED
  BY <1>2, <1>3, <1>4, <1>5, <1>6, <1>7, <1>8 DEF Step

LEMMA RestServes ==
    ASSUME TypeInv,
           \/ EditSchool
           \/ Restart
           \/ (\E a \in Admins : Put(a)) /\ UNCHANGED engineVars
           \/ UNCHANGED vars
    PROVE  Service!Restart \/ UNCHANGED Service!vars
<1>1. CASE Restart
  <2>1. \A r \in Requests : Task(r)' = "none" /\ Reply(r)' = Reply(r)
    BY <1>1 DEF Restart, Task, Reply
  <2>2. Tasks' = [r \in Requests |-> "none"] /\ Replies' = Replies /\ UNCHANGED stored
    BY <1>1, <2>1 DEF Restart, Tasks, Replies
  <2> QED
    BY <2>2 DEF Service!Restart, Tasks, Replies
<1>2. CASE ~Restart
  <2>1. UNCHANGED <<gpc, persist, answer, stored>>
    BY <1>2 DEF EditSchool, vars, engineVars, taskVars
  <2>2. Tasks' = Tasks /\ Replies' = Replies
    BY <2>1 DEF Tasks, Replies, Task, Reply
  <2> QED
    BY <2>1, <2>2 DEF Service!vars, Tasks, Replies
<1> QED
  BY <1>1, <1>2

(***************************************************************************)
(* For every number of requests: whoever plans, whatever fails and whoever *)
(* edits the settings meanwhile, the clients see atomic replacement and    *)
(* errors without effect.                                                  *)
(***************************************************************************)
THEOREM EngineImplementsService == Spec => ImplementsGenerationService
<1>1. Init => Service!Init
  BY DEF Init, Service!Init, Task, Reply
<1>2. TypeInv /\ PlannerInv /\ [Next]_vars => [Service!Next]_(Service!vars)
  <2> SUFFICES ASSUME TypeInv, PlannerInv, [Next]_vars
               PROVE  Service!Next \/ UNCHANGED Service!vars
    OBVIOUS
  <2>1. ASSUME NEW r \in Requests, Generate(r) \/ Step(r) \/ SolverAnswers(r)
        PROVE  Service!Next \/ UNCHANGED Service!vars
    BY <2>1, GenerateAsks, StepServes, CallServes DEF Service!Next
  <2> QED
    BY <2>1, RestServes DEF Next, Service!Next
<1>3. Init => PlannerInv
  BY DEF Init, PlannerInv, WellPlanned
<1> QED
  BY TypeStart, TypeStep, PlannerStep, <1>1, <1>2, <1>3, PTL
     DEF Spec, ImplementsGenerationService, Service!Spec
=============================================================================
