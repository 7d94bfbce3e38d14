------------------------- MODULE GenerationSettings -------------------------
(***************************************************************************)
(* The single row of generation_settings and the PUTs of administrators    *)
(* (internal/controllers/generation_settings.go, internal/repositories/    *)
(* generation_settings.go).  A PUT loads the row, merges the fields its    *)
(* body gives and writes the whole row back; the load, the look for the    *)
(* row and the write are three statements.  The weights are written the    *)
(* way the time budget is and have no field of their own here.             *)
(***************************************************************************)
EXTENDS Integers, FiniteSets

CONSTANTS
    Admins,     \* the PUTs that can be in flight at the same time
    NoRow,      \* the table is empty (a fresh deployment)
    Omitted,    \* a field the body leaves out (a nil pointer)
    Budgets,    \* the values of time_budget_sec that clients send
    MaxPuts,    \* bound: PUTs that get past the validation
    MaxBoots    \* bound: restarts of the server

Engines == {"auto", "solver", "greedy"}
Fields == {"engine", "budget"}
DefaultGenerationSettings == [engine |-> "auto", budget |-> 30]
Settings == [engine: Engines, budget: Budgets \cup {30}]

ASSUME SettingsAssumption ==
    /\ NoRow \notin Settings
    /\ Budgets \subseteq Int
    /\ Omitted \notin Engines /\ Omitted \notin Budgets
    /\ MaxPuts \in Nat /\ MaxBoots \in Nat

VARIABLES
    row,       \* the row, or NoRow
    solverURL, \* whether SOLVER_URL is set, fixed when the server starts
    spc,       \* per PUT, the statement it executes next
    draft,     \* per PUT, the settings it has merged
    given,     \* per PUT, the fields its body gives
    puts,      \* PUTs so far, for MaxPuts
    boots,     \* restarts so far, for MaxBoots
    wanted,    \* history: per field, the value last given by a PUT that was stored
    behind,    \* history: per PUT, fields others have set since it loaded the row
    clobbered  \* history: fields overwritten by a PUT that was behind and did not give them

settingsVars ==
    <<row, solverURL, spc, draft, given, puts, boots, wanted, behind, clobbered>>

SettingsTypeOK ==
    /\ row \in Settings \cup {NoRow}
    /\ solverURL \in BOOLEAN
    /\ spc \in [Admins -> {"idle", "first", "create", "update"}]
    /\ draft \in [Admins -> Settings]
    /\ given \in [Admins -> SUBSET Fields]
    /\ puts \in Nat /\ boots \in Nat
    /\ wanted \in Settings
    /\ behind \in [Admins -> SUBSET Fields]
    /\ clobbered \in SUBSET Fields

-----------------------------------------------------------------------------
(* What Get returns: the row, or the defaults when there is none yet. *)
Current == IF row = NoRow THEN DefaultGenerationSettings ELSE row

(* Mutant of Merged: a field the body leaves out gets its default. *)
Merged_Default(f, value) == IF value = Omitted THEN DefaultGenerationSettings[f] ELSE value

(* Mutant of Merged: a field the body leaves out is stored as nil. *)
Merged_TakesNil(f, value) == value

(* A field after a PUT that may have left it out. *)
Merged(f, value) == IF value = Omitted THEN Current[f] ELSE value

(* PUT: the body is bound and checked, and merged into the loaded row. *)
LoadAndMerge(a) ==
    /\ spc[a] = "idle"
    /\ puts < MaxPuts
    /\ \E e \in Engines \cup {Omitted}, b \in Budgets \cup {Omitted} :
          /\ e = "solver" => solverURL
          /\ draft' = [draft EXCEPT ![a] =
                [engine |-> Merged("engine", e), budget |-> Merged("budget", b)]]
          /\ given' = [given EXCEPT ![a] =
                {f \in Fields : (IF f = "engine" THEN e ELSE b) # Omitted}]
    /\ spc' = [spc EXCEPT ![a] = "first"]
    /\ puts' = puts + 1
    /\ UNCHANGED <<row, solverURL, boots, wanted, behind, clobbered>>

(* Upsert: tx.First decides between an INSERT and an UPDATE. *)
UpsertFirst(a) ==
    /\ spc[a] = "first"
    /\ spc' = [spc EXCEPT ![a] = IF row = NoRow THEN "create" ELSE "update"]
    /\ UNCHANGED <<row, solverURL, draft, given, puts, boots, wanted, behind, clobbered>>

(* The request is answered: with the row, loaded once more, or with an error. *)
AnswerPut(a) ==
    /\ spc' = [spc EXCEPT ![a] = "idle"]
    /\ draft' = [draft EXCEPT ![a] = DefaultGenerationSettings]
    /\ given' = [given EXCEPT ![a] = {}]

(* The write commits: every field of the row is that of the draft. *)
Store(a) ==
    /\ row' = draft[a]
    /\ wanted' = [f \in Fields |-> IF f \in given[a] THEN draft[a][f] ELSE wanted[f]]
    /\ clobbered' = (clobbered \cup behind[a]) \ given[a]
    /\ behind' = [b \in Admins |-> IF b = a \/ spc[b] = "idle" THEN {} ELSE behind[b] \cup given[a]]
    /\ AnswerPut(a)
    /\ UNCHANGED <<solverURL, puts, boots>>

(* Upsert: tx.Create.  The primary key admits one row. *)
UpsertCreate(a) ==
    /\ spc[a] = "create"
    /\ row = NoRow
    /\ Store(a)

(* Upsert: Updates of the row that First found. *)
UpsertUpdate(a) ==
    /\ spc[a] = "update"
    /\ Store(a)

(* A statement fails, an INSERT where there is a row by now among them: 500. *)
PutFails(a) ==
    /\ spc[a] # "idle"
    /\ AnswerPut(a)
    /\ behind' = [behind EXCEPT ![a] = {}]
    /\ UNCHANGED <<row, solverURL, puts, boots, wanted, clobbered>>

(* The server stops, its requests with it, and starts with its environment. *)
Boot ==
    /\ boots < MaxBoots
    /\ boots' = boots + 1
    /\ solverURL' \in BOOLEAN
    /\ spc' = [a \in Admins |-> "idle"]
    /\ draft' = [a \in Admins |-> DefaultGenerationSettings]
    /\ given' = [a \in Admins |-> {}]
    /\ behind' = [a \in Admins |-> {}]
    /\ UNCHANGED <<row, puts, wanted, clobbered>>

-----------------------------------------------------------------------------
SettingsInit ==
    /\ row = NoRow
    /\ solverURL \in BOOLEAN
    /\ spc = [a \in Admins |-> "idle"]
    /\ draft = [a \in Admins |-> DefaultGenerationSettings]
    /\ given = [a \in Admins |-> {}]
    /\ puts = 0 /\ boots = 0
    /\ wanted = DefaultGenerationSettings
    /\ behind = [a \in Admins |-> {}]
    /\ clobbered = {}

Put(a) ==
    \/ LoadAndMerge(a)
    \/ UpsertFirst(a)
    \/ UpsertCreate(a)
    \/ UpsertUpdate(a)
    \/ PutFails(a)

-----------------------------------------------------------------------------
(* Properties *)

(***************************************************************************)
(* A setting differs from the value an administrator last stored for it    *)
(* only when a PUT that did not give it had loaded the row before that     *)
(* value was stored: neither a first PUT that fails, nor a restart between *)
(* two statements, nor a PUT that runs alone loses a setting.              *)
(***************************************************************************)
LostOnlyToRacer == \A f \in Fields : Current[f] # wanted[f] => f \in clobbered
=============================================================================
