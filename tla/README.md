# A TLA+ model of the Sacas backend

Sacas is the scheduling backend of a college: a Go server (gin, gorm) over
PostgreSQL and Redis, and a small Python service that searches timetables with
CP-SAT. This directory holds its formal model: TLA+ modules translated from the
source, TLC configurations that check them on small instances, and theorems that
TLAPS proves for every instance. Paths below are relative to the repository.

    tlc -config BookingRequests.cfg MCTimetableBooking     # one run
    tlapm TimetableBooking_proofs.tla                      # one proof module

## 1. The system

| part | state | operations | talks to |
|---|---|---|---|
| Timetable bookings (`controllers/timetable.go`, `repositories/timetable.go`) | table `timetables` | create, update, delete, replace a class's entries, reads | generation, staff |
| Generation (`services/timetable.go`) | none of its own; a plan in memory | greedy planning, dispatch to the solver, persist or preview | settings, solver, bookings |
| Solver client and service (`services/solverclient.go`, `solver-service/app`) | none | one HTTP call; CP-SAT search under a time budget | generation |
| Generation settings (`controllers/`, `repositories/generation_settings.go`) | one row | GET, PUT | generation reads it twice per run |
| One-time codes (`controllers/auth.go`, `otp.go`, `services/otp_guard.go`) | Redis: a code with a lifetime, an attempt counter with a lifetime | issue, verify, lock out | accounts, notifications |
| Accounts (`controllers/auth.go`, `user.go`, `repositories/user.go`) | table `users` | register, login, verify, reset and change password, profile, update, delete | codes, staff, every request's middleware |
| Staff (`controllers/staff.go`, `repositories/staff.go`) | table `staffs`, `staff_modules` | create, update, delete, link to an account, assign modules | accounts, generation |
| Start (`app/app.go`, `database/migrations.go`) | schema, indexes | migrate, backfill staff links, first super administrator, demo data | all tables |
| Catalogue: faculties, courses, modules, classes, rooms, subjects (`controllers/`, `repositories/`, `models/` of each) | a table each, `staff_modules` | create, update, delete, list, assign modules | generation reads all of it |
| Authentication (`middlewares/auth.go`, `controllers/auth.go`) | none on the server: the role is in the signed token | sign at a login, check at every protected route | accounts |
| Rate limit and CSRF (`middlewares/ratelimit.go`, `csrf.go`) | Redis: a counter per client and minute, a key per token | admit or refuse a request, issue a token | every route; browsers hold the other half of a token |
| CORS, validation (`middlewares/cors.go`, `validation.go`) | none | admit or refuse a request | every route |
| Notifications, logger, configuration, metrics | none that is read back | output | |

How they interact: every HTTP request runs in its own goroutine and works
through a sequence of statements, each committed by itself. There are two
transactions in the code (`ReplaceClassTimetable`, the settings `Upsert`), both
at READ COMMITTED, and no locks. The parts meet in the database and in Redis,
so what is hard is what happens between two statements of one request:

* **check, then write**: conflict check and insert of a booking, check and store
  of a staff link, the look for the settings row and its insert, the attempt
  counter and the comparison of a code;
* **read, then write back the row**: gorm's `Save` writes every column of the
  struct that was loaded. When the row is soft-deleted meanwhile, its UPDATE
  finds nothing and `Save` inserts the row again, live. When associations were
  preloaded, `Save` copies their keys over the foreign keys of the struct;
* **plan for seconds, then commit**: a generation reads teachers, rooms and
  entries while others write them, then replaces the entries of its class;
* **another process**: the solver dies, is late, refuses the body or answers
  that there is no timetable, and each must be treated differently;
* **a token outlives what it says**: the role in a JWT stays for 24 hours, a CSRF
  token must match a cookie that another tab may have replaced;
* **crash and restart**: between two Redis commands, between two statements, and
  before the backfill and the bootstrap that every start runs.

What makes each part correct:

* bookings: no class, teacher or room twice at a time; a generation leaves its
  own entries for the class and nothing old; a teacher's hours stay in the limit;
  every request is answered;
* generation: greedy only when it may stand in; the stored timetable changes only
  with a 200, and completely;
* settings: a PUT changes what it gives and nothing else;
* codes: a bounded number of guesses, one use, a lockout that ends;
* accounts: no write takes back another one's change, unless it overtook it;
* administrators: `super_admin` is given and taken by super administrators only, a
  lost role ends to work within a day, and the system is not left without a super
  administrator unnoticed;
* staff: one live record per account; the start of the server adds links and
  changes none, and succeeds;
* catalogue: a row is what was last asked for; a generated timetable has the
  curriculum of its class and names rows that were there;
* gate: no more than the limit gets through in a minute, nobody is refused for
  another minute's requests, and a token is good until its time is over.

## 2. The modules

| module | models | variables that stand for code state |
|---|---|---|
| `TimeSlots` | interval geometry: the WHERE clause of `CheckConflicts`, `hasTimeOverlap` | none |
| `TimetableBooking` | the table and all requests that write it | `rows`, `nextId`; per request `pc`, `plan`, `cls`, `seed`, `replaces` |
| `ConflictFreeTimetable` | the abstract promise: a table that is never double-booked | `rows` |
| `TimetableBooking_proofs` | theorems | |
| `GenerationSettings` | the settings row and its PUTs | `row`, `solverURL`; per PUT `spc`, `draft`, `given` |
| `GenerationEngine` | dispatch, call, fallback, persist; **composes** `GenerationSettings` (EXTENDS it and interleaves its actions) | `school`, `stored`; per request `gpc`, `engine`, `problem`, `budget`, `called`, `answer` |
| `GenerationService` | the abstract promise of POST /generate and /generate/preview | `timetable`, `task`, `reply` |
| `GenerationEngine_proofs` | theorems, for the settings too | |
| `OtpVerification` | code and counter in Redis, one command per step | `otp`, `otpTTL`, `attempts`, `attemptsTTL`; per request `pc`, `guess`, `ttl` |
| `OtpVerification_proofs` | theorems | |
| `UserAccounts` | one account row and the requests that write it | `user`; per request `pc`, `draft`, `gives`, `actor` |
| `UserAccounts_proofs` | theorems | |
| `Administrators` | the accounts together, tokens and their roles, stop, start and bootstrap | `accounts`, `tokens`, `server`; per request `pc`, `actor`, `target`, `draft` |
| `Administrators_proofs` | theorems | |
| `StaffDirectory` | staff rows, accounts, links, stop and start | `staff`, `users`, `server`; per request `pc`, `draft`, `target` |
| `StaffDirectory_proofs` | theorems | |
| `Catalogue` | the seven tables with their foreign keys, the links of teachers to modules, and the generation that reads them | `db`, `links`, `timetable`; per PUT `epc`, `edit`; per generation `gpc`, `reading`, `plan` |
| `Catalogue_proofs` | theorems | |
| `RequestGate` | rate limit and CSRF check before the handlers, browsers and Redis | `config`, `minute`, `counters`, `tokens`; per browser `cookie`; per tab `held`, `pc`, `req` |
| `RequestGate_proofs` | theorems | |
| `MC*` | constants for TLC, nothing else | |

In each of them a request is a program counter and the local variables that
its handler carries from one statement to the next; an action is the code from
one database, Redis or HTTP call to the next. Refused requests, reads and
previews of bookings change nothing and are stuttering steps. `PROJECT.json`
maps every definition to its lines. Definitions named `X_Something` after a
definition `X` are faulty variants of `X`: each property is shown to fail for
one of them, so that none holds by accident.

### TimetableBooking

`CreateTimetable` (bind, check, `CheckConflicts`) and `Insert` are a POST;
`UpdateTimetable` (`GetByID`, merge), `ValidateUpdate` (check without the row
itself) and `Save` are a PUT; `DeleteTimetable` is one soft delete.
`GenerateGreedy` reads the teachers' hours, `ScheduleSession` places one session
at the first placement that fits, `Infeasible` gives up, `BeginReplace` is the
DELETE of `ReplaceClassTimetable` and `ReplaceClassTimetable` its inserts and
commit. `GenerateWithSolver` takes any answer that satisfies the hard constraints
of `solver.py` for the class alone, because the request holds no other class.

Two pieces of library behaviour are modelled by what they do. READ COMMITTED: the
DELETE fixes the rows that it can see; rows that join the class afterwards stay,
and rows deleted by another transaction are skipped. gorm's `Save`: `Reattach`
puts the class, teacher and room of the loaded associations back over the new
ones, so a PUT has two entries in its plan, the one it checks and the one it
stores; an association whose own row is gone is not loaded and keeps its new key.

`missed` and `blind` are history variables: the rows written since a request
looked at the table, and for each row what its writer had missed.

### GenerationSettings and GenerationEngine

A PUT is load-and-merge, the `First` of `Upsert`, then INSERT or UPDATE, then the
answer. The engine reads the row in `Dispatch` and again in
`BuildSolverRequest`. The call ends in one of five ways: unreachable (no
connection, 5xx, no JSON), late (the client's own timeout), rejected (422 from the
service's validation, because a nil Go slice is sent as `null`), infeasible,
solved. A timetable is only its number of sessions here.

### OtpVerification

One address, one purpose. Each Redis command of the three verifying handlers is
an action, with the fault (`CommandFails`), the restart (`Crash`) and the passage
of time (`Tick`) between any two. `AfterFault` says where the handler goes on
when it drops an error. The three handlers differ in what they do after the
comparison; `Accept`, `AcceptFails` and `CommandFails` cover all of them.

A counter is given what `TTL` says of the code, and Redis says it in whole seconds,
the nearest ones: `Rounded`. So a counter may end up to half a second before the code it
counts for; and in the last half second of a code, when the answer is 0, `RemainingTTL`
takes the lifetime of a new code instead. A second has three ticks in the run, in which
an answer can be rounded up, rounded down, and be 0.

### UserAccounts, Administrators and StaffDirectory

`Read` is the SELECT of a handler and the changes it makes to the loaded struct,
`Save` and `WriteColumn` are the two forms of its write. `StaffDirectory` has the
same shape for staff records, and the unique indexes as predicates on the table
after a write: the one on `user_id` counts deleted rows, the one on the e-mail
address does not. The check of a link reads the account and then the records: an
error of the second read is taken for "no record" (`Lookups`), and the two reads are one
step, because an account deleted between them is as good as deleted after them.
`Start` is the migration and backfill of a boot, `"failed"` a boot that ends in an
error.

`UserAccounts` looks at one row and all its writers; `Administrators` at all rows
and all writers of whole rows. There `Login` and `Sign` are the read of
the account and its last statement with the token that it signs, `Authenticate` is
`JWTAuthMiddleware` and `ActiveUserMiddleware`, `AdminOnly` the `AdminMiddleware` after
them. `UpdateUser`, `DeleteUser`, `GetProfile` and `VerifyEmail` are handlers up to
their last statement, `Save` and `Delete` that statement; `CreateUser` and `Register`
insert. `GetProfile` and `VerifyEmail` are here because they write back the role they
have read, whatever it is by then. `Refuse` is every early return, `Tick` the clock
by which tokens end (`Aged`), `Stop` and `Boot` a restart with
`BootstrapSuperAdmin`, which may end in an error before or after it has created the
account. `raced` is a history variable: the target of a request was
written after the request had read it. `since` remembers how long ago an account
had each role.

### Catalogue

`Create`, `Load` and `Save`, and `Delete` are what the seven controllers have in
common; an action for each table says which foreign key it has and what a body
may give. Of a row only `live`, its foreign key and (for modules) the type are
kept: nothing else decides what another row or a generation does. `Preloads` and
`Saved` are gorm: `GetByID` preloads the row behind the foreign key when it is
live, and `Save` then writes the key of the preloaded row over the one that the
body has given; when the row was deleted meanwhile, it is inserted again, live.
The constraint on a foreign key knows deleted rows as well (`Keys`).

A generation is `ReadClass`, `ReadCourseModules`, `ReadGeneralModules` (whose error
is dropped), `ReadSubjects`, one `ScheduleSession` after the other, and
`ReplaceClassTimetable`. When and where a session takes place is the subject of
`TimetableBooking`; here it matters which rows it names. `asked`, `excused`,
`behind`, `touched` and `unseen` are history variables for the properties.

### RequestGate

One client address with two tabs, which share the cookie and not the header.
`IssueCSRFToken` is a GET, `Receive` the arrival of its response, `Post` a mutating
request, `CSRFMiddleware` the check, `ReadClock`, `Incr` or `IncrFails`, and `Expire`
the rate limiter, which names its key before it sends the INCR. A Redis command may
fail, executed or not, and go-redis may send an INCR up to four times (`Fault`, `Tries`:
its default of three retries), any number of which Redis may execute; `Breaks` is a
connection or a process that ends, `Forget` a Redis that is restarted (compose
gives it no volume). `config` is the environment: production, Redis reachable, CSRF
and limit switched on.

## 3. The runs

| run | result | what it shows |
|---|---|---|
| `booking_requests` | pass, 1.4 M states | two requests at a time, four in all, every kind of write: `ClashOnlyWhenUnseen` (a double booking needs a row its writer had missed), `PlansClear` and `PlansSpread` (a checked plan stays good until somebody else writes), `ClassRowsAccounted`, `ReplaceLeavesOnlyMissed` (no old entry survives a generation), `HoursKept` (the hour limit holds when nobody wrote meanwhile) |
| `booking_serial` | pass, 23 k | one request at a time, greedy engine, updates in time only: `NoDoubleBooking`, the refinement `ImplementsConflictFreeTimetable`, and `EveryRequestAnswered` |
| `booking_solver_alone` | violation | one request at a time: a solver timetable books a teacher whom another class has at that hour |
| `engine_dispatch` | pass, 0.59 M | settings, tables and environment change, administrators' PUTs race and servers restart, while the solver fails in every way: `FallbackOnlyWhenUnreachable`, `ReplacedOnSuccessOnly`, `LostOnlyToRacer` (a setting is lost only to a PUT that had loaded the row before), the refinement `ImplementsGenerationService`, `EveryGenerationAnswered` |
| `engine_refused_body` | violation | a refused body is taken for an empty timetable, stored, and answered with 200 |
| `otp_verification` | pass, 7.8 M | two verifications, two codes, a fault or a restart: `GuessesBounded` (a bound for each counter that a code has had: one, and in its last half second perhaps a second one), `CounterCoversCode` (the counter misses at most the last half second), `UsesBounded`, `LockoutEnds` |
| `accounts_race` | pass, 0.49 M | two requests at a time on one account, four in all: `ChangesLostOnlyToRacer` |
| `staff_links` | pass, 1.6 M | two staff requests, a lookup that may fail, accounts that come and go, restarts: `OneStaffPerUser`, `LinkFreeUnlessRaced`, `StartOnlyAddsLinks` |
| `staff_start` | violation | the backfill meets an account that another record has; the index refuses it and the server does not start, now or later |
| `catalogue` | pass, 0.55 M | two requests about any table beside a generation: `StoredAsAsked` (a row is what the answered requests asked for), `CurriculumStored` (a timetable has each module and subject that it should, once), `EntriesStand` (and names only what was there) |
| `administrators` | pass, 1.6 M | two whole-row saves or deletes of accounts at a time, changes of roles, restarts: `RoleHeldRecently`, `SuperAdminsByPeers`, `RacesOnlyRestore` (a write that overtook another can make nobody a super administrator but one who just was), `LastSuperAdmin` (every way in which the last one can be lost) |
| `request_gate` | pass, 3.7 M | two tabs, three minutes, five environments, a fault and a Redis that forgets: `MinuteHolds`, `LimitedForThatMinute`, `TokenStaysGood` |

The passing runs state exactly how far the code's promise goes: the promise holds
except for the writer who could not see, and the exception is part of the
property. Each violating run checks a sentence of the repository's own documents
or comments; the `findings` of `PROJECT.json` quote it.

**Bounds.** Two requests in flight are enough for every pairwise race, and the
properties relate pairs (two rows, a plan and a row, a request and its racer). Four
requests in `booking_requests` let a row be created, moved or deleted and
recreated beside a generation. Two classes, teachers and rooms on one day are the
least that tell the three resources apart; hours 8 to 10 give equal, nested,
adjacent and empty intervals. Other days never conflict. In `engine_dispatch` two
PUTs and one restart surround one generation, which is what a race for the row and
a change between its two reads take; the
schools are those whose request bodies differ in null lists, and the solve times
are one below and one above both the client's timeout and the budget.
`otp_verification` has two codes because the counter outlives the code it was
begun for, and one fault or restart because each property counts them. A code lives
two seconds of three ticks, so that a counter can be rounded to more and to less than
what is left, or be given the lifetime of a new code. `Cap` lies above every
bound a property compares with. `View` leaves out of the comparison of states the guess and
the lifetime of a request that has used them: no later step reads them before it
writes them, and no property mentions them. In `staff_links` two records and two
accounts make every clash of links; `staff_start` needs a third record. `catalogue`
starts from two schools, one with a class and all that its timetable needs, one
with two faculties that only foreign keys care about; two edits are a load and the
write that overtakes it, or a write on either side of a read of the one
generation. `administrators` starts empty, with two super administrators, or with one and an
administrator, each with a token. Three requests are enough for two to delete each other,
for a role to change under a login, and for the profile of an administrator to be read
before a promotion and saved after the only other super administrator is gone; three
accounts leave room for one that is created; a token lives one tick,
so that it can be signed, grow old and end. `request_gate` lets a client through
twice a minute and post three times, so that the third is refused; a token lives two of the three minutes,
and one fault and one loss of Redis are enough because each property excuses or
withstands a single one. MaxRequests, MaxPuts, MaxBoots, MaxGenerations, MaxCodes,
MaxFaults, MaxStaff, MaxUsers, MaxEdits, MaxAccounts, MaxMinutes, MaxTokens and
MaxHits only bound the length of histories. Where requests run out and the system
stops, the cfg says so (engine, codes, accounts, catalogue); in the others
deadlock is checked.

**Symmetry.** Requests (editors, tabs) are permuted where a run has two and checks
no liveness; no constant but their set, and the client that both tabs have,
mentions them.

**Fairness.** `FairSpec` of bookings and engine has weak fairness of `Step`, the
handler of a request in flight: goroutines are scheduled, statements return or
fail. Nothing is assumed of clients, and nothing of the solver: in `Step` its
silence is ended by the HTTP client's timeout, a positive number in every
configuration. Every loop of a handler is over a finite list and retries nothing, which is why it suffices.

**What else the model says.** Some of the documents' promises fail by
construction of the code and are part of the exceptions above instead of having
a run each.

* Two concurrent POSTs double-book a teacher (`ClashOnlyWhenUnseen`); two concurrent
  generations of a class leave both timetables (`ReplaceLeavesOnlyMissed`); a PUT of
  an entry is checked with its new teacher and stored with its old one
  (`repositories/timetable.go:57`).
* `services/otp_guard.go:73` says that the counter "resets exactly when the OTP would
  have expired", and `api-contract.md:105` likewise. It may go up to half a
  second before, which leaves the code that long to a second counter, or stay for a whole
  lifetime longer when the code is in its last half second (`GuessesBounded`,
  `CounterCoversCode`).
* `api-contract.md:102` and `backend.md:126` promise the 429 "until a fresh code is
  requested". A fresh code does not clear the counter (`IssueCode`): the next
  verification deletes it and answers 429 again, until the counter itself expires.
* Two concurrent verifications add one guess each (`GuessesBounded`). Of two first
  PUTs of the settings the second gets a 500. A deleted staff record keeps its
  account from being linked again (`LinkFreeUnlessRaced` admits a deleted holder).
* An account that is deleted while its owner reads the profile, which saves the time
  of the last login, or while a super administrator updates it, is live again
  (`controllers/user.go:375` and `:248`).
* A PUT with a new foreign key keeps the old one as long as the old row is live, also
  `clear_course` and the type `general_subject`; a module whose course was cleared
  while the course was deleted joins the curriculum of every class, because
  `GetGeneralModules` asks for the missing course and not for the type. A module
  that is written between the two reads of a generation may be in the timetable
  twice or not at all, and a failing read of the general modules is taken for "there
  are none" (`services/timetable.go:356`): hence the exceptions of
  `CurriculumStored`.
* A super administrator who has been demoted acts on for up to 24 hours. The last
  one can be lost by a PUT of the own account, when two delete each other, and when a
  profile, a verification, a login, a PUT or a delete that had read the row before a
  promotion writes after it. One comes back with the next start that has
  SUPERADMIN_EMAIL and SUPERADMIN_PASSWORD set and gets as far as the bootstrap; one who
  is only deactivated is not replaced, because the bootstrap does not look at
  `is_active`.
* `routes.go:244` lets every administrator PUT the generation settings, against the
  comment at line 287 that keeps them to super administrators. Settings are modelled
  without the actor, so no property is about this.
* A staff link whose second lookup fails passes the check (`controllers/staff.go:391`);
  the unique index still refuses it.
* A Redis GET that fails is answered with 403 "invalid", not with the 503 of the
  branch below it; a GET in one tab makes the other tab's token mismatch until its
  next GET; an INCR that the client library repeats may leave a counter without
  expiry, in a key that no later minute uses. In production the process ends when
  Redis does not answer the first ping, so the branches for a missing client are
  reachable in development only.

## 4. The proofs

All theorems are of the specification, for any number of requests, rows, classes
and sessions. Assumptions are the named ASSUMEs of the modules, which TLC evaluates
in the runs: payloads and placements are bookings (`PayloadAssumption`,
`SessionAssumption`), there is an e-mail address (`StaffAssumption`), the values of
settings, codes and accounts are of their types, a catalogue starts with foreign
keys of rows that exist (`CatalogueAssumption`), a server in production reached Redis
when it started (`GateAssumption`), requests that verify codes are finitely many
(`OtpAssumption`), the accounts of a first start have
unique addresses (`AdministratorsAssumption`).

| theorem | states |
|---|---|
| `TypeCorrect` | `TimetableBooking!TypeOK` |
| `ClashesAreRaces` | `ClashOnlyWhenUnseen`, the main safety property of the booking component |
| `WritesAreChecked`, `PlansNeverClash` | `PlansClear`, `PlansSpread` |
| `SlotsAreAccounted` | `ClassRowsAccounted` |
| `ReplacementIsComplete` | `ReplaceLeavesOnlyMissed`: the action property of the replacement |
| `HoursAreKept` | `HoursKept`: the hour limit of the greedy engine and of the solver |
| `SerialBookingIsSafe` | `NoDoubleBooking`, for one request at a time, no solver, and updates that leave class, teacher and room alone |
| `SerialServerImplements` | `ImplementsConflictFreeTimetable`, the refinement, under the same hypotheses |
| `QueryIsOverlap` | for entries that end after they start, the SQL condition with its three alternatives is the overlap test of the greedy engine |
| `EngineTypes` | `GenerationEngine!TypeOK` |
| `SettingsLostToRacers` | `LostOnlyToRacer` |
| `FallbackIsExcused` | `FallbackOnlyWhenUnreachable` |
| `ReplacedOnCommit` | `ReplacedOnSuccessOnly` |
| `EngineImplementsService` | `ImplementsGenerationService`: the refinement, for every step |
| `OtpTypes`, `LockoutsExpire` | `OtpVerification!TypeOK`, `LockoutEnds` |
| `CounterCovers` | `CounterCoversCode` |
| `GuessesAreBounded`, `UsesAreBounded` | `GuessesBounded`, `UsesBounded`, for any number of requests, codes, restarts and faults |
| `AccountTypes`, `ChangesSurvive` | `UserAccounts!TypeOK`, `ChangesLostOnlyToRacer` |
| `AdministratorTypes` | `Administrators!TypeOK`, with the unique index on addresses |
| `LostRolesExpire` | `RoleHeldRecently` |
| `PeersMakeSuperAdmins`, `RacesRestore`, `LastOneStays` | `SuperAdminsByPeers`, `RacesOnlyRestore`, `LastSuperAdmin` |
| `StaffTypes` | `StaffDirectory!TypeOK`: every link is to an account that exists |
| `LinksStayFree` | `LinkFreeUnlessRaced` |
| `OneRecordPerAccount` | `OneStaffPerUser` |
| `StartsOnlyLink` | `StartOnlyAddsLinks` |
| `CatalogueTypes` | `Catalogue!TypeOK`: every key, link and entry is of a row that exists |
| `RowsAreAsAsked` | `StoredAsAsked` |
| `EntriesAlwaysStand` | `EntriesStand` |
| `CurriculumIsStored` | `CurriculumStored` |
| `GateTypes` | `RequestGate!TypeOK`: a token and a counter exist for all that hold one |
| `TokensStayGood` | `TokenStaysGood` |
| `TurnedAwayForThatMinute` | `LimitedForThatMinute` |
| `LimitHolds` | `MinuteHolds` |

**Argument for the bookings.** `TypeOK` alone is not inductive: that an answer
clears the plan, that a PUT has one row to replace and two entries before its check,
and that a generation plans for its own class is `PhaseOK`, proved with it
(`TypeInv`). `ClashOnlyWhenUnseen` is not inductive either: a write could put in
anything. The invariant adds `PlansClear` (a pending entry clashes only with rows
it will overwrite or has missed) and `PlansSpread` (no two entries of a plan
clash): `IInv == TypeInv /\ ClashOnlyWhenUnseen /\ PlansClear /\ PlansSpread`. The
checks establish `PlansClear`, because the SQL condition finds every entry that
overlaps (`OverlapIsFound`, also for entries of no length); others' writes keep it,
because `Write` adds the new ids to `missed` of every open request; and a write
turns it into `ClashOnlyWhenUnseen`, because `missed` becomes `blind`. Each action is
one step of the proof, and all writes go through one lemma about `Write`. With one
request and no solver `missed` stays empty, hence `blind`, hence no clash.

`ClassRowsAccounted` is inductive with the types: whoever else writes puts the new
ids into `missed` of the generation. `ReplaceLeavesOnlyMissed` follows from it in one
step. For `HoursKept`, `HoursInv` says that as long as nothing was missed the rows of
other classes take no more of a teacher's hours than the generation has read, and that
these and the planned ones are within the limit; the replacement then adds up two
disjoint sets of rows, the old ones elsewhere and the new ones. The refinement uses
`SInv`, all of the above with `missed` empty and the row of an update still there:
a write is then `Book`, `Move`, `Cancel` or `Regenerate` of the abstract timetable and
everything else a stutter.

**Argument for staff.** `LinkInv == TypeOK /\ LinksGood` adds that the table
satisfies the unique index on `user_id` and that a request in flight holds a link
that only raced, unread or deleted records share. The check establishes it, a store that
the index admits keeps it, and `Start` starts with no request in flight. From the same
invariant, a start only adds links: its update skips every record that has one.

**Argument for settings and accounts.** Whether a write of a whole row keeps
`LostOnlyToRacer` (`ChangesLostOnlyToRacer`) depends on the draft. The invariants
`SettingsInv` and `UserInv` add that a draft holds, of every field that its request
does not change, the value last asked for, unless the field changed behind its back
or is lost already (`DraftsCurrent`, `DraftCurrent`). `behind` collects what others
write after the load, and a save moves it into `clobbered`.

**Argument for the engine.** `TypeInv` adds to `TypeOK` that a plan to be stored was
made from tables that were read. `PlannerInv` says of each request, at each place of
its handler, why the greedy engine may be planning (`Excused`): the reason is found
in `Dispatch` or in the answer of the call, is carried by `engine`, `hadSolver` and
`called`, and outlives the request with its answer. For the refinement `Task` and
`Reply` map a request to the abstract one: a commit is `Finish`, an answer `Succeed`
or `Fail`, a restart `Restart`, and every read, call and PUT a stutter.

**Argument for the codes.** `LockoutEnds` is inductive beside `TypeOK`: a counter
without lifetime was created by an INCR that answered 1, whose request is at its
EXPIRE, and it leaves that place only by the EXPIRE, a fault or a crash.

The bounds count requests by their place. `PlacesInv` says where requests can be and
what they hold; `TtlsInv` that a counter is given at least a second. `FirstInv` is about
the first code, whose counter began with it: the counter outlives the code but for less
than half a second (`FirstLasts`, `NearlyOutlives`); up to then each wrong guess is in
the counter, under way to it, or lost to a restart or a fault (`FirstCounted`); and all
that have passed the check may add one more. `Counted(base)` says this from a base on,
because a counter that is gone before the code starts again at 0: that is when the
code is `Closing`, in its last half second, which the next counter outlives. So the
base is 0 or what one counter allows, and never more (`FirstBounded`). `LaterInv` is the
same about the other codes with one request at a time: a counter that was begun for an
earlier code may end first, and one guess with it, but one that nearly outlives the code
does so until the code is replaced.
`UsesInv` says that while a code is stored everybody who accepted it is about to delete
it or was kept from it, and that afterwards only those accept it who had read it.
A step moves one request, so that one lemma on the cardinality of sets that differ in
one element (`CardMove`) serves all of them.

**Argument for administrators.** `Inv` adds that the table only grows and `since` is
right (`TableInv`), that a token shows a role its account had when it was signed or
later (`Honest`), and what the row of a request's target still holds as long as
nobody wrote it (`Unraced`). The action properties follow step by step: only a
request's last statement changes a row, and its handler has compared the roles of the
row it read; if the row changed since, `raced` says so. For `RacesOnlyRestore`, a draft
with `super_admin` that no token of one stands behind was read while the account had
the role, and the clock does not move while a request is in flight (`RequestInv`).

**Argument for the catalogue.** `AskedInv` adds to `StoredAsAsked` that the tables are
sound (`DbInv`) and that a PUT which nothing overtook holds the row as it is, and the
merge of its body (`Loaded`). `PlanInv` adds that whatever a generation has read or
planned, and every entry stored, is of a row that is live or was written since the
generation began (`Fresh`, `Good`). Every write of a row leaves all other rows
(`Kept`) and reports itself to all that are in flight (`Wrote`); two lemmas carry both
invariants over any such write, and each request is shown to be one.

`TaughtInv` is behind `CurriculumStored`: what a generation has read agrees with the
tables except for rows written since (`Agrees`), its plan and what is left to schedule
name each item of the curriculum once (`Single`, `PlanTaught`), and so does a stored
timetable (`TimetableTaught`). It is the invariant and not the property that knows
of a generation half done.

**Argument for the gate.** Nothing in the properties says where requests are.
`TokenInv`: a token is missing in Redis only after a restart of it, the cookie of a
browser is what the tab holds whose response set it, and a request of that tab sends
the two alike. `HitsInv`: the key of a minute that is not over counts no more than was
sent. `CountInv`: a key lives as long as a request of its minute can arrive, and what
was let through, or has got the answer 1 and waits for its EXPIRE (`Due`), is within
the limit and within the key; only one request can be waiting, since INCR answers 1
once.

**Only model-checked.** Liveness: `EveryRequestAnswered` and
`EveryGenerationAnswered` need fairness and ENABLED, which TLAPS cannot handle. Every
invariant, action property and refinement that a passing run checks is a theorem.

## 5. What is not modelled

* The order in which the greedy engine tries sessions (labs first) and placements
  is a constant; all runs fix one, the proofs hold for each. Failing reads inside
  the greedy engine and its page of 500 teachers are left out.
* The conflict queries of the greedy engine for one session, a slot and a room at a
  time, are one step, as if nobody wrote or deleted a row between two of them.
* In `Catalogue` a module takes one session, whatever its `credit_hours`: how many it
  takes is a count per module, and the properties are about which modules there are.
* The search of CP-SAT and its soft weights: any timetable that satisfies the
  hard constraints may be answered, and "infeasible" may be its answer to any
  request (a search that runs out of time says so too).
* Other fields of accounts, staff, settings and catalogue are written the way the
  modelled ones are. The preferences of teachers are one column that engines read.
* Redis lifetimes are counted in ticks; two codes are never equal, nor two tokens. A
  minute never passes between a request's reading of the clock and its EXPIRE more
  than once, since a command is given up within seconds. Of minutes before the last
  one `hits` and `passed` say nothing.
* Reads, previews, listings and formatting; notifications, logging, metrics; CORS
  and request validation, which decide on one request alone; AutoMigrate and the demo
  data (SEED_DEMO, outside production only), which run before anybody is served;
  writes of one column of an account (a password, a time of login) beside
  `UserAccounts`, since they touch neither role nor address; configuration and the
  password policy,
  which are pure functions.

## 6. Plan

Written so far, in this order because a wrong timetable is the worst that this
system can do: bookings and their proof; settings and engine; codes; accounts;
staff and its proof; the catalogue; administrators and tokens; the gate; the
abstract generation service and its refinement; the proofs of all of these. To come:

1. **Accounts and staff together**: `StaffDirectory` with the requests of
   `Administrators` in place of its simple account actions.
2. **Generation end to end**: `GenerationEngine` composed with the generation actions
   of `TimetableBooking`, with `stored` mapped to the rows of the class; failing
   reads in the greedy engine.
3. **Proofs** of both: the invariants above carry over to a composition where its
   other half only stutters; what is new are the links that an account request of
   `Administrators` can break, and the step from `stored` to the rows.
