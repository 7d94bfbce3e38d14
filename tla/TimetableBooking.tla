-------------------------- MODULE TimetableBooking --------------------------
(***************************************************************************)
(* The timetables table and the HTTP requests that write it: manual        *)
(* create, update and delete (internal/controllers/timetable.go) and the   *)
(* generation of a class's timetable by the greedy engine or by the solver *)
(* (internal/services/timetable.go).  Requests run concurrently, and every *)
(* repository call is a database statement of its own: nothing holds the   *)
(* table still between the check of a booking and its write.  The one      *)
(* transaction is ReplaceClassTimetable, at PostgreSQL's default level     *)
(* READ COMMITTED.                                                         *)
(*                                                                         *)
(* Requests that change nothing (refused ones, reads, previews) are        *)
(* stuttering steps and have no action here.                               *)
(***************************************************************************)
EXTENDS Integers, Sequences, FiniteSets, TimeSlots

CONSTANTS
    Requests,       \* the requests that can be in flight at the same time
    Classes, Staff, Rooms, Days, Kinds,
    Absent,         \* a field that a PUT body leaves out (a nil pointer)
    CreatePayloads, \* the entries that clients POST
    Patches,        \* the partial entries that clients PUT
    MaxHours,       \* staff.max_hours
    Sessions,       \* per class, its sessions; per session, the placements
                    \* the greedy engine tries, in its order
    SolverSessions, \* per class and session, the placements the solver has
    MaxRequests     \* bound: requests that get past their first check

Booking == [class: Classes, staff: Staff, room: Rooms, day: Days,
            start: Nat, end: Nat, teaches: SUBSET Kinds]

Patch == [class: Classes \cup {Absent}, staff: Staff \cup {Absent},
          room: Rooms \cup {Absent}, day: Days \cup {Absent},
          start: Nat \cup {Absent}, end: Nat \cup {Absent},
          teaches: SUBSET Kinds]

ASSUME PayloadAssumption ==
    /\ CreatePayloads \subseteq Booking
    /\ Patches \subseteq Patch
    /\ MaxRequests \in Nat

(* A placement of a session of class c is a booking of c, and so is what   *)
(* ReplaceClassTimetable stores of it: it sets ClassID itself.             *)
BookingOf(c) == {b \in Booking : b.class = c}

ASSUME SessionAssumption ==
    /\ MaxHours \in [Staff -> Int]
    /\ \A c \in Classes : /\ Sessions[c] \in Seq(Seq(BookingOf(c)))
                          /\ SolverSessions[c] \in Seq(SUBSET BookingOf(c))

VARIABLES
    rows,     \* the live rows of timetables: a function from ids to bookings
    nextId,   \* the sequence behind the primary key
    pc,       \* per request, the statement it executes next
    plan,     \* per request, the bookings it has computed and not yet written
    cls,      \* per request, the class it generates for, or Absent
    seed,     \* per request, the hours of each teacher read when it began
    replaces, \* per request, the ids of the rows its write takes the place of
    accepted, \* requests that got past their first check, for MaxRequests
    missed,   \* history: ids written since the request looked at the table
    blind     \* history: per row, what the request that wrote it had missed

vars == <<rows, nextId, pc, plan, cls, seed, replaces, accepted, missed, blind>>

PC == {"idle", "insert", "merged", "save", "greedy", "commit"}

TypeOK ==
    /\ nextId \in Nat \ {0}
    /\ DOMAIN rows \subseteq 1..(nextId - 1)
    /\ rows \in [DOMAIN rows -> Booking]
    /\ pc \in [Requests -> PC]
    /\ plan \in [Requests -> Seq(Booking)]
    /\ cls \in [Requests -> Classes \cup {Absent}]
    /\ seed \in [Requests -> [Staff -> Nat]]
    /\ replaces \in [Requests -> SUBSET (1..(nextId - 1))]
    /\ accepted \in Nat
    /\ missed \in [Requests -> SUBSET (1..(nextId - 1))]
    /\ blind \in [DOMAIN rows -> SUBSET (1..(nextId - 1))]

-----------------------------------------------------------------------------
(* Reading the table *)

ClassRows(c) == {i \in DOMAIN rows : rows[i].class = c}

CheckConflicts(b, exclude) ==
    {i \in DOMAIN rows \ exclude : ConflictsWith(rows[i], b)}

(* What isStaffAvailable makes of max_hours. *)
HourLimit(s) == IF MaxHours[s] <= 0 THEN 40 ELSE MaxHours[s]

(* The sessions of s in the plan of r so far. *)
PlannedHours(r, s) == Cardinality({k \in DOMAIN plan[r] : plan[r][k].staff = s})

(* Mutant of Fits: the rows of other classes are not looked at. *)
Fits_NoTable(r, b) ==
    /\ seed[r][b.staff] + PlannedHours(r, b.staff) < HourLimit(b.staff)
    /\ \A k \in DOMAIN plan[r] : ~(plan[r][k].day = b.day /\ Overlaps(plan[r][k], b))

(* Mutant of Fits: the sessions placed before are not looked at. *)
Fits_NoPending(r, b) ==
    /\ seed[r][b.staff] + PlannedHours(r, b.staff) < HourLimit(b.staff)
    /\ CheckConflicts(b, ClassRows(cls[r])) = {}

(* Mutant of Fits: a teacher may go one session above the limit. *)
Fits_OneTooMany(r, b) ==
    /\ seed[r][b.staff] + PlannedHours(r, b.staff) <= HourLimit(b.staff)
    /\ CheckConflicts(b, ClassRows(cls[r])) = {}
    /\ \A k \in DOMAIN plan[r] : ~(plan[r][k].day = b.day /\ Overlaps(plan[r][k], b))

(* Whether the greedy engine can put a session of r at b. *)
Fits(r, b) ==
    /\ seed[r][b.staff] + PlannedHours(r, b.staff) < HourLimit(b.staff)
    /\ CheckConflicts(b, ClassRows(cls[r])) = {}
    /\ \A k \in DOMAIN plan[r] : ~(plan[r][k].day = b.day /\ Overlaps(plan[r][k], b))

(* The timetables the solver may answer for class c.  It is told nothing of *)
(* the rows of other classes.                                              *)
SolverPlans(c) ==
    {p \in [DOMAIN SolverSessions[c] -> UNION {SolverSessions[c][k] : k \in DOMAIN SolverSessions[c]}] :
        /\ \A k \in DOMAIN p : p[k] \in SolverSessions[c][k]
        /\ \A k, l \in DOMAIN p :
              k # l => ~(p[k].day = p[l].day /\ Overlaps(p[k], p[l]))
        /\ \A s \in Staff :
              Cardinality({k \in DOMAIN p : p[k].staff = s})
                 <= (IF MaxHours[s] = 0 THEN 40 ELSE MaxHours[s])}

-----------------------------------------------------------------------------
(* Writing the table *)

(* The bookings of r under fresh ids. *)
FreshRows(r) ==
    [i \in nextId..(nextId + Len(plan[r]) - 1) |-> plan[r][i - nextId + 1]]

(* The client of r has its answer, and what the handler computed is gone. *)
Answer(r) ==
    /\ pc' = [pc EXCEPT ![r] = "idle"]
    /\ plan' = [plan EXCEPT ![r] = <<>>]
    /\ cls' = [cls EXCEPT ![r] = Absent]
    /\ seed' = [seed EXCEPT ![r] = [s \in Staff |-> 0]]

(***************************************************************************)
(* One committed write of request r: the rows gone leave the table, the    *)
(* rows new are put in, and r is answered.                                 *)
(***************************************************************************)
Write(r, gone, new) ==
    LET ids == (DOMAIN rows \ gone) \cup DOMAIN new
    IN  /\ rows' = [i \in ids |-> IF i \in DOMAIN new THEN new[i] ELSE rows[i]]
        /\ blind' = [i \in ids |-> (IF i \in DOMAIN new THEN missed[r] ELSE blind[i])
                                      \ DOMAIN new]
        /\ missed' = [q \in Requests |->
                         IF q = r \/ pc[q] = "idle" THEN {}
                         ELSE missed[q] \cup DOMAIN new]
        /\ Answer(r)
        /\ UNCHANGED accepted

(* A request that has begun, within the bound. *)
Accept(r, next) ==
    /\ pc[r] = "idle"
    /\ accepted < MaxRequests
    /\ accepted' = accepted + 1
    /\ pc' = [pc EXCEPT ![r] = next]

-----------------------------------------------------------------------------
(* Manual bookings *)

(* POST: the body is bound and checked, up to ValidateTimeSlot. *)
CreateTimetable(r) ==
    /\ Accept(r, "insert")
    /\ \E b \in CreatePayloads :
          /\ \E kind \in Kinds : b.teaches = {kind}
          /\ CheckConflicts(b, {}) = {}
          /\ plan' = [plan EXCEPT ![r] = <<b>>]
    /\ UNCHANGED <<rows, nextId, cls, seed, replaces, missed, blind>>

(* POST: timetableRepo.Create. *)
Insert(r) ==
    /\ pc[r] = "insert"
    /\ Write(r, {}, FreshRows(r))
    /\ nextId' = nextId + 1
    /\ UNCHANGED replaces

(* The value of a field after a PUT that may have left it out. *)
Given(new, old) == IF new = Absent THEN old ELSE new

(* Mutant of Merge: a field that is not given is stored as nil. *)
Merge_TakesNil(b, p) ==
    [class |-> Given(p.class, b.class), staff |-> p.staff,
     room  |-> Given(p.room, b.room),   day   |-> Given(p.day, b.day),
     start |-> Given(p.start, b.start), end   |-> Given(p.end, b.end),
     teaches |-> b.teaches \cup p.teaches]

Merge(b, p) ==
    [class |-> Given(p.class, b.class), staff |-> Given(p.staff, b.staff),
     room  |-> Given(p.room, b.room),   day   |-> Given(p.day, b.day),
     start |-> Given(p.start, b.start), end   |-> Given(p.end, b.end),
     teaches |-> b.teaches \cup p.teaches]

(***************************************************************************)
(* What gorm's Save makes of an entry whose class, teacher and room were   *)
(* preloaded: the keys of the loaded associations, which are those of the  *)
(* old row, are written over the ones of the entry.  An association whose  *)
(* row is gone is not loaded, and its key stays.                           *)
(***************************************************************************)
Reattach(b, old, loaded) ==
    [b EXCEPT !.class = IF "class" \in loaded THEN old.class ELSE @,
              !.staff = IF "staff" \in loaded THEN old.staff ELSE @,
              !.room = IF "room" \in loaded THEN old.room ELSE @]

(***************************************************************************)
(* PUT: GetByID and the merge of the fields that the body gives.  The plan *)
(* is the entry that will be checked and the one that will be stored.      *)
(***************************************************************************)
UpdateTimetable(r) ==
    /\ Accept(r, "merged")
    /\ \E i \in DOMAIN rows, p \in Patches, loaded \in SUBSET {"class", "staff", "room"} :
          /\ plan' = [plan EXCEPT ![r] = <<Merge(rows[i], p),
                                          Reattach(Merge(rows[i], p), rows[i], loaded)>>]
          /\ replaces' = [replaces EXCEPT ![r] = {i}]
    /\ UNCHANGED <<rows, nextId, cls, seed, missed, blind>>

(* Mutant of ValidateUpdate: the merged entry is not checked. *)
ValidateUpdate_Unchecked(r) ==
    /\ pc[r] = "merged"
    /\ pc' = [pc EXCEPT ![r] = "save"]
    /\ plan' = [plan EXCEPT ![r] = Tail(@)]
    /\ missed' = [missed EXCEPT ![r] = {}]
    /\ UNCHANGED <<rows, nextId, cls, seed, replaces, accepted, blind>>

(***************************************************************************)
(* PUT: ValidateTimeSlot, which ignores the row being updated.  When the   *)
(* entry to be stored is not the one checked, no row has been looked at.   *)
(***************************************************************************)
ValidateUpdate(r) ==
    /\ pc[r] = "merged"
    /\ IF CheckConflicts(plan[r][1], replaces[r]) = {}
       THEN /\ pc' = [pc EXCEPT ![r] = "save"]
            /\ plan' = [plan EXCEPT ![r] = Tail(@)]
            /\ missed' = [missed EXCEPT ![r] =
                              IF plan[r][1] = plan[r][2] THEN {} ELSE DOMAIN rows \ replaces[r]]
            /\ UNCHANGED <<cls, seed, replaces>>
       ELSE /\ Answer(r)
            /\ replaces' = [replaces EXCEPT ![r] = {}]
            /\ missed' = [missed EXCEPT ![r] = {}]
    /\ UNCHANGED <<rows, nextId, accepted, blind>>

(***************************************************************************)
(* PUT: timetableRepo.Update, that is gorm's Save of the whole row.  When  *)
(* no live row has the id any more, Save inserts it under that id again.   *)
(***************************************************************************)
Save(r) ==
    /\ pc[r] = "save"
    /\ Write(r, replaces[r], [i \in replaces[r] |-> plan[r][1]])
    /\ replaces' = [replaces EXCEPT ![r] = {}]
    /\ UNCHANGED nextId

(* DELETE: a soft delete in one statement; any id is answered with 200. *)
DeleteTimetable(r, i) ==
    /\ pc[r] = "idle"
    /\ rows' = [j \in DOMAIN rows \ {i} |-> rows[j]]
    /\ blind' = [j \in DOMAIN rows \ {i} |-> blind[j]]
    /\ UNCHANGED <<nextId, pc, plan, cls, seed, replaces, accepted, missed>>

-----------------------------------------------------------------------------
(* Generation *)

(* The engine reads the hours that other classes already take of each teacher. *)
GenerateGreedy(r) ==
    /\ Accept(r, "greedy")
    /\ \E c \in Classes :
          /\ cls' = [cls EXCEPT ![r] = c]
          /\ seed' = [seed EXCEPT ![r] = [s \in Staff |->
                Cardinality({i \in DOMAIN rows \ ClassRows(c) : rows[i].staff = s})]]
    /\ UNCHANGED <<rows, nextId, plan, replaces, missed, blind>>

(* The next session goes to the first placement that fits. *)
ScheduleSession(r) ==
    LET k == Len(plan[r]) + 1
    IN  /\ pc[r] = "greedy"
        /\ k <= Len(Sessions[cls[r]])
        /\ \E n \in DOMAIN Sessions[cls[r]][k] :
              /\ Fits(r, Sessions[cls[r]][k][n])
              /\ \A m \in 1..(n - 1) : ~Fits(r, Sessions[cls[r]][k][m])
              /\ plan' = [plan EXCEPT ![r] = Append(@, Sessions[cls[r]][k][n])]
        /\ UNCHANGED <<rows, nextId, pc, cls, seed, replaces, accepted, missed, blind>>

(* Mutant of Infeasible: the engine tries the same session again and again. *)
Infeasible_Retries(r) == pc[r] = "greedy" /\ UNCHANGED vars

(***************************************************************************)
(* No placement fits: the timetable is infeasible and nothing is written.  *)
(* (The code goes on to count the other sessions, for the answer's text.)  *)
(***************************************************************************)
Infeasible(r) ==
    LET k == Len(plan[r]) + 1
    IN  /\ pc[r] = "greedy"
        /\ k <= Len(Sessions[cls[r]])
        /\ \A n \in DOMAIN Sessions[cls[r]][k] : ~Fits(r, Sessions[cls[r]][k][n])
        /\ Answer(r)
        /\ missed' = [missed EXCEPT ![r] = {}]
        /\ UNCHANGED <<rows, nextId, replaces, accepted, blind>>

(* Mutant of BeginReplace: the DELETE removes nothing. *)
BeginReplace_NoDelete(r) ==
    /\ pc[r] = "greedy"
    /\ Len(plan[r]) = Len(Sessions[cls[r]])
    /\ pc' = [pc EXCEPT ![r] = "commit"]
    /\ UNCHANGED <<rows, nextId, plan, cls, seed, replaces, accepted, missed, blind>>

(* The DELETE of ReplaceClassTimetable fixes the rows that it will remove. *)
BeginReplace(r) ==
    /\ pc[r] = "greedy"
    /\ Len(plan[r]) = Len(Sessions[cls[r]])
    /\ pc' = [pc EXCEPT ![r] = "commit"]
    /\ replaces' = [replaces EXCEPT ![r] = ClassRows(cls[r])]
    /\ UNCHANGED <<rows, nextId, plan, cls, seed, accepted, missed, blind>>

(* The same for a timetable the solver answered: no row has been looked at. *)
GenerateWithSolver(r) ==
    /\ Accept(r, "commit")
    /\ \E c \in Classes :
          /\ cls' = [cls EXCEPT ![r] = c]
          /\ \E p \in SolverPlans(c) : plan' = [plan EXCEPT ![r] = p]
          /\ replaces' = [replaces EXCEPT ![r] = ClassRows(c)]
          /\ missed' = [missed EXCEPT ![r] = DOMAIN rows \ ClassRows(c)]
    /\ UNCHANGED <<rows, nextId, seed, blind>>

(* Mutant of ReplaceClassTimetable: only the INSERTs reach the database. *)
ReplaceClassTimetable_NoDelete(r) ==
    /\ pc[r] = "commit"
    /\ Write(r, {}, FreshRows(r))
    /\ nextId' = nextId + Len(plan[r])
    /\ replaces' = [replaces EXCEPT ![r] = {}]

(* Mutant of ReplaceClassTimetable: the DELETE has no condition on class_id. *)
ReplaceClassTimetable_DeletesAll(r) ==
    /\ pc[r] = "commit"
    /\ Write(r, DOMAIN rows, FreshRows(r))
    /\ nextId' = nextId + Len(plan[r])
    /\ replaces' = [replaces EXCEPT ![r] = {}]

(***************************************************************************)
(* ReplaceClassTimetable commits.  Of the rows its DELETE saw it removes    *)
(* those that are still of the class; rows that joined the class since are *)
(* not touched.  A row that it removes is gone for other DELETEs too.      *)
(***************************************************************************)
ReplaceClassTimetable(r) ==
    LET gone == replaces[r] \cap ClassRows(cls[r])
    IN  /\ pc[r] = "commit"
        /\ Write(r, gone, FreshRows(r))
        /\ nextId' = nextId + Len(plan[r])
        /\ replaces' = [q \in Requests |->
                           IF q = r THEN {}
                           ELSE IF pc[q] = "commit" THEN replaces[q] \ gone
                           ELSE replaces[q]]

-----------------------------------------------------------------------------
Init ==
    /\ rows = <<>>
    /\ nextId = 1
    /\ pc = [r \in Requests |-> "idle"]
    /\ plan = [r \in Requests |-> <<>>]
    /\ cls = [r \in Requests |-> Absent]
    /\ seed = [r \in Requests |-> [s \in Staff |-> 0]]
    /\ replaces = [r \in Requests |-> {}]
    /\ accepted = 0
    /\ missed = [r \in Requests |-> {}]
    /\ blind = <<>>

(* The handler of a request that is in flight goes on by one statement. *)
Step(r) ==
    \/ Insert(r)
    \/ ValidateUpdate(r)
    \/ Save(r)
    \/ ScheduleSession(r)
    \/ Infeasible(r)
    \/ BeginReplace(r)
    \/ ReplaceClassTimetable(r)

Arrive(r) ==
    \/ CreateTimetable(r)
    \/ UpdateTimetable(r)
    \/ GenerateGreedy(r)
    \/ GenerateWithSolver(r)
    \/ \E i \in 1..MaxRequests : DeleteTimetable(r, i)

Next == \E r \in Requests : Arrive(r) \/ Step(r)

(* A handler runs on until it has answered; no client has to send anything. *)
Fairness == \A r \in Requests : WF_vars(Step(r))

Spec == Init /\ [][Next]_vars
FairSpec == Spec /\ Fairness

-----------------------------------------------------------------------------
(* Properties *)

(***************************************************************************)
(* What a request holds at each statement: a manual write has one entry, a *)
(* PUT replaces the one row it was sent for, and holds the entry it checks *)
(* and the one it stores, and a generation plans entries of its own class. *)
(***************************************************************************)
Phase(r) ==
    /\ pc[r] = "idle" => plan[r] = <<>> /\ replaces[r] = {} /\ missed[r] = {}
    /\ pc[r] \in {"insert", "greedy"} => replaces[r] = {}
    /\ pc[r] \in {"insert", "save"} => Len(plan[r]) = 1
    /\ pc[r] = "merged" => Len(plan[r]) = 2
    /\ pc[r] \in {"merged", "save"} => \E i \in 1..(nextId - 1) : replaces[r] = {i}
    /\ pc[r] \in {"greedy", "commit"} =>
          cls[r] \in Classes /\ \A k \in DOMAIN plan[r] : plan[r][k].class = cls[r]

PhaseOK == \A r \in Requests : Phase(r)

(***************************************************************************)
(* A class, a teacher or a room is booked twice only when the request that *)
(* wrote the later of the two rows had missed the other one: that row was  *)
(* written after the request's conflict check and before its own write, or *)
(* the solver was never told of it.  So ValidateTimeSlot and the checks of *)
(* the greedy engine leave no other way to a double booking: not by moving *)
(* an entry, not by writing a deleted one again, not by a replacement that *)
(* removes and inserts rows while others are being checked.  (An update    *)
(* that stores another entry than the one it checked has missed all rows.) *)
(***************************************************************************)
ClashOnlyWhenUnseen ==
    \A i, j \in DOMAIN rows :
        i # j /\ DoubleBooked(rows[i], rows[j]) => i \in blind[j] \/ j \in blind[i]

(* The live rows that the pending write of r takes the place of. *)
Overwrites(r) ==
    CASE pc[r] = "greedy" -> ClassRows(cls[r])
      [] pc[r] = "commit" -> replaces[r] \cap ClassRows(cls[r])
      [] OTHER -> replaces[r]

(***************************************************************************)
(* What a request is about to write clashes with no row it has looked at   *)
(* and is not going to overwrite: the checked candidate stays good until   *)
(* somebody else writes.                                                   *)
(***************************************************************************)
PlanClear(r) ==
    pc[r] \notin {"idle", "merged"} =>
        \A k \in DOMAIN plan[r], i \in DOMAIN rows \ Overwrites(r) :
            DoubleBooked(plan[r][k], rows[i]) => i \in missed[r]

PlansClear == \A r \in Requests : PlanClear(r)

(* No two sessions of one plan meet: the rows one write inserts are compatible. *)
PlanSpread(r) ==
    pc[r] # "merged" => \A k, l \in DOMAIN plan[r] : k # l => ~DoubleBooked(plan[r][k], plan[r][l])

PlansSpread == \A r \in Requests : PlanSpread(r)

(***************************************************************************)
(* A class's rows that a replacement will not remove were all written      *)
(* after the generation read the table.                                    *)
(***************************************************************************)
ClassRowsAccounted ==
    \A r \in Requests : pc[r] = "commit" =>
        ClassRows(cls[r]) \subseteq replaces[r] \cup missed[r]

(***************************************************************************)
(* After a generation the class has exactly the generated entries, and     *)
(* besides them only rows that were written while it ran ("replaced        *)
(* previous class slots").  In particular no old slot survives it.         *)
(***************************************************************************)
ReplaceLeavesOnlyMissed ==
    [][\A r \in Requests : pc[r] = "commit" /\ pc'[r] = "idle" =>
          \A i \in DOMAIN rows' : rows'[i].class = cls[r] =>
              i >= nextId \/ i \in missed[r]]_vars

(***************************************************************************)
(* When nobody wrote while the greedy engine worked, no teacher it placed  *)
(* has more sessions in the whole timetable than max_hours allows: the     *)
(* hours read at the beginning, the sessions counted on the way and the    *)
(* rows the replacement removes add up.                                    *)
(***************************************************************************)
HoursKept ==
    [][\A r \in Requests : pc[r] = "commit" /\ pc'[r] = "idle" /\ missed[r] = {} =>
          \A k \in DOMAIN plan[r] :
              LET s == plan[r][k].staff
              IN  Cardinality({i \in DOMAIN rows' : rows'[i].staff = s}) <= HourLimit(s)]_vars

(* A class, a teacher or a room is never booked twice at the same time. *)
NoDoubleBooking ==
    \A i, j \in DOMAIN rows : i # j => ~DoubleBooked(rows[i], rows[j])

(* Every request is answered, also one whose sessions fit nowhere. *)
EveryRequestAnswered == \A r \in Requests : pc[r] # "idle" ~> pc[r] = "idle"

(***************************************************************************)
(* A server that handles one request at a time keeps the promise of the    *)
(* abstract timetable, with the same table.                                *)
(***************************************************************************)
Abstract == INSTANCE ConflictFreeTimetable WITH rows <- rows, Classes <- Classes
ImplementsConflictFreeTimetable == Abstract!Spec
=============================================================================
