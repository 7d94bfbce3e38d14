----------------------------- MODULE TimeSlots -----------------------------
(***************************************************************************)
(* The geometry of timetable entries.  An entry occupies, on one day, the  *)
(* interval from its start to its end; the code keeps both as "HH:MM"      *)
(* strings and compares them as strings, which for well-formed times is    *)
(* the order of the natural numbers used here.                             *)
(***************************************************************************)
EXTENDS Naturals

(* The half-open intervals of a and b meet: TimetableService.hasTimeOverlap. *)
Overlaps(a, b) == a.start < b.end /\ b.start < a.end

(* Mutant of SlotMatches: the alternative for a partial overlap is missing. *)
SlotMatches_NoPartial(row, b) ==
    \/ row.start < b.start /\ row.end > b.end
    \/ row.start >= b.start /\ row.end <= b.end

(***************************************************************************)
(* The WHERE clause of TimetableRepository.CheckConflicts on the time      *)
(* columns: does the stored row match a query for the interval of b?       *)
(***************************************************************************)
SlotMatches(row, b) ==
    \/ row.start < b.end /\ row.end > b.start
    \/ row.start < b.start /\ row.end > b.end
    \/ row.start >= b.start /\ row.end <= b.end

(* The same clause on class_id, staff_id and room_id. *)
SharesResource(a, b) ==
    a.class = b.class \/ a.staff = b.staff \/ a.room = b.room

(* The rows CheckConflicts returns for b are those that satisfy this. *)
ConflictsWith(row, b) ==
    row.day = b.day /\ SlotMatches(row, b) /\ SharesResource(row, b)

(* What a timetable must never hold: one class, teacher or room twice at a time. *)
DoubleBooked(a, b) ==
    a.day = b.day /\ Overlaps(a, b) /\ SharesResource(a, b)

(* Timetable.IsValidTimeSlot; no handler calls it. *)
IsValidTimeSlot(a) == a.start < a.end
=============================================================================
