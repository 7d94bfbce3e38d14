------------------------- MODULE MCGenerationEngine -------------------------
(***************************************************************************)
(* The constants of the runs that check GenerationEngine: an empty school, *)
(* one whose request body has no null list, and one with general modules   *)
(* and a teacher who has no unavailable day.                               *)
(***************************************************************************)
EXTENDS GenerationEngine

MCBudgets == {300}
Empty    == [course |-> 0, general |-> 0, subjects |-> 0, rooms |-> 0,
             staff |-> 0, allocated |-> 0, daysOff |-> 0]
Complete == [course |-> 2, general |-> 0, subjects |-> 1, rooms |-> 1,
             staff |-> 2, allocated |-> 2, daysOff |-> 2]
General  == [Complete EXCEPT !.general = 2, !.daysOff = 1]

MCSchools == {Empty, Complete, General}

(* One class whose timetable is proved optimal at once and one that is not. *)
MCSolveTimes == {1, 1000}
=============================================================================
