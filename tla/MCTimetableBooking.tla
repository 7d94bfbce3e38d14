------------------------- MODULE MCTimetableBooking -------------------------
(***************************************************************************)
(* Instances of TimetableBooking for TLC.  Hours are 8, 9, ...; there are  *)
(* two classes, two teachers and two rooms on one day.                     *)
(***************************************************************************)
EXTENDS TimetableBooking, TLC

CONSTANTS r1, r2, Nil

Module == "module"
Subject == "subject"

Entry(c, s, m, from, to, kinds) ==
    [class |-> c, staff |-> s, room |-> m, day |-> "monday",
     start |-> from, end |-> to, teaches |-> kinds]

NoChange == [class |-> Nil, staff |-> Nil, room |-> Nil, day |-> Nil,
             start |-> Nil, end |-> Nil, teaches |-> {}]

MCClasses == {"c1", "c2"}
MCStaff == {"s1", "s2"}
MCRooms == {"m1", "m2"}
MCDays == {"monday"}
MCKinds == {Module, Subject}
MCSymmetry == Permutations({r1, r2})

(* Entries that meet in a room, in a teacher or in a class: one spans two  *)
(* hours, one ends when it starts, which no handler refuses, and one       *)
(* teaches nothing.                                                        *)
ManualPayloads ==
    {Entry("c1", "s1", "m1", 8, 9, {Module}),
     Entry("c2", "s2", "m1", 8, 10, {Subject}),
     Entry("c2", "s2", "m2", 9, 9, {Module}),
     Entry("c1", "s2", "m2", 9, 10, {})}

ManualPatches ==
    {[NoChange EXCEPT !.staff = "s1"],
     [NoChange EXCEPT !.start = 9, !.end = 10],
     [NoChange EXCEPT !.class = "c2", !.room = "m1"]}

(* Updates that move an entry in time or change its subject only, and one that *)
(* gives an entry to another teacher at the same moment.                   *)
TimePatches ==
    {[NoChange EXCEPT !.start = 9, !.end = 10],
     [NoChange EXCEPT !.start = 8],
     [NoChange EXCEPT !.teaches = {Subject}]}

TeacherPatches == {[NoChange EXCEPT !.staff = "s2", !.start = 8, !.end = 9]}

TeacherPayloads ==
    {Entry("c1", "s1", "m1", 8, 9, {Module}),
     Entry("c2", "s1", "m2", 9, 10, {Module})}

NoPayloads == {}

(* The engine tries the hours in order and in each hour the teachers, then the rooms. *)
Placements(c, staff, rooms, kind) ==
    LET at(h) == [n \in 1..(Len(staff) * Len(rooms)) |->
                    Entry(c, staff[((n - 1) \div Len(rooms)) + 1],
                          rooms[((n - 1) % Len(rooms)) + 1], h, h + 1, {kind})]
    IN  at(8) \o at(9)

(* c1 has two sessions of one module of s1, c2 one subject for any teacher. *)
GreedySessions ==
    [c \in MCClasses |->
        IF c = "c1" THEN <<Placements(c, <<"s1">>, <<"m1">>, Module),
                           Placements(c, <<"s1">>, <<"m1">>, Module)>>
        ELSE <<Placements(c, <<"s1", "s2">>, <<"m1">>, Subject)>>]

SolverChoices ==
    [c \in MCClasses |-> [k \in DOMAIN GreedySessions[c] |->
        {GreedySessions[c][k][n] : n \in DOMAIN GreedySessions[c][k]}]]

(* One session that has no placement: neither engine has an answer. *)
NoSessions == [c \in MCClasses |-> <<<<>>>>]
NoChoices == [c \in MCClasses |-> <<{}>>]

TightHours == [s \in MCStaff |-> IF s = "s1" THEN 2 ELSE 0]
=============================================================================
