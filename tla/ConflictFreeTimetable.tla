------------------------ MODULE ConflictFreeTimetable ------------------------
(***************************************************************************)
(* What the timetable promises its readers: entries are booked, moved,     *)
(* cancelled and regenerated one operation at a time, and no operation     *)
(* leaves a class, a teacher or a room with two entries at one time.       *)
(* Operations are relations between the table before and after, so the     *)
(* module says nothing of how a booking is checked.                        *)
(***************************************************************************)
EXTENDS TimeSlots

CONSTANT Classes

VARIABLE rows   \* the timetable: a function from ids to bookings

ConflictFree(table) ==
    \A i, j \in DOMAIN table : i # j => ~DoubleBooked(table[i], table[j])

(* The entries with the ids in S are the same before and after. *)
Kept(S) == S \subseteq DOMAIN rows /\ S \subseteq DOMAIN rows'
           /\ \A i \in S : rows'[i] = rows[i]

Book == \E i \in DOMAIN rows' \ DOMAIN rows :
            DOMAIN rows' = DOMAIN rows \cup {i} /\ Kept(DOMAIN rows)

Move == \E i \in DOMAIN rows :
            DOMAIN rows' = DOMAIN rows /\ Kept(DOMAIN rows \ {i})

Cancel == \E i \in DOMAIN rows :
            DOMAIN rows' = DOMAIN rows \ {i} /\ Kept(DOMAIN rows \ {i})

(* Every entry of the class is new, and the other classes are left alone. *)
Regenerate(c) ==
    LET others == {i \in DOMAIN rows : rows[i].class # c}
    IN  /\ Kept(others)
        /\ \A i \in DOMAIN rows' \ others : i \notin DOMAIN rows /\ rows'[i].class = c

Init == DOMAIN rows = {}

Next == /\ Book \/ Move \/ Cancel \/ \E c \in Classes : Regenerate(c)
        /\ ConflictFree(rows')

Spec == Init /\ [][Next]_rows
=============================================================================
