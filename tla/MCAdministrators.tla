-------------------------- MODULE MCAdministrators --------------------------
(* The constants of the run that checks Administrators. *)
EXTENDS Administrators, TLC

CONSTANTS r1, r2

Person(role, boot) == [live |-> TRUE, active |-> TRUE, role |-> role, boot |-> boot]

(* An empty table, two super administrators, or one of them and an administrator. *)
MCPopulations ==
    {<<>>, <<Person("super_admin", TRUE), Person("super_admin", FALSE)>>,
     <<Person("super_admin", TRUE), Person("administrator", FALSE)>>}
MCSymmetry == Permutations({r1, r2})
=============================================================================
