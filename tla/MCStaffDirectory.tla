--------------------------- MODULE MCStaffDirectory ---------------------------
(* Instances of StaffDirectory for TLC. *)
EXTENDS StaffDirectory, TLC

CONSTANTS r1, r2

MCEmails == {"a", "b"}
MCSymmetry == Permutations({r1, r2})
=============================================================================
