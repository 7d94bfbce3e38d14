--------------------------- MODULE MCUserAccounts ---------------------------
(* The constants of the runs that check UserAccounts. *)
EXTENDS UserAccounts, TLC

Registered == [live |-> TRUE, active |-> FALSE, verified |-> FALSE, role |-> "user", password |-> "old"]

Bootstrapped == [Registered EXCEPT !.active = TRUE, !.verified = TRUE, !.role = "super_admin"]

MCCreations == {Registered, Bootstrapped}

Symmetry == Permutations(Requests)
=============================================================================
