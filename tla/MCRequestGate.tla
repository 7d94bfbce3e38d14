--------------------------- MODULE MCRequestGate ---------------------------
(* The constants of the run that checks RequestGate. *)
EXTENDS RequestGate, TLC

CONSTANTS c1, t1, t2

MCClientOf == (t1 :> c1) @@ (t2 :> c1)

Env(production, connected, csrf, limited) ==
    [production |-> production, connected |-> connected, csrf |-> csrf, limited |-> limited]

(* Production with either part, and development with Redis and without. *)
MCConfigs ==
    {Env(TRUE, TRUE, TRUE, FALSE), Env(TRUE, TRUE, FALSE, TRUE),
     Env(FALSE, TRUE, FALSE, TRUE), Env(FALSE, FALSE, FALSE, TRUE), Env(FALSE, FALSE, TRUE, TRUE)}

MCSymmetry == Permutations({t1, t2})
=============================================================================
