----------------------------- MODULE MCCatalogue -----------------------------
(* The constants of the run that checks Catalogue. *)
EXTENDS Catalogue, TLC

CONSTANTS e1, e2

Of(parent) == [live |-> TRUE, parent |-> parent, general |-> FALSE]
Root == Of(NoRow)
General == [Root EXCEPT !.general = TRUE]

(* Two courses, a module of the first, one that has no course, and a class. *)
Taught ==
    [db |-> [faculties |-> <<Root>>, courses |-> <<Of(1), Of(1)>>,
             modules |-> <<Of(1), General>>, classes |-> <<Of(1)>>,
             staff |-> <<Of(1)>>, rooms |-> <<Root>>, subjects |-> <<Root>>],
     links |-> {<<1, 1>>, <<1, 2>>}]

(* Two faculties and no class yet: what generations do not read. *)
Founded ==
    [db |-> [faculties |-> <<Root, Root>>, courses |-> <<Of(1)>>, modules |-> <<>>,
             classes |-> <<>>, staff |-> <<Of(1)>>, rooms |-> <<>>, subjects |-> <<>>],
     links |-> {}]

MCSchools == {Taught, Founded}
MCSymmetry == Permutations({e1, e2})
=============================================================================
