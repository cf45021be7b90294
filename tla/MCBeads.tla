------------------------------- MODULE MCBeads -------------------------------
(* The plans the runs file.                                                *)
EXTENDS BeadProjection

CONSTANTS site, other

Item(r, b, ds, s) == [ref |-> r, id |-> b, deps |-> ds, status |-> s]

\* A plan; the same with its dependency turned round, closing one bead and
\* reopening the other; one that does not validate; and one of another
\* project's that closes a bead by its id.
MCPlans == {
    [project |-> site, items |-> << Item("deploy", 0, {"build"}, ""), Item("build", 0, {}, "") >>],
    [project |-> site, items |-> << Item("build", 0, {"deploy"}, "closed"), Item("deploy", 0, {}, "open") >>],
    [project |-> site, items |-> << Item("build", 0, {}, ""), Item("build", 0, {}, "") >>],
    [project |-> other, items |-> << Item("tidy", 1, {}, "closed") >>] }

\* One plan in which a bead has two blockers.
MCWidePlans == {
    [project |-> site, items |-> << Item("deploy", 0, {"build", "test"}, ""),
                                    Item("build", 0, {}, ""), Item("test", 0, {}, "") >>] }
=============================================================================
