------------------------------ MODULE MCAreaAdmin ------------------------------
(* A small instance of AreaAdmin: an area with a group and a path, an id    *)
(* for another one, and two people.                                         *)
EXTENDS AreaAdmin, TLC
CONSTANTS c1, c2, a1, a2, n1, n2, n3, OneOff, Recurring, g1, p1

MCConsole  == {c1, c2}
MCArea     == {a1, a2}
MCName     == {n1, n2, n3}
MCCategory == {OneOff, Recurring}
Alike      == Permutations(MCConsole) \cup Permutations({n2, n3})  \* n1 is in use
MCGroup    == {g1}
MCPath     == {p1}
MCInitial  == [a \in MCArea |-> IF a = a1 THEN [name |-> n1, category |-> OneOff,
                                               link |-> [i \in {g1, p1} |-> 1]]
                                ELSE None]
================================================================================
