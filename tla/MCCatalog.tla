------------------------------- MODULE MCCatalog -------------------------------
(* A small instance of Catalog: a directory that is mapped and one that may *)
(* be, with scripts of the same names in both.                              *)
EXTENDS Catalog, TLC
CONSTANTS s1, s2, f1, f2, ReadOnly

MCSource   == {s1, s2}
MCFile     == {f1, f2}
MCDeclared == {ReadOnly}
MCMapped   == {s1}
MCInitial  == {[s \in {s1, s2} |-> [f \in {f1, f2} |-> ReadOnly]]}
SameNames  == Permutations({f1, f2})
================================================================================
