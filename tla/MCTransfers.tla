------------------------------ MODULE MCTransfers ------------------------------
(* A small instance of Transfers: a file of two chunks and one of one, and  *)
(* ceilings that both can reach.                                            *)
EXTENDS Transfers
CONSTANTS f1, f2
MCFile    == {f1, f2}
MCInitial == [f \in MCFile |-> IF f = f1 THEN 2 ELSE 1]
================================================================================
