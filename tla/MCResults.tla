------------------------------- MODULE MCResults -------------------------------
(* A small instance of Results: a file that is there before, and one that   *)
(* is not.                                                                  *)
EXTENDS Results
CONSTANTS f1, f2
MCFile  == {f1, f2}
MCThere == {f1}
================================================================================
