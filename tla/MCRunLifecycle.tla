--------------------------- MODULE MCRunLifecycle ---------------------------
(***************************************************************************)
(* RunLifecycle on small instances: slots and requests are interchangeable *)
(* in the runs that check no liveness.                                     *)
(***************************************************************************)
EXTENDS RunLifecycle, TLC

Interchangeable == Permutations(Worker) \cup Permutations(Request)
=============================================================================
