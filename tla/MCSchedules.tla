------------------------------ MODULE MCSchedules ------------------------------
(* A small instance of Schedules.  One crontab has a job by hand above the  *)
(* block that runs what the managed ones run, as infra/sshd/crontab does;   *)
(* another a block that was not finished, with a comment in it.  The ids of *)
(* the first jobs of the two commands have one digest, and the third has    *)
(* both in its block.                                                       *)
EXTENDS Schedules, TLC
CONSTANTS a, b, Daily, Weekly, LastDay, u1, u2

J(command, expression, enabled) ==
  Job([expression |-> expression, command |-> command, enabled |-> enabled])

MCCommand  == {a, b}
MCPlain    == {Daily, Weekly}
MCExtended == {LastDay}
MCUpdate   == {u1, u2}
MCFiles ==
  {<<J(a, Daily, TRUE), Begin, J(a, Weekly, TRUE), J(a, Daily, FALSE), End>>,
   <<J(a, Weekly, TRUE), Begin, Remark, J(b, Daily, TRUE)>>,
   <<Begin, J(a, Daily, TRUE), J(b, Weekly, TRUE), End>>}
MCAlias    == <<b, 0>> :> <<a, 0>>
MCHandLine == {J(a, Weekly, TRUE)}
================================================================================
