------------------------------ MODULE RunRecord ------------------------------
(***************************************************************************)
(* What the row of a run promises to everybody who reads it, whoever wrote *)
(* it: the state machine of packages/contracts/src/run.ts and the end of   *)
(* the collection that ADR-011 records beside it.  The worker, the control *)
(* plane and the reaper all write the row; RunLifecycle is shown to do     *)
(* nothing to it that is not one of the steps below.                       *)
(***************************************************************************)

CONSTANT Run            \* the runs that may ever be asked for

VARIABLES
  status,               \* runs.status, "absent" before the row exists
  collection            \* runs.collected_at and runs.result_count:
                        \* "no" end recorded, "ended" with no count, "counted"

vars == <<status, collection>>

Live     == {"queued", "starting", "running"}
Terminal == {"succeeded", "failed", "aborted"}

Init ==
  /\ status = [r \in Run |-> "absent"]
  /\ collection = [r \in Run |-> "no"]

Create(r) ==
  /\ status[r] = "absent"
  /\ status' = [status EXCEPT ![r] = "queued"]
  /\ UNCHANGED collection

Claim(r) ==
  /\ status[r] = "queued"
  /\ status' = [status EXCEPT ![r] = "starting"]
  /\ UNCHANGED collection

Begin(r) ==
  /\ status[r] = "starting"
  /\ status' = [status EXCEPT ![r] = "running"]
  /\ UNCHANGED collection

(* A live run ends.  Only a run that was running can succeed, and a run   *)
(* that ended before it ran has its collection ended by the same write.   *)
Conclude(r) ==
  /\ status[r] \in Live
  /\ \E s \in Terminal, c \in {"no", "ended"} :
       /\ s = "succeeded" => status[r] = "running"
       /\ c = "no" => status[r] = "running"
       /\ status' = [status EXCEPT ![r] = s]
       /\ collection' = [collection EXCEPT ![r] = c]

(* The end of the collection is recorded, for a run that is over.  A count *)
(* once recorded stays: nothing after it may claim there was none.         *)
Settle(r) ==
  /\ status[r] \in Terminal
  /\ collection[r] # "counted"
  /\ \E c \in {"ended", "counted"} : collection' = [collection EXCEPT ![r] = c]
  /\ UNCHANGED status

Next == \E r \in Run : Create(r) \/ Claim(r) \/ Begin(r) \/ Conclude(r) \/ Settle(r)

Spec == Init /\ [][Next]_vars

=============================================================================
