----------------------------- MODULE StopPromise -----------------------------
(***************************************************************************)
(* What somebody who stops a run may rely on, in the terms of ADR-003: the *)
(* signals that found the script, what its end was known to be, what was   *)
(* sent and when, and what the row says in the end.  StagedAbort is how    *)
(* the worker keeps to it.                                                 *)
(***************************************************************************)
EXTENDS Naturals

VARIABLES
  struck,      \* the stages whose signal found the script there
  exit,        \* what the terminal's channel told the worker
  overtaken,   \* history: the stage of the kill that had run, and whose own
               \* channel was still open, when that told of the end; 0: none
  drive,       \* how far the wind-up of the run has come
  row,         \* runs.status and runs.abort_stage
  sent         \* the stages in the order their commands were sent

ExitIsKnown == exit # "open"

(* A run that a human stopped is on record as aborted: the script was      *)
(* there when a signal arrived, its end was reported, and the status says  *)
(* so.  It does not if the only signal that found the script had not been  *)
(* answered for when the terminal closed (abort.ts 105-106, execute.ts     *)
(* 253-254).                                                               *)
StoppedIsAborted ==
  drive # "waiting" /\ struck # {} /\ exit # "lost" =>
    row.status = "aborted" \/ struck = {overtaken}

(* What wasSignalled is said to be, and the status with it: "True once a   *)
(* signal was actually sent, to a process that was still there" (abort.ts  *)
(* 54-60).                                                                 *)
SignalledIsAborted ==
  drive # "waiting" /\ struck # {} /\ exit # "lost" => row.status = "aborted"

(* However often stop is pressed, each stage is sent at most once, in the  *)
(* order of ADR-003 (abort.ts 71-77).                                      *)
StagesInOrder == \E n \in 0..3 : sent = [i \in 1..n |-> i]

(* Once the worker knows that the script is gone, no command leaves any   *)
(* more, for a late click or for a grace period that ran out (abort.ts     *)
(* 79-81 and 98-101).                                                      *)
NothingIsSentAfterTheEnd == [][~ExitIsKnown]_sent

=============================================================================
