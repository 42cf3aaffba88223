----------------------------- MODULE StagedAbort -----------------------------
(***************************************************************************)
(* The stop of one running script in detail: what RunLifecycle folds into  *)
(* "sent" and "signalled".  A click starts the escalation of ADR-003; each *)
(* stage is a kill command on a second channel of the SSH connection, and  *)
(* the channel of the terminal closes beside it in an order of its own.    *)
(* The model begins when the terminal is open and the run is on record as  *)
(* running, and ends when the run is wound up.                             *)
(***************************************************************************)
EXTENDS StopPromise, Sequences

CONSTANTS
  Patient,        \* the stages configured with a grace period above zero
  MaxClicks,      \* stop requests that reach the worker
  MaxLost         \* signals or reports that may fail, and lost connections

Stage == 1..3     \* sigint, sigterm, sigkill

ASSUME StagingAssumption ==
  Patient \subseteq Stage \ {3} /\ MaxClicks \in Nat /\ MaxLost \in Nat

VARIABLES      \* beside those of StopPromise
  process,     \* the script on its VM, or how it ended
  kill,        \* the kill command on the second channel
  escalation,  \* StagedAbort: what it does next, its stage, the stage reached
  outcome,     \* the run_finished record, or none
  trail,       \* the stages with an abort_signalled event
  clicks, lost \* how much of each bound is used up

vm    == <<process, struck>>
known == <<exit, overtaken>>
book  == <<row, outcome, trail>>
vars  == <<vm, known, kill, escalation, drive, book, sent, clicks, lost>>

Ending   == {"zero", "nonzero", "signal"}
Terminal == {"succeeded", "failed", "aborted"}
Mark     == [status : {"running"} \cup Terminal, stage : 0..3]
NoRecord == [status |-> "running", stage |-> 0]

At(where)     == escalation.at = where
Move(where)   == escalation' = [escalation EXCEPT !.at = where]
MayLose       == lost < MaxLost /\ lost' = lost + 1

-----------------------------------------------------------------------------
\* The escalation

(* The next stage's command leaves in the step that decided on it.         *)
Send(stage) ==
  /\ escalation' = [escalation EXCEPT !.at = "sending", !.stage = stage]
  /\ kill' = "sent"
  /\ sent' = Append(sent, stage)

RequestAgain ==   \* a slip: every click starts an escalation
  IF ExitIsKnown THEN UNCHANGED <<escalation, kill, sent>> ELSE Send(1)

Request ==        \* too late, already under way, or acted on
  IF ExitIsKnown \/ ~At("idle") THEN UNCHANGED <<escalation, kill, sent>> ELSE Send(1)

Click ==
  /\ drive # "over" /\ clicks < MaxClicks
  /\ clicks' = clicks + 1
  /\ Request
  /\ UNCHANGED <<vm, known, drive, book, lost>>

(* The second channel closed.  The exit code of the command is not looked  *)
(* at, and a connection that drops closes its channels too.                *)
SignalSent ==
  /\ At("sending")
  /\ kill = "run" \/ (kill = "sent" /\ exit = "lost")
  /\ kill' = "none"
  /\ escalation' = [escalation EXCEPT !.at = "reporting", !.reached = escalation.stage]
  /\ UNCHANGED <<vm, known, drive, book, sent, clicks, lost>>

(* After a stage: nothing to wait for if no grace period follows it.       *)
RestAfterOne(stage) == Move("over")     \* a slip: one stage and no more
Rest(stage)         == Move(IF stage \in Patient THEN "pausing" ELSE "over")

SignalFails ==    \* the channel is refused; warned about, and the stage is over
  /\ At("sending") /\ kill = "sent" /\ MayLose
  /\ kill' = "none"
  /\ Rest(escalation.stage)
  /\ UNCHANGED <<vm, known, drive, book, sent, clicks>>

Tell(stage)       == trail' = trail \cup {stage}

ReportStage ==    \* onStage: the event first
  /\ At("reporting")
  /\ Tell(escalation.stage)
  /\ Move("marking")
  /\ UNCHANGED <<vm, known, kill, drive, row, outcome, sent, clicks, lost>>

MarkStage ==      \* then the row, guarded on running
  /\ At("marking")
  /\ row' = IF row.status = "running" THEN [row EXCEPT !.stage = escalation.reached] ELSE row
  /\ Rest(escalation.stage)
  /\ UNCHANGED <<vm, known, kill, drive, outcome, trail, sent, clicks, lost>>

ReportFails ==
  /\ At("reporting") \/ At("marking")
  /\ MayLose
  /\ Rest(escalation.stage)
  /\ UNCHANGED <<vm, known, kill, drive, book, sent, clicks>>

GraceEndsBlind == \* a slip: the process is not looked for again
  /\ At("pausing")
  /\ Send(escalation.stage + 1)
  /\ UNCHANGED <<vm, known, drive, book, clicks, lost>>

GraceEnds ==      \* the process is gone, or the next stage is due
  /\ At("pausing")
  /\ IF ExitIsKnown THEN Move("over") /\ UNCHANGED <<kill, sent>>
                    ELSE Send(escalation.stage + 1)
  /\ UNCHANGED <<vm, known, drive, book, clicks, lost>>

-----------------------------------------------------------------------------
\* The VM and the connection

(* The kill command runs: it finds the process group or finds nothing.     *)
(* What a signal that can be caught makes of the script is the script's.   *)
Strike ==
  /\ kill = "sent" /\ drive # "over"
  /\ kill' = "run"
  /\ IF process = "alive"
     THEN /\ struck' = struck \cup {escalation.stage}
          /\ process' \in IF escalation.stage = 3 THEN {"signal"} ELSE Ending \cup {"alive"}
     ELSE UNCHANGED vm
  /\ UNCHANGED <<known, escalation, drive, book, sent, clicks, lost>>

ScriptEnds ==
  /\ process = "alive"
  /\ process' \in Ending
  /\ UNCHANGED <<struck, known, kill, escalation, drive, book, sent, clicks, lost>>

(* The worker learns of the end, and escalation with it; the channel of a  *)
(* kill that has just run may close before that or after it.               *)
CloseTerminal ==
  /\ process # "alive" /\ ~ExitIsKnown
  /\ exit' = process
  /\ overtaken' = IF kill = "run" THEN escalation.stage ELSE overtaken
  /\ UNCHANGED <<vm, kill, escalation, drive, book, sent, clicks, lost>>

LoseConnection == \* every channel closes, and no exit was reported
  /\ ~ExitIsKnown /\ MayLose
  /\ exit' = "lost"
  /\ UNCHANGED <<vm, overtaken, kill, escalation, drive, book, sent, clicks>>

-----------------------------------------------------------------------------
\* drive, once the exit is known

VerdictByExit == IF exit = "zero" THEN "succeeded"   \* a slip: the exit decides alone
                 ELSE IF exit = "signal" THEN "aborted" ELSE "failed"

Verdict == IF escalation.reached # 0 THEN "aborted"
           ELSE IF exit = "zero" THEN "succeeded" ELSE "failed"

Finish ==         \* after the flush of the stream
  /\ drive = "waiting" /\ ExitIsKnown
  /\ row' = [status |-> Verdict, stage |-> escalation.reached]
  /\ drive' = "ended"
  /\ UNCHANGED <<vm, known, kill, escalation, outcome, trail, sent, clicks, lost>>

RecordOutcome ==  \* the status decided then, the stage reached by now
  /\ drive = "ended"
  /\ outcome' = [status |-> row.status, stage |-> escalation.reached]
  /\ drive' = "recorded"
  /\ UNCHANGED <<vm, known, kill, escalation, row, trail, sent, clicks, lost>>

WindUp ==         \* control closed, pid file removed, connection given up
  /\ drive = "recorded"
  /\ drive' = "over"
  /\ UNCHANGED <<vm, known, kill, escalation, book, sent, clicks, lost>>

-----------------------------------------------------------------------------

Init ==
  /\ process = "alive" /\ struck = {} /\ exit = "open" /\ overtaken = 0 /\ kill = "none"
  /\ escalation = [at |-> "idle", stage |-> 0, reached |-> 0]
  /\ drive = "waiting"
  /\ row = NoRecord /\ outcome = NoRecord /\ trail = {}
  /\ sent = <<>> /\ clicks = 0 /\ lost = 0

Escalate == SignalSent \/ ReportStage \/ MarkStage \/ GraceEnds
Drive    == Finish \/ RecordOutcome \/ WindUp
Next == \/ Click \/ Escalate \/ Drive \/ Strike \/ ScriptEnds \/ CloseTerminal
        \/ SignalFails \/ ReportFails \/ LoseConnection

Spec == Init /\ [][Next]_vars

(* The escalation and drive run on one event loop, commands and closes are *)
(* delivered; nothing makes the script end or anybody click.               *)
FairSpec == /\ Spec
            /\ WF_vars(Escalate) /\ WF_vars(Drive)
            /\ WF_vars(Strike) /\ WF_vars(CloseTerminal)

-----------------------------------------------------------------------------
\* Properties

TypeOK ==
  /\ process \in Ending \cup {"alive"} /\ struck \subseteq Stage
  /\ exit \in Ending \cup {"open", "lost"} /\ overtaken \in 0..3
  /\ kill \in {"none", "sent", "run"}
  /\ escalation \in [at : {"idle", "sending", "reporting", "marking", "pausing", "over"},
                     stage : 0..3, reached : 0..3]
  /\ drive \in {"waiting", "ended", "recorded", "over"}
  /\ row \in Mark /\ outcome \in Mark
  /\ trail \subseteq Stage /\ sent \in Seq(Stage)
  /\ clicks \in Nat /\ lost \in Nat

(* A stop that was acted on ends the run, if no signal was lost on the way *)
(* (FA-08.1, FA-08.2: the scripts have no natural end).                    *)
StopTakesEffect == sent # <<>> ~> drive = "over" \/ lost > 0

=============================================================================
