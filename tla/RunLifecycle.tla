---------------------------- MODULE RunLifecycle ----------------------------
(***************************************************************************)
(* One run from the request that creates it to the end of its collection.  *)
(*                                                                         *)
(* Four parties act on it at once: requests to the control plane           *)
(* (runService.ts), the queue slots of the runners (consumer.ts and        *)
(* execute.ts), the script on its VM, and the clocks that expire claims    *)
(* and grace periods.  They share the row in Postgres, the queue and the   *)
(* claim keys in Redis, and the control channel.  Every statement of the   *)
(* code that is awaited is a step of its own; what runs between two awaits *)
(* is part of the step before it.                                          *)
(***************************************************************************)
EXTENDS Naturals, Sequences

CONSTANTS
  Run, Worker, Request,   \* runs, queue slots, requests to the control plane
  NoRun, NoWorker,        \* "none", as a run and as a worker
  PromptStart,            \* TRUE: no claim lapses before its first renewal
  PromptSubscribe,        \* TRUE: SUBSCRIBE is in effect two statements later
  MaxFaults,              \* statements that may throw
  MaxCrashes,             \* processes that may die
  MaxRequeues             \* jobs that may be delivered again

ASSUME SentinelsAssumption == NoRun \notin Run /\ NoWorker \notin Worker
ASSUME TimingAssumption == PromptStart \in BOOLEAN /\ PromptSubscribe \in BOOLEAN
ASSUME BoundsAssumption ==
  MaxFaults \in Nat /\ MaxCrashes \in Nat /\ MaxRequeues \in Nat

VARIABLES
  runs,       \* the runs table
  outcomes,   \* the run_finished records of the audit log, in order
  events,     \* what run_events and run_aborted records say of each run
  queue,      \* the Redis list of jobs
  claim,      \* the claim key of each run: its holder, or none
  script,     \* the script of each run as its PTY channel shows it
  starts,     \* how often a script was started for each run
  worker,     \* what each queue slot is doing
  leaked,     \* runs whose renewal interval a slot's process never cleared
  request,    \* what each request to the control plane is doing
  spent       \* how much of each bound is used up

store  == <<runs, outcomes, events>>
redis  == <<queue, claim>>
vm     == <<script, starts>>
vars   == <<store, redis, vm, worker, leaked, request, spent>>

-----------------------------------------------------------------------------
\* The row of a run

Live     == {"queued", "starting", "running"}
Terminal == {"succeeded", "failed", "aborted"}
Age      == {"unset", "fresh", "old"}   \* of a timestamp, against ORPHAN_GRACE_MS
Stamp    == {"queuedAt", "startedAt", "finishedAt"}

Row == [status : {"absent"} \cup Live \cup Terminal,
        reason : {"none", "worker_lost", "other"},
        collected : {"no", "ended", "counted"},
        asked : BOOLEAN,
        age : [Stamp -> Age]]

NoRow == [status |-> "absent", reason |-> "none", collected |-> "no",
          asked |-> FALSE, age |-> [s \in Stamp |-> "unset"]]

(* The guarded update every change of status goes through: the row r      *)
(* becomes `new` if its status is one of `from`, and stays as it is if not.*)
Write(r, row)            == runs' = [runs EXCEPT ![r] = row]
Transition(r, new, from) == IF runs[r].status \in from THEN Write(r, new) ELSE UNCHANGED runs

Queued(r)   == [runs[r] EXCEPT !.status = "queued", !.age["queuedAt"] = "fresh"]
Starting(r) == [runs[r] EXCEPT !.status = "starting"]
Running(r)  == [runs[r] EXCEPT !.status = "running", !.age["startedAt"] = "fresh"]
Exited(r, status) ==
  [runs[r] EXCEPT !.status = status, !.age["finishedAt"] = "fresh",
                  !.reason = IF status = "succeeded" THEN "none" ELSE "other"]
Ended(r, status, reason) ==   \* over before or without a collection
  [runs[r] EXCEPT !.status = status, !.age["finishedAt"] = "fresh",
                  !.reason = reason, !.collected = "ended"]

MarkCollected(r)       == Write(r, [runs[r] EXCEPT !.collected = "counted"])
MarkCollectionEnded(r) ==
  Write(r, [runs[r] EXCEPT !.collected = IF @ = "counted" THEN @ ELSE "ended"])

(* The statuses each writer allows its transition to leave.                *)
\* Those after a name are slips of the pen that the checks have to notice.
ClaimFromAny      == {"queued", "starting"}
CancelFromAny     == {"queued", "starting"}
FinishFromAny     == {"running", "starting", "failed"}
FailFromForgets   == {"queued", "running"}
ReapFromForgets   == {"running"}
ClaimFrom   == {"queued"}
CancelFrom  == {"queued"}
AbandonFrom == {"starting"}
RunFrom     == {"starting"}
FinishFrom  == {"running", "starting"}
FailFrom    == {"queued", "starting", "running"}
ReapFrom    == {"starting", "running"}

-----------------------------------------------------------------------------
\* What a slot is doing: `at` names the statement it runs next

BeforeStart == {"starting", "connected", "inspected", "clear"}
Driving     == BeforeStart \cup {"stopped", "opened", "attached", "marked", "waiting"}
Collecting  == {"ended", "recorded"}
WorkerAt    == {"idle", "down", "popped", "claimed", "abandoned", "failing",
                "failed", "release"} \cup Driving \cup Collecting

Slot == [at : WorkerAt, run : Run \cup {NoRun},
         ears : {"off", "pending", "on"},     \* the control subscription
         inbox : BOOLEAN,                     \* a stop delivered, not yet handled
         stop : {"none", "requested", "sent", "signalled"},  \* StagedAbort
         verdict : Terminal \cup {"none"},    \* the outcome to put on record
         level : {"none", "drive", "runOnce", "execute"}]  \* who called fail()

Idle == [at |-> "idle", run |-> NoRun, ears |-> "off", inbox |-> FALSE,
         stop |-> "none", verdict |-> "none", level |-> "none"]

At(w, where)  == worker[w].at = where
Become(w, s)  == worker' = [worker EXCEPT ![w] = s]
Go(w, where)  == Become(w, [worker[w] EXCEPT !.at = where])
GoFail(w, by) == Become(w, [worker[w] EXCEPT !.at = "failing", !.level = by,
                                             !.ears = "off", !.inbox = FALSE])

Holds(w, r)    == worker[w].run = r /\ worker[w].at \notin {"idle", "down", "popped"}
Drives(w, r)   == worker[w].run = r /\ worker[w].at \in Driving
Renewing(w, r) == \/ r \in leaked[w]
                  \/ /\ worker[w].run = r
                     /\ worker[w].at \in {"attached", "marked", "waiting"} \cup Collecting

Spend(kind, bound) == spent[kind] < bound /\ spent' = [spent EXCEPT ![kind] = @ + 1]

-----------------------------------------------------------------------------
\* Requests to the control plane: `at` names the statement they run next

RequestAt == {"idle", "push", "cancel", "record", "publish", "checkClaim", "reap"}
Ask   == [at : RequestAt, run : Run \cup {NoRun}, seen : {"none"} \cup Live \cup Terminal]
Quiet == [at |-> "idle", run |-> NoRun, seen |-> "none"]

RequestIs(q, where) == request[q].at = where
Turn(q, ask)        == request' = [request EXCEPT ![q] = ask]
Proceed(q, where)   == Turn(q, [request[q] EXCEPT !.at = where])
Reply(q)            == Turn(q, Quiet)

(* startRun: the row first, then the job.                                  *)
CreateRun(q, r) ==
  /\ RequestIs(q, "idle") /\ runs[r].status = "absent"
  /\ Write(r, Queued(r))
  /\ Turn(q, [at |-> "push", run |-> r, seen |-> "none"])
  /\ UNCHANGED <<outcomes, events, redis, vm, worker, leaked, spent>>

PushJob(q) ==
  /\ RequestIs(q, "push")
  /\ queue' = Append(queue, request[q].run)
  /\ Reply(q)
  /\ UNCHANGED <<store, claim, vm, worker, leaked, spent>>

(* abortRun: the row is read once, and what it said decides the way.       *)
ReadToAbort(q, r) ==
  /\ RequestIs(q, "idle") /\ runs[r].status \in Live
  /\ Turn(q, [at |-> IF runs[r].status = "queued" THEN "cancel" ELSE "record",
              run |-> r, seen |-> "none"])
  /\ UNCHANGED <<store, redis, vm, worker, leaked, spent>>

CancelQueued(q) ==
  LET r == request[q].run
      landed == runs[r].status \in CancelFrom IN
  /\ RequestIs(q, "cancel")
  /\ Transition(r, Ended(r, "aborted", "other"), CancelFrom)
  /\ events' = IF landed THEN [events EXCEPT ![r] = @ \cup {"withdrawn"}] ELSE events
  /\ IF landed THEN Reply(q) ELSE Proceed(q, "record")
  /\ UNCHANGED <<outcomes, redis, vm, worker, leaked, spent>>

RecordStop(q) ==   \* recordAbortRequest, whatever the row has become
  /\ RequestIs(q, "record")
  /\ Write(request[q].run, [runs[request[q].run] EXCEPT !.asked = TRUE])
  /\ Proceed(q, "publish")
  /\ UNCHANGED <<outcomes, events, redis, vm, worker, leaked, spent>>

(* Redis delivers to whoever is subscribed now and to nobody else; then    *)
(* the operator is told that the run is being stopped.                     *)
PublishStop(q) ==
  /\ RequestIs(q, "publish")
  /\ worker' = [w \in Worker |->
       IF worker[w].run = request[q].run /\ worker[w].ears = "on"
       THEN [worker[w] EXCEPT !.inbox = TRUE] ELSE worker[w]]
  /\ events' = [events EXCEPT ![request[q].run] = @ \cup {"stopping"}]
  /\ Reply(q)
  /\ UNCHANGED <<runs, outcomes, redis, vm, leaked, spent>>

(* reapIfOrphaned, called by every read of a run.  Reads that change and   *)
(* remember nothing are left out.                                          *)
ReadToReapLive(q, r) ==   \* a slip: a terminal run is nobody's concern
  /\ RequestIs(q, "idle") /\ runs[r].status \in ReapFrom
  /\ Turn(q, [at |-> "checkClaim", run |-> r, seen |-> runs[r].status])
  /\ UNCHANGED <<store, redis, vm, worker, leaked, spent>>

ReadToReap(q, r) ==
  /\ RequestIs(q, "idle")
  /\ \/ runs[r].status \in ReapFrom
     \/ /\ runs[r].status \in Terminal /\ runs[r].collected = "no"
        /\ runs[r].age["finishedAt"] = "old"
  /\ Turn(q, [at |-> "checkClaim", run |-> r, seen |-> runs[r].status])
  /\ UNCHANGED <<store, redis, vm, worker, leaked, spent>>

(* The timestamp of the row as it was read, against the grace period.      *)
GraceIsOver(r, seen) ==
  CASE seen = "starting" -> runs[r].age["queuedAt"] = "old"
    [] seen = "running"  -> runs[r].age["startedAt"] = "old"
    [] OTHER             -> TRUE

CheckGraceOnly(q) ==   \* a slip: the age of the run alone condemns it
  /\ RequestIs(q, "checkClaim")
  /\ IF GraceIsOver(request[q].run, request[q].seen) THEN Proceed(q, "reap") ELSE Reply(q)
  /\ UNCHANGED <<store, redis, vm, worker, leaked, spent>>

CheckClaim(q) ==
  LET r == request[q].run IN
  /\ RequestIs(q, "checkClaim")
  /\ IF claim[r] = NoWorker /\ GraceIsOver(r, request[q].seen)
     THEN Proceed(q, "reap") ELSE Reply(q)
  /\ UNCHANGED <<store, redis, vm, worker, leaked, spent>>

ReapLive(q) ==     \* the event follows whether or not the transition landed
  LET r == request[q].run IN
  /\ RequestIs(q, "reap") /\ request[q].seen \in Live
  /\ Transition(r, Ended(r, "failed", "worker_lost"), ReapFrom)
  /\ events' = [events EXCEPT ![r] = @ \cup {"gone"}]
  /\ Reply(q)
  /\ UNCHANGED <<outcomes, redis, vm, worker, leaked, spent>>

ReapCollection(q) ==
  /\ RequestIs(q, "reap") /\ request[q].seen \in Terminal
  /\ MarkCollectionEnded(request[q].run)
  /\ Reply(q)
  /\ UNCHANGED <<outcomes, events, redis, vm, worker, leaked, spent>>

RequestDies(q) ==  \* the control plane restarts, or the statement throws
  /\ ~RequestIs(q, "idle")
  /\ Spend("crashes", MaxCrashes)
  /\ Reply(q)
  /\ UNCHANGED <<store, redis, vm, worker, leaked>>

RequestStep(q) ==
  \/ \E r \in Run : CreateRun(q, r) \/ ReadToAbort(q, r) \/ ReadToReap(q, r)
  \/ PushJob(q) \/ CancelQueued(q) \/ RecordStop(q) \/ PublishStop(q)
  \/ CheckClaim(q) \/ ReapLive(q) \/ ReapCollection(q) \/ RequestDies(q)

-----------------------------------------------------------------------------
\* A queue slot: consumer.ts, then executeRun, runOnce, drive and collect

Pop(w) ==
  /\ At(w, "idle") /\ queue # <<>>
  /\ Become(w, [worker[w] EXCEPT !.at = "popped", !.run = Head(queue)])
  /\ queue' = Tail(queue)
  /\ UNCHANGED <<store, claim, vm, leaked, request, spent>>

ClaimRun(w) ==     \* SET NX: a job whose run is claimed is dropped
  LET r == worker[w].run
      free == claim[r] = NoWorker IN
  /\ At(w, "popped")
  /\ claim' = IF free THEN [claim EXCEPT ![r] = w] ELSE claim
  /\ IF free THEN Go(w, "claimed") ELSE Become(w, Idle)
  /\ UNCHANGED <<store, queue, vm, leaked, request, spent>>

TakeRun(w) ==
  LET r == worker[w].run IN
  /\ At(w, "claimed")
  /\ Transition(r, Starting(r), ClaimFrom)
  /\ Go(w, IF runs[r].status \in ClaimFrom THEN "starting" ELSE "release")
  /\ UNCHANGED <<outcomes, events, redis, vm, leaked, request, spent>>

Connect(w) ==      \* the script's entry, the SSH connection
  /\ At(w, "starting")
  /\ Go(w, "connected") \/ GoFail(w, "runOnce")
  /\ UNCHANGED <<store, redis, vm, leaked, request, spent>>

Inspect(w) ==      \* the snapshot of the output directory, then the script file
  /\ At(w, "connected")
  /\ Go(w, "inspected") \/ GoFail(w, "drive")
  /\ UNCHANGED <<store, redis, vm, leaked, request, spent>>

CheckStop(w) ==    \* stopRequested, before the script exists
  LET r == worker[w].run IN
  /\ At(w, "inspected")
  /\ Go(w, IF runs[r].asked THEN "stopped" ELSE "clear")
  /\ events' = IF runs[r].asked THEN [events EXCEPT ![r] = @ \cup {"withdrawn"}] ELSE events
  /\ UNCHANGED <<runs, outcomes, redis, vm, leaked, request, spent>>

AbandonStart(w) ==
  LET r == worker[w].run IN
  /\ At(w, "stopped")
  /\ Transition(r, Ended(r, "aborted", "other"), AbandonFrom)
  /\ Become(w, [worker[w] EXCEPT !.at = "abandoned", !.verdict = "aborted"])
  /\ UNCHANGED <<outcomes, events, redis, vm, leaked, request, spent>>

StartScript(w) ==
  LET r == worker[w].run IN
  /\ At(w, "clear")
  /\ script' = [script EXCEPT ![r] = "alive"]
  /\ starts' = [starts EXCEPT ![r] = @ + 1]
  /\ Go(w, "opened")
  /\ UNCHANGED <<store, redis, leaked, request, spent>>

Attach(w) ==       \* SUBSCRIBE is sent and not awaited; the renewal interval starts
  /\ At(w, "opened")
  /\ Become(w, [worker[w] EXCEPT !.at = "attached", !.ears = "pending"])
  /\ UNCHANGED <<store, redis, vm, leaked, request, spent>>

MarkRunning(w) ==  \* whether it landed is not looked at
  LET r == worker[w].run IN
  /\ At(w, "attached")
  /\ Transition(r, Running(r), RunFrom)
  /\ Go(w, "marked")
  /\ UNCHANGED <<outcomes, events, redis, vm, leaked, request, spent>>

RequestNothing(w) == worker[w].stop   \* a slip: the first click is not acted on

RequestAbort(w) == IF worker[w].stop = "none" /\ script[worker[w].run] = "alive"
                   THEN "requested" ELSE worker[w].stop

RecheckNothing(w) ==   \* a slip: the row is not read again
  /\ At(w, "marked")
  /\ PromptSubscribe => worker[w].ears = "on"
  /\ Go(w, "waiting")
  /\ UNCHANGED <<store, redis, vm, leaked, request, spent>>

RecheckStop(w) ==  \* the row again, now that the subscription was asked for
  /\ At(w, "marked")
  /\ PromptSubscribe => worker[w].ears = "on"
  /\ Become(w, [worker[w] EXCEPT !.at = "waiting",
       !.stop = IF runs[worker[w].run].asked THEN RequestAbort(w) ELSE @])
  /\ UNCHANGED <<store, redis, vm, leaked, request, spent>>

(* The verdict is what happened, not what was asked for.                   *)
Verdict(w, exit) ==
  IF worker[w].stop = "signalled" THEN "aborted"
  ELSE IF exit = "zero" THEN "succeeded" ELSE "failed"

FinishWith(w, exit) ==
  LET r == worker[w].run IN
  /\ Transition(r, Exited(r, Verdict(w, exit)), FinishFrom)
  /\ Become(w, [worker[w] EXCEPT !.at = "ended", !.verdict = Verdict(w, exit)])
  /\ UNCHANGED <<outcomes, events, redis, vm, leaked, request, spent>>

Finish(w) ==       \* the exit as the channel reported it
  /\ At(w, "waiting")
  /\ \E exit \in {"zero", "nonzero"} : script[worker[w].run] = exit /\ FinishWith(w, exit)

LoseConnection(w) ==   \* the channel closes and reported none
  /\ At(w, "waiting") /\ script[worker[w].run] = "alive"
  /\ FinishWith(w, "lost")

RecordOutcome(w) ==
  /\ worker[w].at \in {"ended", "abandoned"}
  /\ outcomes' = [outcomes EXCEPT ![worker[w].run] = Append(@, worker[w].verdict)]
  /\ Go(w, IF At(w, "ended") THEN "recorded" ELSE "release")
  /\ UNCHANGED <<runs, events, redis, vm, leaked, request, spent>>

Collect(w) ==      \* the listing works or it does not, and its end is recorded either way
  /\ At(w, "recorded")
  /\ MarkCollected(worker[w].run) \/ MarkCollectionEnded(worker[w].run)
  /\ Become(w, [worker[w] EXCEPT !.at = "release", !.ears = "off", !.inbox = FALSE])
  /\ UNCHANGED <<outcomes, events, redis, vm, leaked, request, spent>>

Release(w) ==      \* DEL of the key, whoever it names by now
  /\ At(w, "release")
  /\ claim' = [claim EXCEPT ![worker[w].run] = NoWorker]
  /\ Become(w, Idle)
  /\ UNCHANGED <<store, queue, vm, leaked, request, spent>>

FailRun(w) ==
  LET r == worker[w].run IN
  /\ At(w, "failing")
  /\ Transition(r, Ended(r, "failed", "other"), FailFrom)
  /\ Go(w, "failed")
  /\ UNCHANGED <<outcomes, events, redis, vm, leaked, request, spent>>

RecordFailure(w) ==   \* executeRun has no row to write the record from
  /\ At(w, "failed")
  /\ outcomes' = IF worker[w].level = "execute" THEN outcomes
                 ELSE [outcomes EXCEPT ![worker[w].run] = Append(@, "failed")]
  /\ Go(w, "release")
  /\ UNCHANGED <<runs, events, redis, vm, leaked, request, spent>>

WorkerStep(w) ==
  \/ Pop(w) \/ ClaimRun(w) \/ TakeRun(w) \/ Connect(w) \/ Inspect(w)
  \/ CheckStop(w) \/ AbandonStart(w) \/ StartScript(w) \/ Attach(w)
  \/ MarkRunning(w) \/ RecheckStop(w) \/ Finish(w) \/ RecordOutcome(w)
  \/ Collect(w) \/ Release(w) \/ FailRun(w) \/ RecordFailure(w)

-----------------------------------------------------------------------------
\* What happens in a slot beside its own steps

Subscribed(w) ==
  /\ worker[w].ears = "pending"
  /\ Become(w, [worker[w] EXCEPT !.ears = "on"])
  /\ UNCHANGED <<store, redis, vm, leaked, request, spent>>

HearStop(w) ==
  /\ worker[w].inbox
  /\ Become(w, [worker[w] EXCEPT !.inbox = FALSE, !.stop = RequestAbort(w)])
  /\ UNCHANGED <<store, redis, vm, leaked, request, spent>>

SendSignal(w) ==   \* only while the process is known to be there
  /\ worker[w].stop = "requested" /\ script[worker[w].run] = "alive"
  /\ Become(w, [worker[w] EXCEPT !.stop = "sent"])
  /\ UNCHANGED <<store, redis, vm, leaked, request, spent>>

SignalSent(w) ==   \* the second channel closed: a stage was reached
  /\ worker[w].stop = "sent"
  /\ Become(w, [worker[w] EXCEPT !.stop = "signalled"])
  /\ UNCHANGED <<store, redis, vm, leaked, request, spent>>

RenewClaim(w, r) ==   \* SET without NX
  /\ Renewing(w, r) /\ claim[r] # w
  /\ claim' = [claim EXCEPT ![r] = w]
  /\ UNCHANGED <<store, queue, vm, worker, leaked, request, spent>>

(* A statement throws.  Inside drive the connection is given up and        *)
(* runOnce records the failure; before it, or inside fail(), the next      *)
(* level does.  The renewal interval is cleared by a finally that begins   *)
(* after the second look at the row.                                       *)
ThrowTo(w) ==
  CASE worker[w].at \in {"claimed", "starting"} -> "execute"
    [] worker[w].at \in {"failing", "failed"} /\ worker[w].level = "runOnce" -> "execute"
    [] worker[w].at \in {"failing", "failed"} /\ worker[w].level = "execute" -> "none"
    [] OTHER -> "runOnce"

Throw(w) ==
  /\ worker[w].at \in {"claimed", "starting", "connected", "stopped", "abandoned", "clear",
       "opened", "attached", "marked", "waiting", "ended", "recorded", "failing", "failed"}
  /\ Spend("faults", MaxFaults)
  /\ IF ThrowTo(w) = "none" THEN Go(w, "release") ELSE GoFail(w, ThrowTo(w))
  /\ leaked' = IF worker[w].at \in {"attached", "marked"}
               THEN [leaked EXCEPT ![w] = @ \cup {worker[w].run}] ELSE leaked
  /\ UNCHANGED <<store, redis, vm, request>>

LoseJob(w) ==      \* Redis fails the claim or its release; the slot recovers without the job
  /\ worker[w].at \in {"popped", "release"}
  /\ Spend("faults", MaxFaults)
  /\ Become(w, Idle)
  /\ UNCHANGED <<store, redis, vm, leaked, request>>

CheckBlind(w) ==   \* stopRequested cannot read the row and answers "no"
  /\ worker[w].at \in {"inspected", "marked"}
  /\ Spend("faults", MaxFaults)
  /\ Go(w, IF At(w, "inspected") THEN "clear" ELSE "waiting")
  /\ UNCHANGED <<store, redis, vm, leaked, request>>

Crash(w) ==        \* killed, or out of patience while draining
  /\ ~At(w, "down")
  /\ Spend("crashes", MaxCrashes)
  /\ Become(w, [Idle EXCEPT !.at = "down"])
  /\ leaked' = [leaked EXCEPT ![w] = {}]
  /\ UNCHANGED <<store, redis, vm, request>>

Restart(w) ==
  /\ At(w, "down")
  /\ Go(w, "idle")
  /\ UNCHANGED <<store, redis, vm, leaked, request, spent>>

-----------------------------------------------------------------------------
\* The script, the clocks, the queue

Kills(w, r) == worker[w].run = r /\ worker[w].stop \in {"sent", "signalled"}

ScriptEnds(r) ==
  /\ script[r] = "alive"
  /\ \E exit \in {"zero", "nonzero"} : script' = [script EXCEPT ![r] = exit]
  /\ UNCHANGED <<store, redis, starts, worker, leaked, request, spent>>

(* A claim lives CLAIM_TTL_SECONDS, set after queuedAt and as long as the  *)
(* grace period, unless it is renewed in time.                             *)
ExpireClaim(r) ==
  /\ claim[r] # NoWorker /\ runs[r].age["queuedAt"] = "old"
  /\ ~\E w \in Worker : Renewing(w, r)
  /\ PromptStart => ~\E w \in Worker : Holds(w, r)
  /\ claim' = [claim EXCEPT ![r] = NoWorker]
  /\ UNCHANGED <<store, queue, vm, worker, leaked, request, spent>>

(* A timestamp outlives the grace period, three renewal intervals: a slot  *)
(* that renews holds its claim by then.                                    *)
GrowOld(r, s) ==
  /\ runs[r].age[s] = "fresh"
  /\ s = "startedAt" => \A w \in Worker : Renewing(w, r) => claim[r] # NoWorker
  /\ Write(r, [runs[r] EXCEPT !.age[s] = "old"])
  /\ UNCHANGED <<outcomes, events, redis, vm, worker, leaked, request, spent>>

(* A job delivered twice: what the claim's NX is there for.                *)
Requeue(r) ==
  /\ runs[r].status # "absent"
  /\ Spend("requeues", MaxRequeues)
  /\ queue' = Append(queue, r)
  /\ UNCHANGED <<store, claim, vm, worker, leaked, request>>

-----------------------------------------------------------------------------

Init ==
  /\ runs = [r \in Run |-> NoRow]
  /\ outcomes = [r \in Run |-> <<>>]
  /\ events = [r \in Run |-> {}]
  /\ queue = <<>>
  /\ claim = [r \in Run |-> NoWorker]
  /\ script = [r \in Run |-> "none"]
  /\ starts = [r \in Run |-> 0]
  /\ worker = [w \in Worker |-> Idle]
  /\ leaked = [w \in Worker |-> {}]
  /\ request = [q \in Request |-> Quiet]
  /\ spent = [faults |-> 0, crashes |-> 0, requeues |-> 0]

Beside(w) ==
  \/ Subscribed(w) \/ HearStop(w) \/ SendSignal(w) \/ SignalSent(w) \/ LoseConnection(w)
  \/ Throw(w) \/ LoseJob(w) \/ CheckBlind(w) \/ Crash(w) \/ Restart(w)
  \/ \E r \in Run : RenewClaim(w, r)

Surroundings ==
  \E r \in Run : \/ ScriptEnds(r) \/ ExpireClaim(r) \/ Requeue(r)
                 \/ \E s \in Stamp : GrowOld(r, s)

Next ==
  \/ \E q \in Request : RequestStep(q)
  \/ \E w \in Worker : WorkerStep(w) \/ Beside(w)
  \/ Surroundings

Spec == Init /\ [][Next]_vars

(* Fairness.  A slot is an event loop whose every await ends: SSH and the  *)
(* stores have timeouts.  Signals and Redis messages are delivered, time   *)
(* passes, and a killed script ends.  The console polls, so the rows it    *)
(* shows are read again and again.  Nothing makes a script end by itself,  *)
(* or anybody ask for a run or for its end.                                *)
Fairness ==
  /\ \A w \in Worker :
       /\ WF_vars(WorkerStep(w))
       /\ WF_vars(Subscribed(w)) /\ WF_vars(HearStop(w))
       /\ WF_vars(SendSignal(w)) /\ WF_vars(SignalSent(w)) /\ WF_vars(Restart(w))
  /\ \A q \in Request :
       WF_vars(PushJob(q) \/ CancelQueued(q) \/ RecordStop(q) \/ PublishStop(q)
               \/ CheckClaim(q) \/ ReapLive(q) \/ ReapCollection(q))
  /\ \A r \in Run :
       /\ SF_vars(\E q \in Request : ReadToReap(q, r))
       /\ WF_vars(ExpireClaim(r))
       /\ \A s \in Stamp : WF_vars(GrowOld(r, s))
       /\ \A w \in Worker : WF_vars(RenewClaim(w, r))
       /\ WF_vars((\E w \in Worker : Kills(w, r)) /\ ScriptEnds(r))

FairSpec == Spec /\ Fairness

-----------------------------------------------------------------------------
\* Properties

(* Types.                                                                  *)
TypeOK ==
  /\ runs \in [Run -> Row]
  /\ outcomes \in [Run -> Seq(Terminal)]
  /\ events \in [Run -> SUBSET {"withdrawn", "stopping", "gone"}]
  /\ queue \in Seq(Run)
  /\ claim \in [Run -> Worker \cup {NoWorker}]
  /\ script \in [Run -> {"none", "alive", "zero", "nonzero"}]
  /\ starts \in [Run -> Nat]
  /\ worker \in [Worker -> Slot]
  /\ leaked \in [Worker -> SUBSET Run]
  /\ request \in [Request -> Ask]
  /\ spent \in [{"faults", "crashes", "requeues"} -> Nat]

(* Whoever writes the row, in whatever order: it moves through the states  *)
(* of RunRecord only, never out of a terminal one, and its collection ends *)
(* after the run does (runRepository.transition and its callers).          *)
Record == INSTANCE RunRecord WITH
  status     <- [r \in Run |-> runs[r].status],
  collection <- [r \in Run |-> runs[r].collected]

FollowsTheRecord == Record!Spec

(* A job delivered again, a claim that lapsed and a slot that came back do *)
(* not start a script twice (consumer.ts 76-81, execute.ts 67-71).         *)
StartedOnce == \A r \in Run : starts[r] <= 1

(* A run stopped before it started, from the queue or by the slot that was *)
(* about to start it, never starts (runService.ts 200-209, execute.ts 143).*)
WithdrawnNeverStarts == \A r \in Run : "withdrawn" \in events[r] => starts[r] = 0

(* The claim is what tells a lost worker from a slow one: a run failed as  *)
(* worker_lost has no slot carrying it on (runService.ts 265-268).         *)
ReapedHasNoDriver ==
  \A r \in Run : runs[r].reason = "worker_lost" => ~\E w \in Worker : Drives(w, r)

(* The audit trail and the row agree on how a run ended, there is at most  *)
(* one record of it, and if no process died a run that a slot carried to   *)
(* its end has one (execute.ts 440-458, FA-12.1).                          *)
AuditAgrees ==
  \A r \in Run :
    /\ outcomes[r] \in {<<>>, <<runs[r].status>>}
    /\ \/ outcomes[r] # <<>> \/ "withdrawn" \in events[r] \/ spent.crashes > 0
       \/ runs[r].status \notin Terminal
       \/ \E w \in Worker : Holds(w, r)

(* A stop that an operator was told is under way is known to the slot that *)
(* waits for the script, whichever way the request and the opening of the  *)
(* terminal crossed (execute.ts 143-153 and 238-242).                      *)
StopIsHeard ==
  \A w \in Worker, r \in Run :
    (/\ worker[w].run = r /\ At(w, "waiting")
     /\ "stopping" \in events[r] /\ script[r] = "alive")
    => worker[w].inbox \/ worker[w].stop # "none"

(* A stop that an operator was told is under way ends the run, by a signal *)
(* or, if the slot that would have sent it died, by the next reads         *)
(* (FA-08.1; abortRun, drive and reapIfOrphaned between them).             *)
StopEndsTheRun ==
  \A r \in Run : "stopping" \in events[r] ~> runs[r].status \in Terminal

(* A run that left the queue and that nobody carries on is ended.          *)
OrphanIsEnded ==
  \A r \in Run : (runs[r].status \in {"starting", "running"} /\ ~\E w \in Worker : Holds(w, r))
                 ~> runs[r].status \in Terminal

(* Nothing polls for ever: a run that is over records the end of its       *)
(* collection (ADR-011).                                                   *)
CollectionSettles ==
  \A r \in Run : runs[r].status \in Terminal ~> runs[r].collected # "no"

=============================================================================
