------------------------- MODULE RunLifecycleProofs -------------------------
(***************************************************************************)
(* What holds of RunLifecycle for every set of runs, slots and requests    *)
(* and every bound on faults, crashes and second deliveries: its types,    *)
(* that a script is started at most once for a run, and never after the    *)
(* run was withdrawn; that it implements RunRecord; and, on conditions,    *)
(* that the reaper is right about lost workers, that row and audit log     *)
(* agree, that a stop is heard, and that a queued run has its job.  The    *)
(* last part takes StagedAbort, the stop in detail, as an instance and     *)
(* proves what it promises of the order of the signals, the outcome and    *)
(* the row.                                                                *)
(***************************************************************************)
EXTENDS RunLifecycle, StopPromise, TLAPS

-----------------------------------------------------------------------------
\* Types

(* A slot that is busy is busy with a run, and one that has an outcome to  *)
(* put on record knows it; a request in progress is about a run.           *)
BusySlot ==
  {s \in Slot : /\ s.at \notin {"idle", "down"} => s.run \in Run
                /\ s.at \in {"ended", "abandoned"} => s.verdict \in Terminal}

BusyAsk == {a \in Ask : a.at # "idle" => a.run \in Run}

TypeInv ==
  /\ TypeOK
  /\ worker \in [Worker -> BusySlot]
  /\ request \in [Request -> BusyAsk]

(* Writing one entry of a table changes that entry and no other.           *)
LEMMA WriteEffect ==
  ASSUME runs \in [Run -> Row], NEW r \in Run, NEW new \in Row, Write(r, new)
  PROVE  /\ runs' \in [Run -> Row]
         /\ \A x \in Run : runs'[x] = IF x = r THEN new ELSE runs[x]
  BY DEF Write

LEMMA BecomeEffect ==
  ASSUME NEW S, worker \in [Worker -> S], NEW w \in Worker, NEW s \in S, Become(w, s)
  PROVE  /\ worker' \in [Worker -> S]
         /\ \A v \in Worker : worker'[v] = IF v = w THEN s ELSE worker[v]
  BY DEF Become

LEMMA TurnEffect ==
  ASSUME NEW S, request \in [Request -> S], NEW q \in Request, NEW a \in S, Turn(q, a)
  PROVE  /\ request' \in [Request -> S]
         /\ \A p \in Request : request'[p] = IF p = q THEN a ELSE request[p]
  BY DEF Turn

(* The rows the writers put in place have the shape of a row.              *)
LEMMA RowTypes ==
  ASSUME runs \in [Run -> Row], NEW r \in Run
  PROVE  /\ Queued(r) \in Row
         /\ Starting(r) \in Row
         /\ Running(r) \in Row
         /\ \A s \in Terminal : Exited(r, s) \in Row
         /\ \A s \in Terminal, y \in {"none", "worker_lost", "other"} : Ended(r, s, y) \in Row
<1> USE DEF Row, Live, Terminal, Age, Stamp
<1>0. runs[r] \in Row
  OBVIOUS
<1>1. Queued(r) \in Row /\ Starting(r) \in Row
  BY <1>0 DEF Starting, Queued
<1>2. Running(r) \in Row
  BY <1>0 DEF Running
<1>3. ASSUME NEW s \in Terminal PROVE Exited(r, s) \in Row
  BY <1>0 DEF Exited
<1>4. ASSUME NEW s \in Terminal, NEW y \in {"none", "worker_lost", "other"}
      PROVE  Ended(r, s, y) \in Row
  BY <1>0 DEF Ended
<1>. QED
  BY <1>1, <1>2, <1>3, <1>4

(* A guarded update of the status keeps the table well typed.              *)
LEMMA TransitionType ==
  ASSUME runs \in [Run -> Row], NEW r \in Run, NEW new \in Row, NEW from,
         Transition(r, new, from)
  PROVE  runs' \in [Run -> Row]
  BY WriteEffect DEF Transition

(* A busy slot may go on to any statement that records no outcome, or to   *)
(* one that does once it knows it.                                         *)
LEMMA SlotEdits ==
  ASSUME NEW s \in BusySlot
  PROVE  /\ Idle \in BusySlot
         /\ [Idle EXCEPT !.at = "down"] \in BusySlot
         /\ s.run \in Run =>
              /\ \A a \in WorkerAt \ {"ended", "abandoned"} : [s EXCEPT !.at = a] \in BusySlot
              /\ \A v \in Terminal :
                   /\ [s EXCEPT !.at = "abandoned", !.verdict = v] \in BusySlot
                   /\ [s EXCEPT !.at = "ended", !.verdict = v] \in BusySlot
              /\ \A b \in {"drive", "runOnce", "execute"} :
                   [s EXCEPT !.at = "failing", !.level = b, !.ears = "off", !.inbox = FALSE]
                     \in BusySlot
         /\ \A r \in Run : [s EXCEPT !.at = "popped", !.run = r] \in BusySlot
         /\ \A e \in {"off", "pending", "on"} : [s EXCEPT !.ears = e] \in BusySlot
         /\ \A h \in BOOLEAN : [s EXCEPT !.inbox = h] \in BusySlot
         /\ \A x \in {"none", "requested", "sent", "signalled"} : [s EXCEPT !.stop = x] \in BusySlot
<1>1. Idle \in BusySlot /\ [Idle EXCEPT !.at = "down"] \in BusySlot
  BY DEF BusySlot, Slot, Idle, WorkerAt, Driving, BeforeStart, Collecting, Terminal
<1>2. ASSUME s.run \in Run, NEW a \in WorkerAt \ {"ended", "abandoned"}
      PROVE  [s EXCEPT !.at = a] \in BusySlot
  BY <1>2 DEF BusySlot, Slot, Idle, WorkerAt, Driving, BeforeStart, Collecting, Terminal
<1>3. ASSUME s.run \in Run, NEW v \in Terminal
      PROVE  /\ [s EXCEPT !.at = "abandoned", !.verdict = v] \in BusySlot
             /\ [s EXCEPT !.at = "ended", !.verdict = v] \in BusySlot
  BY <1>3 DEF BusySlot, Slot, Idle, WorkerAt, Driving, BeforeStart, Collecting, Terminal
<1>4. ASSUME s.run \in Run, NEW b \in {"drive", "runOnce", "execute"}
      PROVE  [s EXCEPT !.at = "failing", !.level = b, !.ears = "off", !.inbox = FALSE]
               \in BusySlot
  BY <1>4 DEF BusySlot, Slot, Idle, WorkerAt, Driving, BeforeStart, Collecting, Terminal
<1>5. ASSUME NEW r \in Run PROVE [s EXCEPT !.at = "popped", !.run = r] \in BusySlot
  BY DEF BusySlot, Slot, Idle, WorkerAt, Driving, BeforeStart, Collecting, Terminal
<1>6. ASSUME NEW e \in {"off", "pending", "on"} PROVE [s EXCEPT !.ears = e] \in BusySlot
  BY DEF BusySlot, Slot, Idle, WorkerAt, Driving, BeforeStart, Collecting, Terminal
<1>7. ASSUME NEW h \in BOOLEAN PROVE [s EXCEPT !.inbox = h] \in BusySlot
  BY DEF BusySlot, Slot, Idle, WorkerAt, Driving, BeforeStart, Collecting, Terminal
<1>8. ASSUME NEW x \in {"none", "requested", "sent", "signalled"}
      PROVE  [s EXCEPT !.stop = x] \in BusySlot
  BY DEF BusySlot, Slot, Idle, WorkerAt, Driving, BeforeStart, Collecting, Terminal
<1>. QED
  BY <1>1, <1>2, <1>3, <1>4, <1>5, <1>6, <1>7, <1>8

LEMMA RowEdits ==
  ASSUME NEW old \in Row
  PROVE  /\ [old EXCEPT !.asked = TRUE] \in Row
         /\ \A c \in {"no", "ended", "counted"} : [old EXCEPT !.collected = c] \in Row
         /\ old.collected \in {"no", "ended", "counted"}
         /\ \A x \in Stamp : [old EXCEPT !.age[x] = "old"] \in Row
  BY DEF Row, Age

(* Recording a stop, the end of a collection or the passing of time leaves *)
(* the status alone.                                                       *)
LEMMA SmallEdits ==
  ASSUME NEW old \in Row
  PROVE  /\ LET new == [old EXCEPT !.asked = TRUE]
            IN  /\ new.status = old.status /\ new.collected = old.collected
                /\ new.reason = old.reason
         /\ \A c : LET new == [old EXCEPT !.collected = c]
                   IN  new.status = old.status /\ new.collected = c /\ new.reason = old.reason
         /\ \A x : LET new == [old EXCEPT !.age[x] = "old"]
                   IN  /\ new.status = old.status /\ new.collected = old.collected
                       /\ new.reason = old.reason
  BY DEF Row

LEMMA EndedEdit ==
  ASSUME NEW old \in Row
  PROVE  LET new == [old EXCEPT !.collected = IF @ = "counted" THEN @ ELSE "ended"]
         IN  /\ new \in Row /\ new.status = old.status /\ new.reason = old.reason
             /\ new.collected = IF old.collected = "counted" THEN "counted" ELSE "ended"
<1> DEFINE new(c) == [old EXCEPT !.collected = c]
<1>1. /\ new("ended") \in Row /\ new("ended").status = old.status
      /\ new("ended").reason = old.reason /\ new("ended").collected = "ended"
  BY RowEdits, SmallEdits
<1>2. /\ new("counted") \in Row /\ new("counted").status = old.status
      /\ new("counted").reason = old.reason /\ new("counted").collected = "counted"
  BY RowEdits, SmallEdits
<1>. QED
  BY <1>1, <1>2

LEMMA AskEdits ==
  ASSUME NEW a \in BusyAsk
  PROVE  /\ Quiet \in BusyAsk
         /\ \A r \in Run, n \in {"none"} \cup Live \cup Terminal, x \in RequestAt :
              [at |-> x, run |-> r, seen |-> n] \in BusyAsk
         /\ a.run \in Run => \A x \in RequestAt : [a EXCEPT !.at = x] \in BusyAsk
<1>1. Quiet \in BusyAsk
  BY DEF BusyAsk, Ask, Quiet, RequestAt
<1>2. ASSUME NEW r \in Run, NEW n \in {"none"} \cup Live \cup Terminal, NEW x \in RequestAt
      PROVE  [at |-> x, run |-> r, seen |-> n] \in BusyAsk
  BY DEF BusyAsk, Ask
<1>3. ASSUME a.run \in Run, NEW x \in RequestAt PROVE [a EXCEPT !.at = x] \in BusyAsk
  BY <1>3 DEF BusyAsk, Ask
<1>. QED
  BY <1>1, <1>2, <1>3

LEMMA BusyIsTyped ==
  /\ [Worker -> BusySlot] \subseteq [Worker -> Slot]
  /\ [Request -> BusyAsk] \subseteq [Request -> Ask]
  BY DEF BusySlot, BusyAsk

LEMMA TypeInit == Init => TypeInv
<1>1. Idle \in BusySlot /\ Quiet \in BusyAsk /\ NoRow \in Row
  BY DEF Idle, BusySlot, Slot, WorkerAt, Quiet, BusyAsk, Ask, RequestAt, NoRow, Row, Age, Stamp
<1>. QED
  BY <1>1, BusyIsTyped DEF Init, TypeInv, TypeOK

(* The steps of a request.                                                 *)
LEMMA RequestTypes ==
  ASSUME TypeInv, NEW q \in Request, RequestStep(q)
  PROVE  TypeInv'
<1>. USE BusyIsTyped DEF TypeInv
<1>a. request[q] \in BusyAsk
  OBVIOUS
<1>b. request[q].at # "idle" => request[q].run \in Run
  BY <1>a DEF BusyAsk
<1>c. Reply(q) => request' \in [Request -> BusyAsk]
  BY <1>a, AskEdits, TurnEffect DEF Reply
<1>d. request[q].run \in Run =>
        \A x \in RequestAt : Proceed(q, x) => request' \in [Request -> BusyAsk]
  BY <1>a, AskEdits, TurnEffect DEF Proceed
<1>e. "aborted" \in Terminal /\ "failed" \in Terminal /\ Live \subseteq {"none"} \cup Live \cup Terminal
      /\ {"idle", "push", "cancel", "record", "publish", "checkClaim", "reap"} = RequestAt
  BY DEF Terminal, RequestAt
<1>1. ASSUME NEW r \in Run, CreateRun(q, r) PROVE TypeInv'
  <2>1. runs' \in [Run -> Row]
    BY <1>1, RowTypes, WriteEffect DEF CreateRun, TypeOK
  <2>2. request' \in [Request -> BusyAsk]
    <3>1. [at |-> "push", run |-> r, seen |-> "none"] \in BusyAsk
      BY <1>a, <1>e, AskEdits
    <3>. QED
      BY <1>1, <3>1, TurnEffect DEF CreateRun
  <2>. QED
    BY <1>1, <2>1, <2>2 DEF CreateRun, TypeOK, redis, vm
<1>2. ASSUME PushJob(q) PROVE TypeInv'
  <2>1. request[q].run \in Run
    BY <1>2, <1>b DEF PushJob, RequestIs
  <2>2. queue' \in Seq(Run)
    BY <1>2, <2>1 DEF PushJob, TypeOK
  <2>. QED
    BY <1>2, <1>c, <2>2 DEF PushJob, TypeOK, store, vm
<1>3. ASSUME NEW r \in Run, ReadToAbort(q, r) PROVE TypeInv'
  <2>1. request' \in [Request -> BusyAsk]
    <3>1. [at |-> IF runs[r].status = "queued" THEN "cancel" ELSE "record",
           run |-> r, seen |-> "none"] \in BusyAsk
      BY <1>a, <1>e, AskEdits
    <3>. QED
      BY <1>3, <3>1, TurnEffect DEF ReadToAbort
  <2>. QED
    BY <1>3, <2>1 DEF ReadToAbort, TypeOK, store, redis, vm
<1>4. ASSUME CancelQueued(q) PROVE TypeInv'
  <2>1. request[q].run \in Run
    BY <1>4, <1>b DEF CancelQueued, RequestIs
  <2>2. runs' \in [Run -> Row]
    BY <1>4, <1>e, <2>1, RowTypes, TransitionType DEF CancelQueued, TypeOK
  <2>3. request' \in [Request -> BusyAsk]
    BY <1>4, <1>c, <1>d, <1>e, <2>1 DEF CancelQueued
  <2>4. events' \in [Run -> SUBSET {"withdrawn", "stopping", "gone"}]
    BY <1>4, <2>1 DEF CancelQueued, TypeOK
  <2>. QED
    BY <1>4, <2>2, <2>3, <2>4 DEF CancelQueued, TypeOK, redis, vm
<1>5. ASSUME RecordStop(q) PROVE TypeInv'
  <2>1. request[q].run \in Run
    BY <1>5, <1>b DEF RecordStop, RequestIs
  <2>2. [runs[request[q].run] EXCEPT !.asked = TRUE] \in Row
    BY <2>1, RowEdits DEF TypeOK
  <2>3. runs' \in [Run -> Row]
    BY <1>5, <2>1, <2>2, WriteEffect DEF RecordStop, TypeOK
  <2>4. request' \in [Request -> BusyAsk]
    BY <1>5, <1>d, <1>e, <2>1 DEF RecordStop
  <2>. QED
    BY <1>5, <2>3, <2>4 DEF RecordStop, TypeOK, redis, vm
<1>6. ASSUME PublishStop(q) PROVE TypeInv'
  <2>1. request[q].run \in Run
    BY <1>6, <1>b DEF PublishStop, RequestIs
  <2>2. \A v \in Worker : [worker[v] EXCEPT !.inbox = TRUE] \in BusySlot
    BY SlotEdits
  <2>3. worker' \in [Worker -> BusySlot]
    BY <1>6, <2>2 DEF PublishStop
  <2>4. events' \in [Run -> SUBSET {"withdrawn", "stopping", "gone"}]
    BY <1>6, <2>1 DEF PublishStop, TypeOK
  <2>. QED
    BY <1>6, <1>c, <2>3, <2>4 DEF PublishStop, TypeOK, redis, vm
<1>7. ASSUME NEW r \in Run, ReadToReap(q, r) PROVE TypeInv'
  <2>1. runs[r].status \in {"none"} \cup Live \cup Terminal
    BY <1>7 DEF ReadToReap, ReapFrom, Live
  <2>2. request' \in [Request -> BusyAsk]
    BY <1>7, <1>a, <1>e, <2>1, AskEdits, TurnEffect DEF ReadToReap
  <2>. QED
    BY <1>7, <2>2 DEF ReadToReap, TypeOK, store, redis, vm
<1>8. ASSUME CheckClaim(q) PROVE TypeInv'
  <2>1. request[q].run \in Run
    BY <1>8, <1>b DEF CheckClaim, RequestIs
  <2>2. request' \in [Request -> BusyAsk]
    BY <1>8, <1>c, <1>d, <1>e, <2>1 DEF CheckClaim
  <2>. QED
    BY <1>8, <2>2 DEF CheckClaim, TypeOK, store, redis, vm
<1>9. ASSUME ReapLive(q) PROVE TypeInv'
  <2>1. request[q].run \in Run
    BY <1>9, <1>b DEF ReapLive, RequestIs
  <2>2. runs' \in [Run -> Row]
    BY <1>9, <1>e, <2>1, RowTypes, TransitionType DEF ReapLive, TypeOK
  <2>3. events' \in [Run -> SUBSET {"withdrawn", "stopping", "gone"}]
    BY <1>9, <2>1 DEF ReapLive, TypeOK
  <2>. QED
    BY <1>9, <1>c, <2>2, <2>3 DEF ReapLive, TypeOK, redis, vm
<1>10. ASSUME ReapCollection(q) PROVE TypeInv'
  <2>1. request[q].run \in Run
    BY <1>10, <1>b DEF ReapCollection, RequestIs
  <2>2. [runs[request[q].run] EXCEPT !.collected = IF @ = "counted" THEN @ ELSE "ended"] \in Row
    BY <2>1, RowEdits DEF TypeOK
  <2>3. runs' \in [Run -> Row]
    BY <1>10, <2>1, <2>2, WriteEffect DEF ReapCollection, MarkCollectionEnded, TypeOK
  <2>. QED
    BY <1>10, <1>c, <2>3 DEF ReapCollection, TypeOK, redis, vm
<1>11. ASSUME RequestDies(q) PROVE TypeInv'
  <2>1. spent' \in [{"faults", "crashes", "requeues"} -> Nat]
    BY <1>11 DEF RequestDies, TypeOK, Spend
  <2>. QED
    BY <1>11, <1>c, <2>1 DEF RequestDies, TypeOK, store, redis, vm
<1>. QED
  BY <1>1, <1>2, <1>3, <1>4, <1>5, <1>6, <1>7, <1>8, <1>9, <1>10, <1>11 DEF RequestStep

(* The end of a script, as a slot records it.                              *)
LEMMA FinishTypes ==
  ASSUME TypeInv, NEW w \in Worker, NEW code, worker[w].run \in Run, FinishWith(w, code)
  PROVE  TypeInv'
<1>1. Verdict(w, code) \in Terminal
  BY DEF Verdict, Terminal
<1>2. [worker[w] EXCEPT !.at = "ended", !.verdict = Verdict(w, code)] \in BusySlot
  BY <1>1, SlotEdits DEF TypeInv
<1>3. worker' \in [Worker -> BusySlot]
  BY <1>2, BecomeEffect DEF FinishWith, TypeInv
<1>4. runs' \in [Run -> Row]
  BY <1>1, RowTypes, TransitionType DEF FinishWith, TypeInv, TypeOK
<1>. QED
  BY <1>3, <1>4, BusyIsTyped DEF FinishWith, TypeInv, TypeOK, redis, vm

(* The steps of a slot.                                                    *)
LEMMA WorkerTypes ==
  ASSUME TypeInv, NEW w \in Worker, WorkerStep(w)
  PROVE  TypeInv'
<1>. USE BusyIsTyped DEF TypeInv
<1>a. worker[w] \in BusySlot
  OBVIOUS
<1>b. /\ worker[w].at \notin {"idle", "down"} => worker[w].run \in Run
      /\ worker[w].at \in {"ended", "abandoned"} => worker[w].verdict \in Terminal
  BY <1>a DEF BusySlot
<1>c. worker[w].run \in Run =>
        \A a \in WorkerAt \ {"ended", "abandoned"} : Go(w, a) => worker' \in [Worker -> BusySlot]
  BY <1>a, SlotEdits, BecomeEffect DEF Go
<1>d. worker[w].run \in Run =>
        \A b \in {"drive", "runOnce", "execute"} : GoFail(w, b) => worker' \in [Worker -> BusySlot]
  BY <1>a, SlotEdits, BecomeEffect DEF GoFail
<1>e. Become(w, Idle) => worker' \in [Worker -> BusySlot]
  BY <1>a, SlotEdits, BecomeEffect
<1>f. {"popped", "claimed", "starting", "connected", "inspected", "stopped", "clear", "opened",
       "attached", "marked", "waiting", "recorded", "release", "failing", "failed"}
        \subseteq WorkerAt \ {"ended", "abandoned"}
  BY DEF WorkerAt, Driving, BeforeStart, Collecting
<1>g. Terminal = {"succeeded", "failed", "aborted"}
  BY DEF Terminal
<1>1. ASSUME Pop(w) PROVE TypeInv'
  <2>1. Head(queue) \in Run /\ Tail(queue) \in Seq(Run)
    BY <1>1 DEF Pop, TypeOK
  <2>2. [worker[w] EXCEPT !.at = "popped", !.run = Head(queue)] \in BusySlot
    BY <1>a, <2>1, SlotEdits
  <2>3. worker' \in [Worker -> BusySlot]
    BY <1>1, <2>2, BecomeEffect DEF Pop
  <2>. QED
    BY <1>1, <2>1, <2>3 DEF Pop, TypeOK, store, vm
<1>2. ASSUME ClaimRun(w) PROVE TypeInv'
  <2>1. worker[w].run \in Run
    BY <1>2, <1>b DEF ClaimRun, At
  <2>2. worker' \in [Worker -> BusySlot]
    BY <1>2, <1>c, <1>e, <1>f, <2>1 DEF ClaimRun
  <2>3. claim' \in [Run -> Worker \cup {NoWorker}]
    BY <1>2, <2>1 DEF ClaimRun, TypeOK
  <2>. QED
    BY <1>2, <2>2, <2>3 DEF ClaimRun, TypeOK, store, vm
<1>3. ASSUME TakeRun(w) PROVE TypeInv'
  <2>1. worker[w].run \in Run
    BY <1>3, <1>b DEF TakeRun, At
  <2>2. worker' \in [Worker -> BusySlot]
    BY <1>3, <1>c, <1>f, <2>1 DEF TakeRun
  <2>3. runs' \in [Run -> Row]
    BY <1>3, <2>1, RowTypes, TransitionType DEF TakeRun, TypeOK
  <2>. QED
    BY <1>3, <2>2, <2>3 DEF TakeRun, TypeOK, redis, vm
<1>4. ASSUME Connect(w) PROVE TypeInv'
  <2>1. worker' \in [Worker -> BusySlot]
    BY <1>4, <1>b, <1>c, <1>d, <1>f DEF Connect, At
  <2>. QED
    BY <1>4, <2>1 DEF Connect, TypeOK, store, redis, vm
<1>5. ASSUME Inspect(w) PROVE TypeInv'
  <2>1. worker' \in [Worker -> BusySlot]
    BY <1>5, <1>b, <1>c, <1>d, <1>f DEF Inspect, At
  <2>. QED
    BY <1>5, <2>1 DEF Inspect, TypeOK, store, redis, vm
<1>6. ASSUME CheckStop(w) PROVE TypeInv'
  <2>1. worker[w].run \in Run
    BY <1>6, <1>b DEF CheckStop, At
  <2>2. worker' \in [Worker -> BusySlot]
    BY <1>6, <1>c, <1>f, <2>1 DEF CheckStop
  <2>3. events' \in [Run -> SUBSET {"withdrawn", "stopping", "gone"}]
    BY <1>6, <2>1 DEF CheckStop, TypeOK
  <2>. QED
    BY <1>6, <2>2, <2>3 DEF CheckStop, TypeOK, redis, vm
<1>7. ASSUME AbandonStart(w) PROVE TypeInv'
  <2>1. worker[w].run \in Run
    BY <1>7, <1>b DEF AbandonStart, At
  <2>2. [worker[w] EXCEPT !.at = "abandoned", !.verdict = "aborted"] \in BusySlot
    BY <1>a, <1>g, <2>1, SlotEdits
  <2>3. worker' \in [Worker -> BusySlot]
    BY <1>7, <2>2, BecomeEffect DEF AbandonStart
  <2>4. runs' \in [Run -> Row]
    BY <1>7, <1>g, <2>1, RowTypes, TransitionType DEF AbandonStart, TypeOK
  <2>. QED
    BY <1>7, <2>3, <2>4 DEF AbandonStart, TypeOK, redis, vm
<1>8. ASSUME StartScript(w) PROVE TypeInv'
  <2>1. worker[w].run \in Run
    BY <1>8, <1>b DEF StartScript, At
  <2>2. worker' \in [Worker -> BusySlot]
    BY <1>8, <1>c, <1>f, <2>1 DEF StartScript
  <2>3. script' \in [Run -> {"none", "alive", "zero", "nonzero"}] /\ starts' \in [Run -> Nat]
    BY <1>8, <2>1 DEF StartScript, TypeOK
  <2>. QED
    BY <1>8, <2>2, <2>3 DEF StartScript, TypeOK, store, redis
<1>9. ASSUME Attach(w) PROVE TypeInv'
  <2>1. worker[w].run \in Run
    BY <1>9, <1>b DEF Attach, At
  <2>2. [worker[w] EXCEPT !.at = "attached"] \in BusySlot
    BY <1>a, <1>f, <2>1, SlotEdits
  <2>3. [[worker[w] EXCEPT !.at = "attached"] EXCEPT !.ears = "pending"] \in BusySlot
    BY <2>2, SlotEdits
  <2>4. [worker[w] EXCEPT !.at = "attached", !.ears = "pending"] \in BusySlot
    BY <2>3
  <2>5. worker' \in [Worker -> BusySlot]
    BY <1>9, <2>4, BecomeEffect DEF Attach
  <2>. QED
    BY <1>9, <2>5 DEF Attach, TypeOK, store, redis, vm
<1>10. ASSUME MarkRunning(w) PROVE TypeInv'
  <2>1. worker[w].run \in Run
    BY <1>10, <1>b DEF MarkRunning, At
  <2>2. worker' \in [Worker -> BusySlot]
    BY <1>10, <1>c, <1>f, <2>1 DEF MarkRunning
  <2>3. runs' \in [Run -> Row]
    BY <1>10, <2>1, RowTypes, TransitionType DEF MarkRunning, TypeOK
  <2>. QED
    BY <1>10, <2>2, <2>3 DEF MarkRunning, TypeOK, redis, vm
<1>11. ASSUME RecheckStop(w) PROVE TypeInv'
  <2>1. worker[w].run \in Run
    BY <1>11, <1>b DEF RecheckStop, At
  <2>2. ASSUME NEW x \in {"none", "requested", "sent", "signalled"}
        PROVE  [worker[w] EXCEPT !.at = "waiting", !.stop = x] \in BusySlot
    <3>1. [worker[w] EXCEPT !.at = "waiting"] \in BusySlot
      BY <1>a, <1>f, <2>1, SlotEdits
    <3>2. [[worker[w] EXCEPT !.at = "waiting"] EXCEPT !.stop = x] \in BusySlot
      BY <3>1, SlotEdits
    <3>. QED
      BY <3>2
  <2>3. worker[w].stop \in {"none", "requested", "sent", "signalled"}
    BY <1>a DEF BusySlot, Slot
  <2>4. (IF runs[worker[w].run].asked THEN RequestAbort(w) ELSE worker[w].stop)
           \in {"none", "requested", "sent", "signalled"}
    BY <2>3 DEF RequestAbort
  <2>5. worker' \in [Worker -> BusySlot]
    BY <1>11, <2>2, <2>4, BecomeEffect DEF RecheckStop
  <2>. QED
    BY <1>11, <2>5 DEF RecheckStop, TypeOK, store, redis, vm
<1>12. ASSUME Finish(w) PROVE TypeInv'
  <2>1. worker[w].run \in Run
    BY <1>12, <1>b DEF Finish, At
  <2>2. PICK code \in {"zero", "nonzero"} : FinishWith(w, code)
    BY <1>12 DEF Finish
  <2>. QED
    BY <1>a, <1>g, <2>1, <2>2, FinishTypes
<1>13. ASSUME RecordOutcome(w) PROVE TypeInv'
  <2>1. worker[w].run \in Run /\ worker[w].verdict \in Terminal
    BY <1>13, <1>b DEF RecordOutcome
  <2>2. worker' \in [Worker -> BusySlot]
    BY <1>13, <1>c, <1>f, <2>1 DEF RecordOutcome
  <2>3. outcomes' \in [Run -> Seq(Terminal)]
    BY <1>13, <2>1 DEF RecordOutcome, TypeOK
  <2>. QED
    BY <1>13, <2>2, <2>3 DEF RecordOutcome, TypeOK, redis, vm
<1>14. ASSUME Collect(w) PROVE TypeInv'
  <2>1. worker[w].run \in Run
    BY <1>14, <1>b DEF Collect, At
  <2>2. runs' \in [Run -> Row]
    <3>1. /\ [runs[worker[w].run] EXCEPT !.collected = "counted"] \in Row
          /\ [runs[worker[w].run] EXCEPT !.collected = IF @ = "counted" THEN @ ELSE "ended"] \in Row
      BY <2>1, RowEdits DEF TypeOK
    <3>. QED
      BY <1>14, <2>1, <3>1, WriteEffect DEF Collect, MarkCollected, MarkCollectionEnded, TypeOK
  <2>3. [worker[w] EXCEPT !.at = "release", !.ears = "off", !.inbox = FALSE] \in BusySlot
    <3>1. [worker[w] EXCEPT !.at = "release"] \in BusySlot
      BY <1>a, <1>f, <2>1, SlotEdits
    <3>2. [[worker[w] EXCEPT !.at = "release"] EXCEPT !.ears = "off"] \in BusySlot
      BY <3>1, SlotEdits
    <3>3. [[[worker[w] EXCEPT !.at = "release"] EXCEPT !.ears = "off"] EXCEPT !.inbox = FALSE]
            \in BusySlot
      BY <3>2, SlotEdits
    <3>. QED
      BY <3>3
  <2>4. worker' \in [Worker -> BusySlot]
    BY <1>14, <2>3, BecomeEffect DEF Collect
  <2>. QED
    BY <1>14, <2>2, <2>4 DEF Collect, TypeOK, redis, vm
<1>15. ASSUME Release(w) PROVE TypeInv'
  <2>1. claim' \in [Run -> Worker \cup {NoWorker}]
    BY <1>15 DEF Release, TypeOK
  <2>. QED
    BY <1>15, <1>e, <2>1 DEF Release, TypeOK, store, vm
<1>16. ASSUME FailRun(w) PROVE TypeInv'
  <2>1. worker[w].run \in Run
    BY <1>16, <1>b DEF FailRun, At
  <2>2. worker' \in [Worker -> BusySlot]
    BY <1>16, <1>c, <1>f, <2>1 DEF FailRun
  <2>3. runs' \in [Run -> Row]
    BY <1>16, <1>g, <2>1, RowTypes, TransitionType DEF FailRun, TypeOK
  <2>. QED
    BY <1>16, <2>2, <2>3 DEF FailRun, TypeOK, redis, vm
<1>17. ASSUME RecordFailure(w) PROVE TypeInv'
  <2>1. worker[w].run \in Run
    BY <1>17, <1>b DEF RecordFailure, At
  <2>2. worker' \in [Worker -> BusySlot]
    BY <1>17, <1>c, <1>f, <2>1 DEF RecordFailure
  <2>3. outcomes' \in [Run -> Seq(Terminal)]
    BY <1>17, <1>g, <2>1 DEF RecordFailure, TypeOK
  <2>. QED
    BY <1>17, <2>2, <2>3 DEF RecordFailure, TypeOK, redis, vm
<1>. QED
  BY <1>1, <1>2, <1>3, <1>4, <1>5, <1>6, <1>7, <1>8, <1>9, <1>10, <1>11, <1>12, <1>13, <1>14,
     <1>15, <1>16, <1>17 DEF WorkerStep

(* What happens in a slot beside its own steps.                            *)
LEMMA BesideTypes ==
  ASSUME TypeInv, NEW w \in Worker, Beside(w)
  PROVE  TypeInv'
<1>. USE BusyIsTyped DEF TypeInv
<1>a. worker[w] \in BusySlot
  OBVIOUS
<1>b. worker[w].at \notin {"idle", "down"} => worker[w].run \in Run
  BY <1>a DEF BusySlot
<1>c. worker[w].run \in Run =>
        /\ \A a \in {"release", "clear", "waiting"} : Go(w, a) => worker' \in [Worker -> BusySlot]
        /\ \A b \in {"drive", "runOnce", "execute"} : GoFail(w, b) => worker' \in [Worker -> BusySlot]
  <2>1. {"release", "clear", "waiting"} \subseteq WorkerAt \ {"ended", "abandoned"}
    BY DEF WorkerAt, Driving, BeforeStart, Collecting
  <2>. QED
    BY <1>a, <2>1, SlotEdits, BecomeEffect DEF Go, GoFail
<1>d. \A kind \in {"faults", "crashes", "requeues"}, bound \in Nat :
        Spend(kind, bound) => spent' \in [{"faults", "crashes", "requeues"} -> Nat]
  BY DEF Spend, TypeOK
<1>1. ASSUME Subscribed(w) PROVE TypeInv'
  <2>1. worker' \in [Worker -> BusySlot]
    BY <1>1, <1>a, SlotEdits, BecomeEffect DEF Subscribed
  <2>. QED
    BY <1>1, <2>1 DEF Subscribed, TypeOK, store, redis, vm
<1>2. ASSUME HearStop(w) PROVE TypeInv'
  <2>1. RequestAbort(w) \in {"none", "requested", "sent", "signalled"}
    BY <1>a DEF RequestAbort, BusySlot, Slot
  <2>2. [[worker[w] EXCEPT !.inbox = FALSE] EXCEPT !.stop = RequestAbort(w)] \in BusySlot
    BY <1>a, <2>1, SlotEdits
  <2>3. [worker[w] EXCEPT !.inbox = FALSE, !.stop = RequestAbort(w)] \in BusySlot
    BY <2>2
  <2>4. worker' \in [Worker -> BusySlot]
    BY <1>2, <2>3, BecomeEffect DEF HearStop
  <2>. QED
    BY <1>2, <2>4 DEF HearStop, TypeOK, store, redis, vm
<1>3. ASSUME SendSignal(w) PROVE TypeInv'
  <2>1. worker' \in [Worker -> BusySlot]
    BY <1>3, <1>a, SlotEdits, BecomeEffect DEF SendSignal
  <2>. QED
    BY <1>3, <2>1 DEF SendSignal, TypeOK, store, redis, vm
<1>4. ASSUME SignalSent(w) PROVE TypeInv'
  <2>1. worker' \in [Worker -> BusySlot]
    BY <1>4, <1>a, SlotEdits, BecomeEffect DEF SignalSent
  <2>. QED
    BY <1>4, <2>1 DEF SignalSent, TypeOK, store, redis, vm
<1>5. ASSUME LoseConnection(w) PROVE TypeInv'
  <2>1. worker[w].run \in Run /\ FinishWith(w, "lost")
    BY <1>5, <1>b DEF LoseConnection, At
  <2>. QED
    BY <2>1, FinishTypes
<1>6. ASSUME Throw(w) PROVE TypeInv'
  <2>1. worker[w].run \in Run
    BY <1>6, <1>b DEF Throw
  <2>2. ThrowTo(w) # "none" => ThrowTo(w) \in {"drive", "runOnce", "execute"}
    BY DEF ThrowTo
  <2>3. worker' \in [Worker -> BusySlot]
    BY <1>6, <1>c, <2>1, <2>2 DEF Throw
  <2>4. leaked' \in [Worker -> SUBSET Run]
    BY <1>6, <2>1 DEF Throw, TypeOK
  <2>. QED
    BY <1>6, <1>d, <2>3, <2>4, BoundsAssumption DEF Throw, TypeOK, store, redis, vm
<1>7. ASSUME LoseJob(w) PROVE TypeInv'
  <2>1. worker' \in [Worker -> BusySlot]
    BY <1>7, <1>a, SlotEdits, BecomeEffect DEF LoseJob
  <2>. QED
    BY <1>7, <1>d, <2>1, BoundsAssumption DEF LoseJob, TypeOK, store, redis, vm
<1>8. ASSUME CheckBlind(w) PROVE TypeInv'
  <2>1. worker' \in [Worker -> BusySlot]
    BY <1>8, <1>b, <1>c DEF CheckBlind, At
  <2>. QED
    BY <1>8, <1>d, <2>1, BoundsAssumption DEF CheckBlind, TypeOK, store, redis, vm
<1>9. ASSUME Crash(w) PROVE TypeInv'
  <2>1. worker' \in [Worker -> BusySlot]
    BY <1>9, <1>a, SlotEdits, BecomeEffect DEF Crash
  <2>2. leaked' \in [Worker -> SUBSET Run]
    BY <1>9 DEF Crash, TypeOK
  <2>. QED
    BY <1>9, <1>d, <2>1, <2>2, BoundsAssumption DEF Crash, TypeOK, store, redis, vm
<1>10. ASSUME Restart(w) PROVE TypeInv'
  <2>1. [worker[w] EXCEPT !.at = "idle"] \in BusySlot
    BY <1>a DEF BusySlot, Slot, WorkerAt
  <2>2. worker' \in [Worker -> BusySlot]
    BY <1>10, <2>1, BecomeEffect DEF Restart, Go
  <2>. QED
    BY <1>10, <2>2 DEF Restart, TypeOK, store, redis, vm
<1>11. ASSUME NEW r \in Run, RenewClaim(w, r) PROVE TypeInv'
  BY <1>11 DEF RenewClaim, TypeOK, store, vm
<1>. QED
  BY <1>1, <1>2, <1>3, <1>4, <1>5, <1>6, <1>7, <1>8, <1>9, <1>10, <1>11 DEF Beside

(* The script, the clocks and the queue.                                   *)
LEMMA SurroundingTypes ==
  ASSUME TypeInv, Surroundings
  PROVE  TypeInv'
<1>. USE DEF TypeInv, TypeOK
<1>1. ASSUME NEW r \in Run, ScriptEnds(r) PROVE TypeInv'
  BY <1>1 DEF ScriptEnds, store, redis
<1>2. ASSUME NEW r \in Run, ExpireClaim(r) PROVE TypeInv'
  BY <1>2 DEF ExpireClaim, store, vm
<1>3. ASSUME NEW r \in Run, NEW s \in Stamp, GrowOld(r, s) PROVE TypeInv'
  <2>1. runs' \in [Run -> Row]
    <3>1. [runs[r] EXCEPT !.age[s] = "old"] \in Row
      BY RowEdits
    <3>. QED
      BY <1>3, <3>1, WriteEffect DEF GrowOld
  <2>. QED
    BY <1>3, <2>1 DEF GrowOld, redis, vm
<1>4. ASSUME NEW r \in Run, Requeue(r) PROVE TypeInv'
  <2>1. spent' \in [{"faults", "crashes", "requeues"} -> Nat]
    BY <1>4 DEF Requeue, Spend
  <2>. QED
    BY <1>4, <2>1 DEF Requeue, store, vm
<1>. QED
  BY <1>1, <1>2, <1>3, <1>4 DEF Surroundings

LEMMA TypeStep == TypeInv /\ [Next]_vars => TypeInv'
<1>1. ASSUME TypeInv, UNCHANGED vars PROVE TypeInv'
  BY <1>1 DEF TypeInv, TypeOK, vars, store, redis, vm
<1>. QED
  BY <1>1, RequestTypes, WorkerTypes, BesideTypes, SurroundingTypes DEF Next

LEMMA TypeInvariant == Spec => []TypeInv
  BY TypeInit, TypeStep, PTL DEF Spec

(* The row, the slots and the requests keep their shape whatever crosses,  *)
(* dies, throws or is delivered twice.                                     *)
THEOREM TypeCorrect == Spec => []TypeOK
<1>1. TypeInv => TypeOK
  BY DEF TypeInv
<1>. QED
  BY <1>1, TypeInvariant, PTL

-----------------------------------------------------------------------------
\* What a step does to the entries of the tables

(* A guarded update writes its row when the guard holds, and no other.     *)
LEMMA TransitionEffect ==
  ASSUME runs \in [Run -> Row], NEW r \in Run, NEW new \in Row, NEW from,
         Transition(r, new, from)
  PROVE  \A x \in Run :
           runs'[x] = IF x = r /\ runs[r].status \in from THEN new ELSE runs[x]
  BY WriteEffect DEF Transition

LEMMA RowFields ==
  ASSUME runs \in [Run -> Row], NEW r \in Run
  PROVE  /\ Queued(r).status = "queued" /\ Queued(r).collected = runs[r].collected
         /\ Queued(r).reason = runs[r].reason
         /\ Starting(r).status = "starting" /\ Starting(r).collected = runs[r].collected
         /\ Starting(r).reason = runs[r].reason
         /\ Running(r).status = "running" /\ Running(r).collected = runs[r].collected
         /\ Running(r).reason = runs[r].reason
         /\ \A s \in Terminal : /\ Exited(r, s).status = s
                                /\ Exited(r, s).collected = runs[r].collected
                                /\ Exited(r, s).reason # "worker_lost"
         /\ \A s \in Terminal, y \in {"none", "worker_lost", "other"} :
              /\ Ended(r, s, y).status = s
              /\ Ended(r, s, y).collected = "ended"
              /\ Ended(r, s, y).reason = y
<1>1. runs[r] \in Row
  OBVIOUS
<1>. QED
  BY <1>1 DEF Row, Queued, Starting, Running, Exited, Ended, Terminal

(* A slot that goes to another statement keeps the run it works on, and no *)
(* other slot moves.                                                       *)
LEMMA SlotMoves ==
  ASSUME worker \in [Worker -> BusySlot], NEW w \in Worker
  PROVE  /\ \A a : Go(w, a) =>
              /\ worker'[w].at = a /\ worker'[w].run = worker[w].run
              /\ \A v \in Worker \ {w} : worker'[v] = worker[v]
         /\ \A b : GoFail(w, b) =>
              /\ worker'[w].at = "failing" /\ worker'[w].run = worker[w].run
              /\ \A v \in Worker \ {w} : worker'[v] = worker[v]
         /\ \A s : Become(w, s) =>
              /\ worker'[w] = s
              /\ \A v \in Worker \ {w} : worker'[v] = worker[v]
<1>1. worker[w] \in Slot
  BY BusyIsTyped
<1>2. ASSUME NEW s, Become(w, s)
      PROVE  worker'[w] = s /\ \A v \in Worker \ {w} : worker'[v] = worker[v]
  BY <1>2 DEF Become
<1>3. \A a : LET s == [worker[w] EXCEPT !.at = a] IN s.at = a /\ s.run = worker[w].run
  BY <1>1 DEF Slot
<1>4. \A b : LET s == [worker[w] EXCEPT !.at = "failing", !.level = b, !.ears = "off",
                                       !.inbox = FALSE]
             IN  s.at = "failing" /\ s.run = worker[w].run
  BY <1>1 DEF Slot
<1>. QED
  BY <1>2, <1>3, <1>4 DEF Go, GoFail

-----------------------------------------------------------------------------
\* Starts: it is not the claim that keeps a script from being started twice
\* or after its run was withdrawn, but the transition from "queued", which
\* one slot at most can make

NotTaken     == {"absent", "queued"}
Before(w, r) == worker[w].run = r /\ worker[w].at \in BeforeStart

(* A run nobody took has not started; at most one slot is on its way to    *)
(* start a run that was taken, and none once it was withdrawn.             *)
RunStart(r) ==
  /\ runs[r].status \in NotTaken => starts[r] = 0
  /\ \A w \in Worker : Before(w, r) => starts[r] = 0 /\ runs[r].status \notin NotTaken
  /\ \A v, w \in Worker : Before(v, r) /\ Before(w, r) => v = w
  /\ starts[r] <= 1
  /\ "withdrawn" \in events[r] =>
       /\ starts[r] = 0 /\ runs[r].status \notin NotTaken
       /\ \A w \in Worker : ~Before(w, r)

StartInv == \A r \in Run : RunStart(r)

(* Most steps start nothing, withdraw nothing, put no run back among those *)
(* nobody took, and bring no slot nearer to a start than it was.           *)
KeepsRows   == \A r \in Run : runs'[r].status \in NotTaken => runs[r].status \in NotTaken
KeepsSlots  == \A w \in Worker : worker'[w].at \in BeforeStart =>
                 worker[w].at \in BeforeStart /\ worker'[w].run = worker[w].run
KeepsEvents == \A r \in Run : "withdrawn" \in events'[r] => "withdrawn" \in events[r]
Bystander   == KeepsRows /\ KeepsSlots /\ KeepsEvents /\ UNCHANGED starts

(* What is not disturbed of one run keeps its part of the invariant.       *)
LEMMA RunStartKept ==
  ASSUME NEW r \in Run, RunStart(r), starts'[r] = starts[r],
         runs'[r].status \in NotTaken => runs[r].status \in NotTaken,
         "withdrawn" \in events'[r] => "withdrawn" \in events[r],
         \A w \in Worker : Before(w, r)' => Before(w, r)
  PROVE  RunStart(r)'
  BY DEF RunStart, Before

LEMMA BystanderKeeps == TypeInv /\ StartInv /\ Bystander => StartInv'
<1>1. ASSUME TypeInv, StartInv, Bystander, NEW r \in Run PROVE RunStart(r)'
  <2>1. \A w \in Worker : Before(w, r)' => Before(w, r)
    BY <1>1 DEF Bystander, KeepsSlots, Before
  <2>. QED
    BY <1>1, <2>1, RunStartKept DEF StartInv, Bystander, KeepsRows, KeepsEvents
<1>. QED
  BY <1>1 DEF StartInv

LEMMA TransitionKeepsRows ==
  ASSUME runs \in [Run -> Row], NEW r \in Run, NEW new \in Row, NEW from,
         new.status \notin NotTaken, Transition(r, new, from)
  PROVE  KeepsRows
<1>1. \A x \in Run : runs'[x] = new \/ runs'[x] = runs[x]
  BY TransitionEffect
<1>. QED
  BY <1>1 DEF KeepsRows

LEMMA WriteKeepsRows ==
  ASSUME runs \in [Run -> Row], NEW r \in Run, NEW new \in Row,
         new.status = runs[r].status, Write(r, new)
  PROVE  KeepsRows
  BY WriteEffect DEF KeepsRows

LEMMA BecomeKeepsSlots ==
  ASSUME worker \in [Worker -> BusySlot], NEW w \in Worker, NEW s,
         s.at \notin BeforeStart, Become(w, s)
  PROVE  KeepsSlots
<1>1. worker'[w] = s /\ \A v \in Worker \ {w} : worker'[v] = worker[v]
  BY SlotMoves
<1>2. ASSUME NEW v \in Worker, worker'[v].at \in BeforeStart PROVE v # w
  BY <1>1, <1>2
<1>. QED
  BY <1>1, <1>2 DEF KeepsSlots

LEMMA GoKeepsSlots ==
  ASSUME worker \in [Worker -> BusySlot], NEW w \in Worker, NEW a,
         a \in BeforeStart => worker[w].at \in BeforeStart, Go(w, a)
  PROVE  KeepsSlots
  BY SlotMoves DEF KeepsSlots

LEMMA GoFailKeepsSlots ==
  ASSUME worker \in [Worker -> BusySlot], NEW w \in Worker, NEW b, GoFail(w, b)
  PROVE  KeepsSlots
  BY SlotMoves DEF KeepsSlots, BeforeStart

(* The ends of a run that the writers put in place are not "queued".       *)
LEMMA EndsAreTaken ==
  ASSUME runs \in [Run -> Row], NEW r \in Run
  PROVE  /\ \A s \in Terminal : Exited(r, s) \in Row /\ Exited(r, s).status \notin NotTaken
         /\ \A s \in Terminal, y \in {"none", "worker_lost", "other"} :
              Ended(r, s, y) \in Row /\ Ended(r, s, y).status \notin NotTaken
         /\ Running(r) \in Row /\ Running(r).status \notin NotTaken
<1>1. Terminal \cap NotTaken = {} /\ "running" \notin NotTaken
  BY DEF Terminal, NotTaken
<1>. QED
  BY <1>1, RowTypes, RowFields

LEMMA RequestStart ==
  ASSUME TypeInv, StartInv, NEW q \in Request, RequestStep(q)
  PROVE  StartInv'
<1>. USE DEF TypeInv, TypeOK, KeepsRows, KeepsSlots, KeepsEvents, NotTaken
<1>a. request[q].at # "idle" => request[q].run \in Run
  BY DEF BusyAsk
<1>b. UNCHANGED runs => KeepsRows
  OBVIOUS
<1>c. UNCHANGED worker => KeepsSlots
  OBVIOUS
<1>d. UNCHANGED events => KeepsEvents
  OBVIOUS
<1>e. "aborted" \in Terminal /\ "failed" \in Terminal
  BY DEF Terminal
<1>1. ASSUME NEW r \in Run, CreateRun(q, r) PROVE Bystander
  <2>1. KeepsRows
    <3>1. runs[r].status = "absent" /\ \A x \in Run : runs'[x] = IF x = r THEN Queued(r) ELSE runs[x]
      BY <1>1, RowTypes, WriteEffect DEF CreateRun
    <3>. QED
      BY <3>1
  <2>. QED
    BY <1>1, <1>c, <1>d, <2>1 DEF CreateRun, Bystander, vm
<1>2. ASSUME PushJob(q) PROVE Bystander
  BY <1>2, <1>b, <1>c, <1>d DEF PushJob, Bystander, store, vm
<1>3. ASSUME NEW r \in Run, ReadToAbort(q, r) PROVE Bystander
  BY <1>3, <1>b, <1>c, <1>d DEF ReadToAbort, Bystander, store, vm
<1>4. ASSUME CancelQueued(q) PROVE StartInv'
  <2> DEFINE r == request[q].run
  <2>1. r \in Run
    BY <1>4, <1>a DEF CancelQueued, RequestIs
  <2>2. \A x \in Run : runs'[x] = IF x = r /\ runs[r].status \in CancelFrom
                                  THEN Ended(r, "aborted", "other") ELSE runs[x]
    BY <1>4, <1>e, <2>1, RowTypes, TransitionEffect DEF CancelQueued
  <2>3. Ended(r, "aborted", "other").status = "aborted"
    BY <1>e, <2>1, RowFields
  <2>4. UNCHANGED <<starts, worker>>
    BY <1>4 DEF CancelQueued, vm
  <2>5. CASE runs[r].status \in CancelFrom
    <3>1. \A x \in Run : "withdrawn" \in events'[x] => x = r \/ "withdrawn" \in events[x]
      BY <1>4, <2>1, <2>5 DEF CancelQueued
    <3>2. starts[r] = 0 /\ \A w \in Worker : ~Before(w, r)
      BY <2>1, <2>5 DEF StartInv, RunStart, CancelFrom
    <3>3. runs'[r].status \notin NotTaken
      BY <2>1, <2>2, <2>3, <2>5
    <3>4. \A x \in Run \ {r} : RunStart(x)'
      BY <2>2, <2>4, <3>1, RunStartKept DEF StartInv, Before
    <3>5. ASSUME NEW x \in Run, x = r PROVE RunStart(x)'
      BY <2>4, <3>2, <3>3, <3>5 DEF RunStart, Before
    <3>. QED
      BY <3>4, <3>5 DEF StartInv
  <2>6. CASE runs[r].status \notin CancelFrom
    <3>1. UNCHANGED events /\ KeepsRows
      BY <1>4, <2>2, <2>6 DEF CancelQueued
    <3>. QED
      BY <1>c, <1>d, <2>4, <3>1, BystanderKeeps DEF Bystander
  <2>. QED
    BY <2>5, <2>6
<1>5. ASSUME RecordStop(q) PROVE Bystander
  <2>1. request[q].run \in Run
    BY <1>5, <1>a DEF RecordStop, RequestIs
  <2> DEFINE old == runs[request[q].run]
  <2>2. /\ [old EXCEPT !.asked = TRUE] \in Row
        /\ [old EXCEPT !.asked = TRUE].status = old.status
    BY <2>1, RowEdits, SmallEdits
  <2>3. KeepsRows
    BY <1>5, <2>1, <2>2, WriteKeepsRows DEF RecordStop
  <2>. QED
    BY <1>5, <1>c, <1>d, <2>3 DEF RecordStop, Bystander, vm
<1>6. ASSUME PublishStop(q) PROVE Bystander
  <2>1. \A w \in Worker : worker'[w].at = worker[w].at /\ worker'[w].run = worker[w].run
    BY <1>6, BusyIsTyped DEF PublishStop, Slot
  <2>2. KeepsEvents
    BY <1>6 DEF PublishStop
  <2>. QED
    BY <1>6, <1>b, <2>1, <2>2 DEF PublishStop, Bystander, vm
<1>7. ASSUME NEW r \in Run, ReadToReap(q, r) PROVE Bystander
  BY <1>7, <1>b, <1>c, <1>d DEF ReadToReap, Bystander, store, vm
<1>8. ASSUME CheckClaim(q) PROVE Bystander
  BY <1>8, <1>b, <1>c, <1>d DEF CheckClaim, Bystander, store, vm
<1>9. ASSUME ReapLive(q) PROVE Bystander
  <2>1. request[q].run \in Run
    BY <1>9, <1>a DEF ReapLive, RequestIs
  <2>2. KeepsRows
    BY <1>9, <1>e, <2>1, EndsAreTaken, TransitionKeepsRows DEF ReapLive
  <2>3. KeepsEvents
    BY <1>9 DEF ReapLive
  <2>. QED
    BY <1>9, <1>c, <2>2, <2>3 DEF ReapLive, Bystander, vm
<1>10. ASSUME ReapCollection(q) PROVE Bystander
  <2>1. request[q].run \in Run
    BY <1>10, <1>a DEF ReapCollection, RequestIs
  <2> DEFINE old == runs[request[q].run]
             new == [old EXCEPT !.collected = IF @ = "counted" THEN @ ELSE "ended"]
  <2>2. new \in Row /\ new.status = old.status
    BY <2>1, EndedEdit
  <2>3. KeepsRows
    BY <1>10, <2>1, <2>2, WriteKeepsRows DEF ReapCollection, MarkCollectionEnded
  <2>. QED
    BY <1>10, <1>c, <1>d, <2>3 DEF ReapCollection, Bystander, vm
<1>11. ASSUME RequestDies(q) PROVE Bystander
  BY <1>11, <1>b, <1>c, <1>d DEF RequestDies, Bystander, store, vm
<1>. HIDE DEF TypeInv, TypeOK
<1>. QED
  BY <1>1, <1>2, <1>3, <1>4, <1>5, <1>6, <1>7, <1>8, <1>9, <1>10, <1>11, BystanderKeeps
     DEF RequestStep

LEMMA FinishIsBystander ==
  ASSUME TypeInv, NEW w \in Worker, NEW code, worker[w].run \in Run, FinishWith(w, code)
  PROVE  Bystander
<1>. USE DEF TypeInv, TypeOK
<1>1. Verdict(w, code) \in Terminal
  BY DEF Verdict, Terminal
<1>2. KeepsRows
  BY <1>1, EndsAreTaken, TransitionKeepsRows DEF FinishWith
<1>3. [worker[w] EXCEPT !.at = "ended", !.verdict = Verdict(w, code)].at \notin BeforeStart
  BY BusyIsTyped DEF Slot, BeforeStart
<1>4. KeepsSlots
  BY <1>3, BecomeKeepsSlots DEF FinishWith
<1>. QED
  BY <1>2, <1>4 DEF FinishWith, Bystander, KeepsEvents, vm

(* The steps of a slot.  Three of them matter: a slot that takes a run is  *)
(* the first, one that starts a script has to have taken its run, and one  *)
(* that sees a stop goes where no script is started.                       *)
LEMMA WorkerStart ==
  ASSUME TypeInv, StartInv, NEW w \in Worker, WorkerStep(w)
  PROVE  StartInv'
<1>. USE DEF TypeInv, TypeOK
<1> DEFINE r == worker[w].run
<1>a. worker[w].at \notin {"idle", "down"} => r \in Run
  BY DEF BusySlot
<1>b. UNCHANGED runs => KeepsRows
  BY DEF KeepsRows
<1>d. UNCHANGED events => KeepsEvents
  BY DEF KeepsEvents
<1>e. "aborted" \in Terminal /\ "failed" \in Terminal /\ "absent" \notin Terminal /\ "queued" \notin Terminal
  BY DEF Terminal
<1>f. BeforeStart = {"starting", "connected", "inspected", "clear"}
  BY DEF BeforeStart
<1>g. Idle.at \notin BeforeStart
  BY <1>f DEF Idle
<1>1. ASSUME Pop(w) PROVE Bystander
  <2> DEFINE new == [worker[w] EXCEPT !.at = "popped", !.run = Head(queue)]
  <2>1. new.at \notin BeforeStart
    BY <1>f, BusyIsTyped DEF Slot
  <2>2. KeepsSlots
    <3>1. Become(w, new)
      BY <1>1 DEF Pop
    <3>. HIDE DEF new
    <3>. QED
      BY <2>1, <3>1, BecomeKeepsSlots
  <2>. QED
    BY <1>1, <1>b, <1>d, <2>2 DEF Pop, Bystander, store, vm
<1>2. ASSUME ClaimRun(w) PROVE Bystander
  <2>1. KeepsSlots
    BY <1>2, <1>f, GoKeepsSlots, BecomeKeepsSlots, <1>g DEF ClaimRun
  <2>. QED
    BY <1>2, <1>b, <1>d, <2>1 DEF ClaimRun, Bystander, store, vm
<1>3. ASSUME TakeRun(w) PROVE StartInv'
  <2>1. r \in Run /\ worker[w].at \notin BeforeStart
    BY <1>3, <1>a, <1>f DEF TakeRun, At
  <2>2. \A x \in Run : runs'[x] = IF x = r /\ runs[r].status \in ClaimFrom
                                  THEN Starting(r) ELSE runs[x]
    BY <1>3, <2>1, RowTypes, TransitionEffect DEF TakeRun
  <2>3. Starting(r).status = "starting"
    BY <2>1, RowFields
  <2>4. UNCHANGED <<starts, events>>
    BY <1>3 DEF TakeRun, vm
  <2>5. CASE runs[r].status \in ClaimFrom
    <3>1. runs[r].status = "queued" /\ runs'[r].status = "starting"
      BY <2>1, <2>2, <2>3, <2>5 DEF ClaimFrom
    <3>2. Go(w, "starting")
      BY <1>3, <2>5 DEF TakeRun
    <3>3. /\ worker'[w].run = r
          /\ \A v \in Worker \ {w} : worker'[v] = worker[v]
      BY <3>2, SlotMoves
    <3>4. starts[r] = 0 /\ "withdrawn" \notin events[r] /\ \A v \in Worker : ~Before(v, r)
      BY <2>1, <3>1 DEF StartInv, RunStart, NotTaken
    <3>5. \A x \in Run \ {r} : RunStart(x)'
      <4>1. \A x \in Run \ {r}, v \in Worker : Before(v, x)' => Before(v, x)
        BY <3>3 DEF Before
      <4>. QED
        BY <2>2, <2>4, <4>1, RunStartKept DEF StartInv
    <3>6. ASSUME NEW x \in Run, x = r PROVE RunStart(x)'
      <4>1. \A v \in Worker : Before(v, x)' => v = w
        BY <3>3, <3>4, <3>6 DEF Before
      <4>. QED
        BY <2>4, <3>1, <3>4, <3>6, <4>1 DEF RunStart, NotTaken
    <3>. QED
      BY <3>5, <3>6 DEF StartInv
  <2>6. CASE runs[r].status \notin ClaimFrom
    <3>1. Go(w, "release") /\ UNCHANGED runs
      BY <1>3, <2>6 DEF TakeRun, Transition
    <3>2. KeepsSlots
      BY <1>f, GoKeepsSlots, <3>1
    <3>. QED
      BY <1>b, <1>d, <2>4, <3>1, <3>2, BystanderKeeps DEF Bystander
  <2>. QED
    BY <2>5, <2>6
<1>4. ASSUME Connect(w) PROVE Bystander
  <2>1. KeepsSlots
    BY <1>4, <1>f, GoKeepsSlots, GoFailKeepsSlots DEF Connect, At
  <2>. QED
    BY <1>4, <1>b, <1>d, <2>1 DEF Connect, Bystander, store, vm
<1>5. ASSUME Inspect(w) PROVE Bystander
  <2>1. KeepsSlots
    BY <1>5, <1>f, GoKeepsSlots, GoFailKeepsSlots DEF Inspect, At
  <2>. QED
    BY <1>5, <1>b, <1>d, <2>1 DEF Inspect, Bystander, store, vm
<1>6. ASSUME CheckStop(w) PROVE StartInv'
  <2>1. r \in Run /\ Before(w, r)
    BY <1>6, <1>a, <1>f DEF CheckStop, At, Before
  <2>2. UNCHANGED <<runs, starts>>
    BY <1>6 DEF CheckStop, vm
  <2>3. CASE runs[r].asked
    <3>1. Go(w, "stopped")
      BY <1>6, <2>3 DEF CheckStop
    <3>2. /\ worker'[w].at = "stopped" /\ worker'[w].run = r
          /\ \A v \in Worker \ {w} : worker'[v] = worker[v]
      BY <3>1, SlotMoves
    <3>3. \A x \in Run : "withdrawn" \in events'[x] => x = r \/ "withdrawn" \in events[x]
      BY <1>6, <2>1, <2>3 DEF CheckStop
    <3>4. starts[r] = 0 /\ runs[r].status \notin NotTaken
          /\ \A v \in Worker : Before(v, r) => v = w
      BY <2>1 DEF StartInv, RunStart
    <3>5. \A x \in Run \ {r} : RunStart(x)'
      <4>1. \A x \in Run \ {r}, v \in Worker : Before(v, x)' => Before(v, x)
        BY <3>2 DEF Before
      <4>. QED
        BY <2>2, <3>3, <4>1, RunStartKept DEF StartInv
    <3>6. ASSUME NEW x \in Run, x = r PROVE RunStart(x)'
      <4>1. \A v \in Worker : ~Before(v, x)'
        BY <1>f, <3>2, <3>4, <3>6 DEF Before
      <4>. QED
        BY <2>2, <3>4, <3>6, <4>1 DEF RunStart
    <3>. QED
      BY <3>5, <3>6 DEF StartInv
  <2>4. CASE ~runs[r].asked
    <3>1. Go(w, "clear") /\ UNCHANGED events
      BY <1>6, <2>4 DEF CheckStop
    <3>2. KeepsSlots
      BY GoKeepsSlots, <2>1, <3>1 DEF Before
    <3>. QED
      BY <1>b, <1>d, <2>2, <3>1, <3>2, BystanderKeeps DEF Bystander
  <2>. QED
    BY <2>3, <2>4
<1>7. ASSUME AbandonStart(w) PROVE Bystander
  <2>1. r \in Run
    BY <1>7, <1>a DEF AbandonStart, At
  <2> DEFINE new == [worker[w] EXCEPT !.at = "abandoned", !.verdict = "aborted"]
  <2>2. new.at \notin BeforeStart
    BY <1>f, BusyIsTyped DEF Slot
  <2>3. KeepsSlots
    <3>1. Become(w, new)
      BY <1>7 DEF AbandonStart
    <3>. HIDE DEF new
    <3>. QED
      BY <2>2, <3>1, BecomeKeepsSlots
  <2>4. KeepsRows
    BY <1>7, <1>e, <2>1, EndsAreTaken, TransitionKeepsRows DEF AbandonStart
  <2>. QED
    BY <1>7, <1>d, <2>3, <2>4 DEF AbandonStart, Bystander, vm
<1>8. ASSUME StartScript(w) PROVE StartInv'
  <2>1. r \in Run /\ Before(w, r)
    BY <1>8, <1>a, <1>f DEF StartScript, At, Before
  <2>2. UNCHANGED <<runs, events>> /\ starts' = [starts EXCEPT ![r] = @ + 1]
    BY <1>8 DEF StartScript, store
  <2>3. /\ worker'[w].at = "opened" /\ worker'[w].run = r
        /\ \A v \in Worker \ {w} : worker'[v] = worker[v]
    BY <1>8, SlotMoves DEF StartScript
  <2>4. /\ starts[r] = 0 /\ runs[r].status \notin NotTaken /\ "withdrawn" \notin events[r]
        /\ \A v \in Worker : Before(v, r) => v = w
    BY <2>1 DEF StartInv, RunStart
  <2>5. starts'[r] = 1 /\ \A x \in Run \ {r} : starts'[x] = starts[x]
    BY <2>1, <2>2, <2>4
  <2>6. \A x \in Run \ {r} : RunStart(x)'
    <3>1. \A x \in Run \ {r}, v \in Worker : Before(v, x)' => Before(v, x)
      BY <2>3 DEF Before
    <3>. QED
      BY <2>2, <2>5, <3>1, RunStartKept DEF StartInv
  <2>7. ASSUME NEW x \in Run, x = r PROVE RunStart(x)'
    <3>1. \A v \in Worker : ~Before(v, x)'
      BY <1>f, <2>3, <2>4, <2>7 DEF Before
    <3>. QED
      BY <2>2, <2>4, <2>5, <2>7, <3>1 DEF RunStart
  <2>. QED
    BY <2>6, <2>7 DEF StartInv
<1>9. ASSUME Attach(w) PROVE Bystander
  <2> DEFINE new == [worker[w] EXCEPT !.at = "attached", !.ears = "pending"]
  <2>1. new.at \notin BeforeStart
    BY <1>f, BusyIsTyped DEF Slot
  <2>2. KeepsSlots
    <3>1. Become(w, new)
      BY <1>9 DEF Attach
    <3>. HIDE DEF new
    <3>. QED
      BY <2>1, <3>1, BecomeKeepsSlots
  <2>. QED
    BY <1>9, <1>b, <1>d, <2>2 DEF Attach, Bystander, store, vm
<1>10. ASSUME MarkRunning(w) PROVE Bystander
  <2>1. r \in Run /\ KeepsSlots
    BY <1>10, <1>a, <1>f, GoKeepsSlots DEF MarkRunning, At
  <2>2. KeepsRows
    BY <1>10, <2>1, EndsAreTaken, TransitionKeepsRows DEF MarkRunning
  <2>. QED
    BY <1>10, <1>d, <2>1, <2>2 DEF MarkRunning, Bystander, vm
<1>11. ASSUME RecheckStop(w) PROVE Bystander
  <2> DEFINE new == [worker[w] EXCEPT !.at = "waiting",
                       !.stop = IF runs[r].asked THEN RequestAbort(w) ELSE @]
  <2>1. new.at \notin BeforeStart
    BY <1>f, BusyIsTyped DEF Slot
  <2>2. KeepsSlots
    <3>1. Become(w, new)
      BY <1>11 DEF RecheckStop
    <3>. HIDE DEF new
    <3>. QED
      BY <2>1, <3>1, BecomeKeepsSlots
  <2>. QED
    BY <1>11, <1>b, <1>d, <2>2 DEF RecheckStop, Bystander, store, vm
<1>12. ASSUME Finish(w) PROVE Bystander
  <2>1. r \in Run
    BY <1>12, <1>a DEF Finish, At
  <2>. QED
    BY <1>12, <2>1, FinishIsBystander DEF Finish
<1>13. ASSUME RecordOutcome(w) PROVE Bystander
  <2>1. KeepsSlots
    BY <1>13, <1>f, GoKeepsSlots DEF RecordOutcome
  <2>. QED
    BY <1>13, <1>b, <1>d, <2>1 DEF RecordOutcome, Bystander, vm
<1>14. ASSUME Collect(w) PROVE Bystander
  <2>1. r \in Run
    BY <1>14, <1>a DEF Collect, At
  <2> DEFINE new == [worker[w] EXCEPT !.at = "release", !.ears = "off", !.inbox = FALSE]
  <2>2. new.at \notin BeforeStart
    BY <1>f, BusyIsTyped DEF Slot
  <2>3. KeepsSlots
    <3>1. Become(w, new)
      BY <1>14 DEF Collect
    <3>. HIDE DEF new
    <3>. QED
      BY <2>2, <3>1, BecomeKeepsSlots
  <2>4. KeepsRows
    <3> DEFINE counted == [runs[r] EXCEPT !.collected = "counted"]
               ended   == [runs[r] EXCEPT !.collected = IF @ = "counted" THEN @ ELSE "ended"]
    <3>1. /\ counted \in Row /\ counted.status = runs[r].status
          /\ ended \in Row /\ ended.status = runs[r].status
      BY <2>1, RowEdits, SmallEdits, EndedEdit
    <3>2. Write(r, counted) \/ Write(r, ended)
      BY <1>14 DEF Collect, MarkCollected, MarkCollectionEnded
    <3>. HIDE DEF counted, ended
    <3>. QED
      BY <2>1, <3>1, <3>2, WriteKeepsRows
  <2>. QED
    BY <1>14, <1>d, <2>3, <2>4 DEF Collect, Bystander, vm
<1>15. ASSUME Release(w) PROVE Bystander
  BY <1>15, <1>b, <1>d, BecomeKeepsSlots, <1>g DEF Release, Bystander, store, vm
<1>16. ASSUME FailRun(w) PROVE Bystander
  <2>1. r \in Run /\ KeepsSlots
    BY <1>16, <1>a, <1>f, GoKeepsSlots DEF FailRun, At
  <2>2. KeepsRows
    BY <1>16, <1>e, <2>1, EndsAreTaken, TransitionKeepsRows DEF FailRun
  <2>. QED
    BY <1>16, <1>d, <2>1, <2>2 DEF FailRun, Bystander, vm
<1>17. ASSUME RecordFailure(w) PROVE Bystander
  <2>1. KeepsSlots
    BY <1>17, <1>f, GoKeepsSlots DEF RecordFailure
  <2>. QED
    BY <1>17, <1>b, <1>d, <2>1 DEF RecordFailure, Bystander, vm
<1>. HIDE DEF TypeInv, TypeOK
<1>. QED
  BY <1>1, <1>2, <1>3, <1>4, <1>5, <1>6, <1>7, <1>8, <1>9, <1>10, <1>11, <1>12, <1>13, <1>14,
     <1>15, <1>16, <1>17, BystanderKeeps DEF WorkerStep

(* What happens beside a slot's own steps, and around the slots.           *)
LEMMA BesideStart ==
  ASSUME TypeInv, NEW w \in Worker, Beside(w)
  PROVE  Bystander
<1>. USE DEF TypeInv, TypeOK
<1> DEFINE r == worker[w].run
<1>a. worker[w].at \notin {"idle", "down"} => r \in Run
  BY DEF BusySlot
<1>b. UNCHANGED runs => KeepsRows
  BY DEF KeepsRows
<1>c. UNCHANGED worker => KeepsSlots
  BY DEF KeepsSlots
<1>d. UNCHANGED events => KeepsEvents
  BY DEF KeepsEvents
<1>e. BeforeStart = {"starting", "connected", "inspected", "clear"}
  BY DEF BeforeStart
<1>f. ASSUME NEW s, Become(w, s), s.at = worker[w].at, s.run = r PROVE KeepsSlots
  BY <1>f, SlotMoves DEF KeepsSlots
<1>g. worker[w] \in Slot
  BY BusyIsTyped
<1>h. Idle.at \notin BeforeStart /\ [Idle EXCEPT !.at = "down"].at \notin BeforeStart
  BY <1>e DEF Idle
<1>1. ASSUME Subscribed(w) PROVE Bystander
  <2>1. KeepsSlots
    BY <1>1, <1>f, <1>g DEF Subscribed, Slot
  <2>. QED
    BY <1>1, <1>b, <1>d, <2>1 DEF Subscribed, Bystander, store, vm
<1>2. ASSUME HearStop(w) PROVE Bystander
  <2>1. KeepsSlots
    BY <1>2, <1>f, <1>g DEF HearStop, Slot
  <2>. QED
    BY <1>2, <1>b, <1>d, <2>1 DEF HearStop, Bystander, store, vm
<1>3. ASSUME SendSignal(w) PROVE Bystander
  <2>1. KeepsSlots
    BY <1>3, <1>f, <1>g DEF SendSignal, Slot
  <2>. QED
    BY <1>3, <1>b, <1>d, <2>1 DEF SendSignal, Bystander, store, vm
<1>4. ASSUME SignalSent(w) PROVE Bystander
  <2>1. KeepsSlots
    BY <1>4, <1>f, <1>g DEF SignalSent, Slot
  <2>. QED
    BY <1>4, <1>b, <1>d, <2>1 DEF SignalSent, Bystander, store, vm
<1>5. ASSUME LoseConnection(w) PROVE Bystander
  <2>1. r \in Run /\ FinishWith(w, "lost")
    BY <1>5, <1>a DEF LoseConnection, At
  <2>. QED
    BY <2>1, FinishIsBystander
<1>6. ASSUME Throw(w) PROVE Bystander
  <2>1. KeepsSlots
    BY <1>6, <1>e, GoKeepsSlots, GoFailKeepsSlots DEF Throw
  <2>. QED
    BY <1>6, <1>b, <1>d, <2>1 DEF Throw, Bystander, store, vm
<1>7. ASSUME LoseJob(w) PROVE Bystander
  BY <1>7, <1>b, <1>d, <1>h, BecomeKeepsSlots DEF LoseJob, Bystander, store, vm
<1>8. ASSUME CheckBlind(w) PROVE Bystander
  <2>1. KeepsSlots
    BY <1>8, <1>e, GoKeepsSlots DEF CheckBlind, At
  <2>. QED
    BY <1>8, <1>b, <1>d, <2>1 DEF CheckBlind, Bystander, store, vm
<1>9. ASSUME Crash(w) PROVE Bystander
  BY <1>9, <1>b, <1>d, <1>h, BecomeKeepsSlots DEF Crash, Bystander, store, vm
<1>10. ASSUME Restart(w) PROVE Bystander
  BY <1>10, <1>b, <1>d, <1>e, GoKeepsSlots DEF Restart, Bystander, store, vm
<1>11. ASSUME NEW x \in Run, RenewClaim(w, x) PROVE Bystander
  BY <1>11, <1>b, <1>c, <1>d DEF RenewClaim, Bystander, store, vm
<1>. QED
  BY <1>1, <1>2, <1>3, <1>4, <1>5, <1>6, <1>7, <1>8, <1>9, <1>10, <1>11 DEF Beside

LEMMA SurroundingStart ==
  ASSUME TypeInv, Surroundings
  PROVE  Bystander
<1>. USE DEF TypeInv, TypeOK
<1>b. UNCHANGED runs => KeepsRows
  BY DEF KeepsRows
<1>c. UNCHANGED worker => KeepsSlots
  BY DEF KeepsSlots
<1>d. UNCHANGED events => KeepsEvents
  BY DEF KeepsEvents
<1>1. ASSUME NEW r \in Run, ScriptEnds(r) PROVE Bystander
  BY <1>1, <1>b, <1>c, <1>d DEF ScriptEnds, Bystander, store
<1>2. ASSUME NEW r \in Run, ExpireClaim(r) PROVE Bystander
  BY <1>2, <1>b, <1>c, <1>d DEF ExpireClaim, Bystander, store, vm
<1>3. ASSUME NEW r \in Run, NEW s \in Stamp, GrowOld(r, s) PROVE Bystander
  <2> DEFINE new == [runs[r] EXCEPT !.age[s] = "old"]
  <2>1. new \in Row /\ new.status = runs[r].status
    BY RowEdits, SmallEdits
  <2>2. KeepsRows
    BY <1>3, <2>1, WriteKeepsRows DEF GrowOld
  <2>. QED
    BY <1>3, <1>c, <1>d, <2>2 DEF GrowOld, Bystander, vm
<1>4. ASSUME NEW r \in Run, Requeue(r) PROVE Bystander
  BY <1>4, <1>b, <1>c, <1>d DEF Requeue, Bystander, store, vm
<1>. QED
  BY <1>1, <1>2, <1>3, <1>4 DEF Surroundings

LEMMA StartInit == Init => StartInv
<1>1. ASSUME Init, NEW r \in Run PROVE RunStart(r)
  <2>1. starts[r] = 0 /\ events[r] = {}
    BY <1>1 DEF Init
  <2>2. \A w \in Worker : ~Before(w, r)
    BY <1>1 DEF Init, Idle, Before, BeforeStart
  <2>. QED
    BY <2>1, <2>2 DEF RunStart
<1>. QED
  BY <1>1 DEF StartInv

LEMMA StartStep == TypeInv /\ StartInv /\ [Next]_vars => StartInv'
<1>1. ASSUME UNCHANGED vars PROVE Bystander
  BY <1>1 DEF vars, store, vm, Bystander, KeepsRows, KeepsSlots, KeepsEvents
<1>. QED
  BY <1>1, RequestStart, WorkerStart, BesideStart, SurroundingStart, BystanderKeeps DEF Next

LEMMA StartInvariant == Spec => []StartInv
  BY StartInit, StartStep, TypeInvariant, PTL DEF Spec

(* However often a job is delivered, whatever lapses, dies or throws: the  *)
(* script of a run is started once at most (consumer.ts, execute.ts).      *)
THEOREM StartsOnce == Spec => []StartedOnce
<1>1. StartInv => StartedOnce
  BY DEF StartInv, RunStart, StartedOnce
<1>. QED
  BY <1>1, StartInvariant, PTL

(* A run that was withdrawn, from the queue or by the slot that was about  *)
(* to start it, is never started (runService.ts, execute.ts).              *)
THEOREM WithdrawnStaysUnstarted == Spec => []WithdrawnNeverStarts
<1>1. StartInv => WithdrawnNeverStarts
  BY DEF StartInv, RunStart, WithdrawnNeverStarts
<1>. QED
  BY <1>1, StartInvariant, PTL

-----------------------------------------------------------------------------
(* RunLifecycle implements RunRecord.  Every writer of the row guards its  *)
(* change of status; what has to be shown is that the writes that are not  *)
(* guarded, those of the end of a collection, come after the run is over,  *)
(* and that a slot that reports success was seen running.                  *)
(*                                                                         *)
(* And if no claim lapses while a slot holds the run, the reaper takes no  *)
(* run from a slot that carries it on, whatever else crosses, dies, throws *)
(* or is delivered twice.  The premise is PromptStart: without it the      *)
(* statement is false.                                                     *)

Terminated(r) == runs[r].status \in Terminal
Took(r)       == runs[r].status \notin {"absent", "queued"}
Began(r)      == runs[r].status \notin {"absent", "queued", "starting"}

(* A slot that carries a run took it, one past the transition to running   *)
(* finds it running or over, and one that collects finds it over.          *)
SlotAgrees(w) ==
  /\ worker[w].at \in Driving => Took(worker[w].run)
  /\ worker[w].at \in {"marked", "waiting"} => Began(worker[w].run)
  /\ worker[w].at \in Collecting => Terminated(worker[w].run)

RecordInv ==
  /\ \A r \in Run : runs[r].status \in {"absent"} \cup Live => runs[r].collected = "no"
  /\ \A w \in Worker : SlotAgrees(w)
  /\ \A q \in Request : request[q].seen \in Terminal =>
       request[q].run \in Run /\ Terminated(request[q].run)

(* One row moves from its status and collection to s and c as RunRecord    *)
(* lets it, or no row does.                                                *)
Legal(r, s, c) ==
  \/ s = runs[r].status /\ c = runs[r].collected
  \/ runs[r].status = "absent" /\ s = "queued" /\ c = runs[r].collected
  \/ runs[r].status = "queued" /\ s = "starting" /\ c = runs[r].collected
  \/ runs[r].status = "starting" /\ s = "running" /\ c = runs[r].collected
  \/ /\ runs[r].status \in Live /\ s \in Terminal /\ c \in {"no", "ended"}
     /\ s = "succeeded" => runs[r].status = "running"
     /\ c = "no" => runs[r].status = "running"
  \/ /\ runs[r].status \in Terminal /\ s = runs[r].status
     /\ runs[r].collected # "counted" /\ c \in {"ended", "counted"}

Same(r) == runs'[r].status = runs[r].status /\ runs'[r].collected = runs[r].collected

LegalRows ==
  \/ \A r \in Run : Same(r)
  \/ \E r \in Run : /\ Legal(r, runs'[r].status, runs'[r].collected)
                    /\ \A x \in Run \ {r} : Same(x)

LEMMA LegalRowsImplement ==
  ASSUME runs \in [Run -> Row], runs' \in [Run -> Row], LegalRows
  PROVE  [Record!Next]_Record!vars
<1> DEFINE S == [r \in Run |-> runs[r].status]
           C == [r \in Run |-> runs[r].collected]
           T == [r \in Run |-> runs'[r].status]
           D == [r \in Run |-> runs'[r].collected]
<1>1. CASE \A r \in Run : Same(r)
  <2>1. T = S /\ D = C
    BY <1>1 DEF Same
  <2>. QED
    BY <2>1 DEF Record!vars
<1>2. ASSUME NEW r \in Run, Legal(r, runs'[r].status, runs'[r].collected),
             \A x \in Run \ {r} : Same(x)
      PROVE  [Record!Next]_Record!vars
  <2>1. /\ T = [S EXCEPT ![r] = runs'[r].status]
        /\ D = [C EXCEPT ![r] = runs'[r].collected]
    BY <1>2 DEF Same
  <2>2. /\ runs'[r].status = runs[r].status => T = S
        /\ runs'[r].collected = runs[r].collected => D = C
    BY <2>1
  <2>3. S[r] = runs[r].status /\ C[r] = runs[r].collected
    OBVIOUS
  <2>4. CASE runs'[r].status = runs[r].status /\ runs'[r].collected = runs[r].collected
    BY <2>2, <2>4 DEF Record!vars
  <2>5. CASE runs[r].status = "absent" /\ runs'[r].status = "queued"
             /\ runs'[r].collected = runs[r].collected
    BY <2>1, <2>2, <2>3, <2>5 DEF Record!Next, Record!Create
  <2>6. CASE runs[r].status = "queued" /\ runs'[r].status = "starting"
             /\ runs'[r].collected = runs[r].collected
    BY <2>1, <2>2, <2>3, <2>6 DEF Record!Next, Record!Claim
  <2>7. CASE runs[r].status = "starting" /\ runs'[r].status = "running"
             /\ runs'[r].collected = runs[r].collected
    BY <2>1, <2>2, <2>3, <2>7 DEF Record!Next, Record!Begin
  <2>8. CASE /\ runs[r].status \in Live /\ runs'[r].status \in Terminal
             /\ runs'[r].collected \in {"no", "ended"}
             /\ runs'[r].status = "succeeded" => runs[r].status = "running"
             /\ runs'[r].collected = "no" => runs[r].status = "running"
    BY <2>1, <2>3, <2>8
       DEF Record!Next, Record!Conclude, Record!Live, Record!Terminal, Live, Terminal
  <2>9. CASE /\ runs[r].status \in Terminal /\ runs'[r].status = runs[r].status
             /\ runs[r].collected # "counted" /\ runs'[r].collected \in {"ended", "counted"}
    BY <2>1, <2>2, <2>3, <2>9 DEF Record!Next, Record!Settle, Record!Terminal, Terminal
  <2>. QED
    BY <1>2, <2>4, <2>5, <2>6, <2>7, <2>8, <2>9 DEF Legal
<1>. QED
  BY <1>1, <1>2 DEF LegalRows

(* What a legal step keeps of every row.                                   *)
Onward ==
  \A r \in Run : /\ Took(r) => Took(r)'
                 /\ Began(r) => Began(r)'
                 /\ Terminated(r) => Terminated(r)'

LEMMA LegalRowsGoOnward ==
  ASSUME LegalRows, RecordInv
  PROVE  /\ Onward
         /\ \A r \in Run : runs'[r].status \in {"absent"} \cup Live => runs'[r].collected = "no"
<1>1. ASSUME NEW r \in Run
      PROVE  /\ Same(r) \/ Legal(r, runs'[r].status, runs'[r].collected)
  BY DEF LegalRows
<1>2. ASSUME NEW r \in Run
      PROVE  /\ Took(r) => Took(r)'
             /\ Began(r) => Began(r)'
             /\ Terminated(r) => Terminated(r)'
  BY <1>1 DEF Same, Legal, Took, Began, Terminated, Live, Terminal
<1>3. ASSUME NEW r \in Run, runs'[r].status \in {"absent"} \cup Live
      PROVE  runs'[r].collected = "no"
  BY <1>1, <1>3 DEF Same, Legal, Live, Terminal, RecordInv
<1>. QED
  BY <1>2, <1>3 DEF Onward

(* A slot that goes nowhere new stays in agreement with its row.           *)
NoNews(w) ==
  worker'[w].at \in Driving \cup Collecting =>
    /\ worker'[w].run = worker[w].run
    /\ worker'[w].at \in Driving => worker[w].at \in Driving
    /\ worker'[w].at \in {"marked", "waiting"} => worker[w].at \in {"marked", "waiting"}
    /\ worker'[w].at \in Collecting => worker[w].at \in Collecting

LEMMA NoNewsAgrees ==
  ASSUME TypeInv, RecordInv, Onward, NEW w \in Worker, NoNews(w)
  PROVE  SlotAgrees(w)'
<1>1. worker[w].at \in Driving \cup Collecting => worker[w].run \in Run
  BY DEF TypeInv, BusySlot, Driving, BeforeStart, Collecting
<1>2. SlotAgrees(w)
  BY DEF RecordInv
<1>3. {"marked", "waiting"} \subseteq Driving
  BY DEF Driving
<1>. QED
  BY <1>1, <1>2, <1>3 DEF SlotAgrees, NoNews, Onward, Took, Began, Terminated

LEMMA RecordKept ==
  ASSUME TypeInv, RecordInv, LegalRows, \A w \in Worker : NoNews(w) \/ SlotAgrees(w)',
         \A q \in Request : request'[q].seen \in Terminal =>
           \/ request'[q].run = request[q].run /\ request[q].seen \in Terminal
           \/ request'[q].run \in Run /\ runs'[request'[q].run].status \in Terminal
  PROVE  RecordInv'
<1>1. Onward
  BY LegalRowsGoOnward
<1>2. \A r \in Run : runs'[r].status \in {"absent"} \cup Live => runs'[r].collected = "no"
  BY LegalRowsGoOnward
<1>3. \A w \in Worker : SlotAgrees(w)'
  BY <1>1, NoNewsAgrees
<1>4. \A q \in Request : request'[q].seen \in Terminal =>
        request'[q].run \in Run /\ runs'[request'[q].run].status \in Terminal
  BY <1>1 DEF RecordInv, Onward, Terminated
<1>. QED
  BY <1>2, <1>3, <1>4 DEF RecordInv, SlotAgrees, Terminated

(* A guarded update is legal if it is for every status that passes its     *)
(* guard; an update that leaves status and collection alone always is.     *)
LEMMA TransitionLegal ==
  ASSUME runs \in [Run -> Row], NEW r \in Run, NEW new \in Row, NEW from,
         runs[r].status \in from => Legal(r, new.status, new.collected),
         Transition(r, new, from)
  PROVE  LegalRows
<1>1. \A x \in Run : runs'[x] = IF x = r /\ runs[r].status \in from THEN new ELSE runs[x]
  BY TransitionEffect
<1>2. CASE runs[r].status \in from
  BY <1>1, <1>2 DEF LegalRows, Same
<1>3. CASE runs[r].status \notin from
  BY <1>1, <1>3 DEF LegalRows, Same
<1>. QED
  BY <1>2, <1>3

LEMMA WriteLegal ==
  ASSUME runs \in [Run -> Row], NEW r \in Run, NEW new \in Row,
         Legal(r, new.status, new.collected), Write(r, new)
  PROVE  LegalRows
  BY WriteEffect DEF LegalRows, Same

(* The rows that end a run are legal for a run that is live, or running.   *)
LEMMA EndsAreLegal ==
  ASSUME RecordInv, runs \in [Run -> Row], NEW r \in Run, NEW s \in Terminal
  PROVE  /\ \A y \in {"none", "worker_lost", "other"} :
              /\ Ended(r, s, y) \in Row
              /\ runs[r].status \in Live /\ s # "succeeded"
                   => Legal(r, Ended(r, s, y).status, Ended(r, s, y).collected)
         /\ Exited(r, s) \in Row
         /\ runs[r].status = "running" => Legal(r, Exited(r, s).status, Exited(r, s).collected)
<1>1. "running" \in Live
  BY DEF Live
<1>2. runs[r].status = "running" => runs[r].collected = "no"
  BY <1>1 DEF RecordInv
<1>. QED
  BY <1>1, <1>2, RowTypes, RowFields DEF Legal

(* A request that keeps what it has seen, or forgets it, tells no news.    *)
LEMMA ProceedSees ==
  ASSUME TypeInv, NEW q \in Request, NEW a, Proceed(q, a) \/ Reply(q) \/ UNCHANGED request
  PROVE  \A p \in Request : request'[p].seen \in Terminal =>
           request'[p].run = request[p].run /\ request[p].seen \in Terminal
<1>1. \A p \in Request : request[p] \in Ask
  BY BusyIsTyped DEF TypeInv, TypeOK
<1>2. Quiet.seen \notin Terminal
  BY DEF Quiet, Terminal
<1>3. \A p \in Request \ {q} : request'[p] = request[p]
  BY DEF Proceed, Reply, Turn, TypeInv
<1>4. CASE Proceed(q, a)
  <2>1. request'[q].seen = request[q].seen /\ request'[q].run = request[q].run
    BY <1>1, <1>4 DEF Proceed, Turn, TypeInv, Ask
  <2>. QED
    BY <1>3, <2>1
<1>5. CASE Reply(q)
  <2>1. request'[q] = Quiet
    BY <1>5 DEF Reply, Turn, TypeInv
  <2>. QED
    BY <1>2, <1>3, <2>1
<1>. QED
  BY <1>4, <1>5

LEMMA RequestRecord ==
  ASSUME TypeInv, RecordInv, NEW q \in Request, RequestStep(q)
  PROVE  LegalRows /\ RecordInv'
<1>. USE DEF TypeInv, TypeOK
<1>a. request[q].at # "idle" => request[q].run \in Run
  BY DEF BusyAsk
<1>b. UNCHANGED runs => LegalRows
  BY DEF LegalRows, Same
<1>c. UNCHANGED worker => \A w \in Worker : NoNews(w)
  BY DEF NoNews
<1>d. ASSUME NEW r \in Run, NEW at, NEW seen,
             Turn(q, [at |-> at, run |-> r, seen |-> seen]),
             seen \in Terminal => Terminated(r), UNCHANGED runs \/ seen = "none"
      PROVE  \A p \in Request : request'[p].seen \in Terminal =>
               \/ request'[p].run = request[p].run /\ request[p].seen \in Terminal
               \/ request'[p].run \in Run /\ runs'[request'[p].run].status \in Terminal
  <2>1. request'[q] = [at |-> at, run |-> r, seen |-> seen]
        /\ \A p \in Request \ {q} : request'[p] = request[p]
    BY <1>d DEF Turn
  <2>2. "none" \notin Terminal
    BY DEF Terminal
  <2>3. request'[q].run = r /\ request'[q].seen = seen
    BY <2>1
  <2>4. seen \in Terminal => runs'[r].status \in Terminal
    BY <1>d, <2>2 DEF Terminated
  <2>. QED
    BY <2>1, <2>3, <2>4
<1>e. /\ "aborted" \in Terminal /\ "failed" \in Terminal
      /\ {"queued", "starting", "running"} = Live
  BY DEF Terminal, Live
<1>1. ASSUME NEW r \in Run, CreateRun(q, r) PROVE LegalRows /\ RecordInv'
  <2>1. Queued(r) \in Row /\ Legal(r, Queued(r).status, Queued(r).collected)
    BY <1>1, RowTypes, RowFields DEF CreateRun, Legal
  <2>2. LegalRows
    BY <1>1, <2>1, WriteLegal DEF CreateRun
  <2>3. UNCHANGED worker /\ Turn(q, [at |-> "push", run |-> r, seen |-> "none"])
    BY <1>1 DEF CreateRun
  <2>4. "none" \notin Terminal
    BY DEF Terminal
  <2>. QED
    BY <1>c, <1>d, <2>2, <2>3, <2>4, RecordKept
<1>2. ASSUME PushJob(q) PROVE LegalRows /\ RecordInv'
  BY <1>2, <1>b, <1>c, ProceedSees, RecordKept DEF PushJob, store
<1>3. ASSUME NEW r \in Run, ReadToAbort(q, r) PROVE LegalRows /\ RecordInv'
  <2>1. UNCHANGED <<runs, worker>>
    BY <1>3 DEF ReadToAbort, store
  <2>2. "none" \notin Terminal
    BY DEF Terminal
  <2>3. PICK at \in RequestAt : Turn(q, [at |-> at, run |-> r, seen |-> "none"])
    BY <1>3 DEF ReadToAbort, RequestAt
  <2>. QED
    BY <1>b, <1>c, <1>d, <2>1, <2>2, <2>3, RecordKept
<1>4. ASSUME CancelQueued(q) PROVE LegalRows /\ RecordInv'
  <2> DEFINE r == request[q].run
  <2>1. r \in Run
    BY <1>4, <1>a DEF CancelQueued, RequestIs
  <2>2. /\ Ended(r, "aborted", "other") \in Row
        /\ runs[r].status \in CancelFrom =>
             Legal(r, Ended(r, "aborted", "other").status, Ended(r, "aborted", "other").collected)
    BY <1>e, <2>1, EndsAreLegal DEF CancelFrom
  <2>3. LegalRows
    BY <1>4, <2>1, <2>2, TransitionLegal DEF CancelQueued
  <2>. QED
    BY <1>4, <1>c, <2>3, ProceedSees, RecordKept DEF CancelQueued
<1>5. ASSUME RecordStop(q) PROVE LegalRows /\ RecordInv'
  <2> DEFINE r == request[q].run
             new == [runs[r] EXCEPT !.asked = TRUE]
  <2>1. r \in Run /\ Write(r, new)
    BY <1>5, <1>a DEF RecordStop, RequestIs
  <2>2. new \in Row /\ Legal(r, new.status, new.collected)
    BY <2>1, RowEdits, SmallEdits DEF Legal
  <2>3. LegalRows
    <3>. HIDE DEF new
    <3>. QED
      BY <2>1, <2>2, WriteLegal
  <2>. QED
    BY <1>5, <1>c, <2>3, ProceedSees, RecordKept DEF RecordStop
<1>6. ASSUME PublishStop(q) PROVE LegalRows /\ RecordInv'
  <2>1. \A w \in Worker : worker'[w].at = worker[w].at /\ worker'[w].run = worker[w].run
    BY <1>6, BusyIsTyped DEF PublishStop, Slot
  <2>. QED
    BY <1>6, <1>b, <2>1, ProceedSees, RecordKept DEF PublishStop, NoNews
<1>7. ASSUME NEW r \in Run, ReadToReap(q, r) PROVE LegalRows /\ RecordInv'
  <2>1. UNCHANGED <<runs, worker>>
    BY <1>7 DEF ReadToReap, store
  <2>2. Turn(q, [at |-> "checkClaim", run |-> r, seen |-> runs[r].status])
    BY <1>7 DEF ReadToReap
  <2>. QED
    BY <1>b, <1>c, <1>d, <2>1, <2>2, RecordKept DEF Terminated
<1>8. ASSUME CheckClaim(q) PROVE LegalRows /\ RecordInv'
  BY <1>8, <1>b, <1>c, ProceedSees, RecordKept DEF CheckClaim, store
<1>9. ASSUME ReapLive(q) PROVE LegalRows /\ RecordInv'
  <2> DEFINE r == request[q].run
  <2>1. r \in Run
    BY <1>9, <1>a DEF ReapLive, RequestIs
  <2>2. /\ Ended(r, "failed", "worker_lost") \in Row
        /\ runs[r].status \in ReapFrom =>
             Legal(r, Ended(r, "failed", "worker_lost").status,
                      Ended(r, "failed", "worker_lost").collected)
    BY <1>e, <2>1, EndsAreLegal DEF ReapFrom
  <2>3. LegalRows
    BY <1>9, <2>1, <2>2, TransitionLegal DEF ReapLive
  <2>. QED
    BY <1>9, <1>c, <2>3, ProceedSees, RecordKept DEF ReapLive
<1>10. ASSUME ReapCollection(q) PROVE LegalRows /\ RecordInv'
  <2> DEFINE r == request[q].run
             new == [runs[r] EXCEPT !.collected = IF @ = "counted" THEN @ ELSE "ended"]
  <2>1. r \in Run /\ Terminated(r) /\ Write(r, new)
    BY <1>10, <1>a DEF ReapCollection, RequestIs, RecordInv, MarkCollectionEnded
  <2>2. new \in Row /\ Legal(r, new.status, new.collected)
    BY <2>1, EndedEdit DEF Legal, Terminated
  <2>3. LegalRows
    <3>. HIDE DEF new
    <3>. QED
      BY <2>1, <2>2, WriteLegal
  <2>. QED
    BY <1>10, <1>c, <2>3, ProceedSees, RecordKept DEF ReapCollection
<1>11. ASSUME RequestDies(q) PROVE LegalRows /\ RecordInv'
  BY <1>11, <1>b, <1>c, ProceedSees, RecordKept DEF RequestDies, store
<1>. HIDE DEF TypeInv, TypeOK
<1>. QED
  BY <1>1, <1>2, <1>3, <1>4, <1>5, <1>6, <1>7, <1>8, <1>9, <1>10, <1>11 DEF RequestStep

(* The end of a script, as a slot writes it to the row.                    *)
LEMMA FinishRecord ==
  ASSUME TypeInv, RecordInv, NEW w \in Worker, NEW code, worker[w].at = "waiting",
         FinishWith(w, code)
  PROVE  LegalRows /\ RecordInv'
<1>. USE DEF TypeInv, TypeOK
<1> DEFINE r == worker[w].run
           v == Verdict(w, code)
           new == [worker[w] EXCEPT !.at = "ended", !.verdict = v]
<1>1. r \in Run /\ Began(r) /\ v \in Terminal
  BY DEF BusySlot, RecordInv, SlotAgrees, Verdict, Terminal
<1>2. /\ Exited(r, v) \in Row
      /\ runs[r].status \in FinishFrom => Legal(r, Exited(r, v).status, Exited(r, v).collected)
  BY <1>1, EndsAreLegal DEF FinishFrom, Began
<1>3. Transition(r, Exited(r, v), FinishFrom) /\ Become(w, new) /\ UNCHANGED request
  BY DEF FinishWith
<1>4. new.at = "ended" /\ new.run = r
  BY BusyIsTyped DEF Slot
<1>. HIDE DEF v, new
<1>5. LegalRows
  BY <1>1, <1>2, <1>3, TransitionLegal
<1>6. runs'[r].status \in Terminal
  <2>1. runs[r].status \in FinishFrom \/ runs[r].status \in Terminal
    BY <1>1 DEF Began, FinishFrom, Row, Live
  <2>2. Exited(r, v).status \in Terminal
    BY <1>1, RowFields
  <2>. QED
    BY <1>1, <1>2, <1>3, <2>1, <2>2, TransitionEffect
<1>7. /\ worker'[w].at = "ended" /\ worker'[w].run = r
      /\ \A u \in Worker \ {w} : worker'[u] = worker[u]
  BY <1>3, <1>4, SlotMoves
<1>8. SlotAgrees(w)'
  BY <1>6, <1>7 DEF SlotAgrees, Terminated, Driving, BeforeStart
<1>9. \A u \in Worker \ {w} : NoNews(u)
  BY <1>7 DEF NoNews
<1>. QED
  BY <1>3, <1>5, <1>8, <1>9, ProceedSees, RecordKept

(* The steps of a slot: taking a run, marking it running and recording its *)
(* end bring the slot and the row forward together.                        *)
LEMMA WorkerRecord ==
  ASSUME TypeInv, RecordInv, NEW w \in Worker, WorkerStep(w)
  PROVE  LegalRows /\ RecordInv'
<1>. USE DEF TypeInv, TypeOK
<1> DEFINE r == worker[w].run
<1>a. worker[w].at \notin {"idle", "down"} => r \in Run
  BY DEF BusySlot
<1>b. UNCHANGED runs => LegalRows
  BY DEF LegalRows, Same
<1>c. Driving = {"starting", "connected", "inspected", "clear", "stopped", "opened", "attached",
                 "marked", "waiting"} /\ Collecting = {"ended", "recorded"}
  BY DEF Driving, BeforeStart, Collecting
<1>d. "aborted" \in Terminal /\ "failed" \in Terminal
  BY DEF Terminal
<1>e. ASSUME NEW s, Become(w, s), s.at \notin Driving \cup Collecting PROVE \A v \in Worker : NoNews(v)
  <2>1. worker'[w] = s /\ \A v \in Worker \ {w} : worker'[v] = worker[v]
    BY <1>e, SlotMoves
  <2>. QED
    BY <1>e, <2>1 DEF NoNews
<1>f. ASSUME NEW b, GoFail(w, b) PROVE \A v \in Worker : NoNews(v)
  BY <1>c, <1>f, SlotMoves DEF NoNews
<1>g. ASSUME NEW a, Go(w, a), a \notin Driving \cup Collecting PROVE \A v \in Worker : NoNews(v)
  <2>1. worker'[w].at = a /\ \A v \in Worker \ {w} : worker'[v] = worker[v]
    BY <1>g, SlotMoves
  <2>. QED
    BY <1>g, <2>1 DEF NoNews
<1>h. ASSUME NEW a \in {"connected", "inspected", "stopped", "clear", "opened"}, Go(w, a),
             worker[w].at \in Driving
      PROVE  \A v \in Worker : NoNews(v)
  <2>1. /\ worker'[w].at = a /\ worker'[w].run = r
        /\ \A v \in Worker \ {w} : worker'[v] = worker[v]
    BY <1>h, SlotMoves
  <2>2. a \notin {"marked", "waiting"} /\ a \notin Collecting
    BY <1>c, <1>h
  <2>. QED
    BY <1>h, <2>1, <2>2 DEF NoNews
<1>i. Idle.at \notin Driving \cup Collecting
  BY <1>c DEF Idle
<1>j. UNCHANGED request =>
        \A p \in Request : request'[p].seen \in Terminal =>
          request'[p].run = request[p].run /\ request[p].seen \in Terminal
  OBVIOUS
<1>1. ASSUME Pop(w) PROVE LegalRows /\ RecordInv'
  <2> DEFINE new == [worker[w] EXCEPT !.at = "popped", !.run = Head(queue)]
  <2>1. new.at = "popped"
    BY BusyIsTyped DEF Slot
  <2>2. Become(w, new) /\ UNCHANGED <<runs, request>>
    BY <1>1 DEF Pop, store
  <2>. HIDE DEF new
  <2>3. new.at \notin Driving \cup Collecting
    BY <1>c, <2>1
  <2>. QED
    BY <1>b, <1>e, <1>j, <2>2, <2>3, RecordKept
<1>2. ASSUME ClaimRun(w) PROVE LegalRows /\ RecordInv'
  <2>1. Go(w, "claimed") \/ Become(w, Idle)
    BY <1>2 DEF ClaimRun
  <2>2. \A v \in Worker : NoNews(v)
    BY <1>c, <1>e, <1>g, <1>i, <2>1
  <2>. QED
    BY <1>2, <1>b, <1>j, <2>2, RecordKept DEF ClaimRun, store
<1>3. ASSUME TakeRun(w) PROVE LegalRows /\ RecordInv'
  <2>1. r \in Run
    BY <1>3, <1>a DEF TakeRun, At
  <2>2. Starting(r) \in Row /\ Starting(r).status = "starting"
        /\ (runs[r].status \in ClaimFrom => Legal(r, Starting(r).status, Starting(r).collected))
    BY <2>1, RowTypes, RowFields DEF Legal, ClaimFrom
  <2>3. Transition(r, Starting(r), ClaimFrom) /\ UNCHANGED request
    BY <1>3 DEF TakeRun
  <2>4. LegalRows
    BY <2>1, <2>2, <2>3, TransitionLegal
  <2>5. CASE runs[r].status \in ClaimFrom
    <3>1. runs'[r].status = "starting"
      BY <2>1, <2>2, <2>3, <2>5, TransitionEffect
    <3>2. Go(w, "starting")
      BY <1>3, <2>5 DEF TakeRun
    <3>3. /\ worker'[w].at = "starting" /\ worker'[w].run = r
          /\ \A v \in Worker \ {w} : worker'[v] = worker[v]
      BY <3>2, SlotMoves
    <3>4. SlotAgrees(w)'
      BY <1>c, <3>1, <3>3 DEF SlotAgrees, Took
    <3>5. \A v \in Worker \ {w} : NoNews(v)
      BY <3>3 DEF NoNews
    <3>. QED
      BY <1>j, <2>3, <2>4, <3>4, <3>5, RecordKept
  <2>6. CASE runs[r].status \notin ClaimFrom
    <3>1. Go(w, "release")
      BY <1>3, <2>6 DEF TakeRun
    <3>2. \A v \in Worker : NoNews(v)
      BY <1>c, <1>g, <3>1
    <3>. QED
      BY <1>j, <2>3, <2>4, <3>2, RecordKept
  <2>. QED
    BY <2>5, <2>6
<1>4. ASSUME Connect(w) PROVE LegalRows /\ RecordInv'
  <2>1. \A v \in Worker : NoNews(v)
    BY <1>4, <1>c, <1>f, <1>h DEF Connect, At
  <2>. QED
    BY <1>4, <1>b, <1>j, <2>1, RecordKept DEF Connect, store
<1>5. ASSUME Inspect(w) PROVE LegalRows /\ RecordInv'
  <2>1. \A v \in Worker : NoNews(v)
    BY <1>5, <1>c, <1>f, <1>h DEF Inspect, At
  <2>. QED
    BY <1>5, <1>b, <1>j, <2>1, RecordKept DEF Inspect, store
<1>6. ASSUME CheckStop(w) PROVE LegalRows /\ RecordInv'
  <2>1. \A v \in Worker : NoNews(v)
    BY <1>6, <1>c, <1>h DEF CheckStop, At
  <2>. QED
    BY <1>6, <1>b, <1>j, <2>1, RecordKept DEF CheckStop
<1>7. ASSUME AbandonStart(w) PROVE LegalRows /\ RecordInv'
  <2> DEFINE new == [worker[w] EXCEPT !.at = "abandoned", !.verdict = "aborted"]
  <2>1. r \in Run
    BY <1>7, <1>a DEF AbandonStart, At
  <2>2. /\ Ended(r, "aborted", "other") \in Row
        /\ runs[r].status \in AbandonFrom =>
             Legal(r, Ended(r, "aborted", "other").status, Ended(r, "aborted", "other").collected)
    BY <1>d, <2>1, EndsAreLegal DEF AbandonFrom, Live
  <2>3. LegalRows
    BY <1>7, <2>1, <2>2, TransitionLegal DEF AbandonStart
  <2>4. new.at = "abandoned"
    BY BusyIsTyped DEF Slot
  <2>5. Become(w, new) /\ UNCHANGED request
    BY <1>7 DEF AbandonStart
  <2>. HIDE DEF new
  <2>6. \A v \in Worker : NoNews(v)
    BY <1>c, <1>e, <2>4, <2>5
  <2>. QED
    BY <1>j, <2>3, <2>5, <2>6, RecordKept
<1>8. ASSUME StartScript(w) PROVE LegalRows /\ RecordInv'
  <2>1. \A v \in Worker : NoNews(v)
    BY <1>8, <1>c, <1>h DEF StartScript, At
  <2>. QED
    BY <1>8, <1>b, <1>j, <2>1, RecordKept DEF StartScript, store
<1>9. ASSUME Attach(w) PROVE LegalRows /\ RecordInv'
  <2> DEFINE new == [worker[w] EXCEPT !.at = "attached", !.ears = "pending"]
  <2>1. new.at = "attached" /\ new.run = r /\ worker[w].at = "opened"
    BY <1>9, BusyIsTyped DEF Slot, Attach, At
  <2>2. Become(w, new) /\ UNCHANGED <<runs, request>>
    BY <1>9 DEF Attach, store
  <2>. HIDE DEF new
  <2>3. \A v \in Worker : NoNews(v)
    BY <1>c, <2>1, <2>2, SlotMoves DEF NoNews
  <2>. QED
    BY <1>b, <1>j, <2>2, <2>3, RecordKept
<1>10. ASSUME MarkRunning(w) PROVE LegalRows /\ RecordInv'
  <2>1. r \in Run /\ worker[w].at = "attached"
    BY <1>10, <1>a DEF MarkRunning, At
  <2>2. Running(r) \in Row /\ Running(r).status = "running"
        /\ (runs[r].status \in RunFrom => Legal(r, Running(r).status, Running(r).collected))
    BY <2>1, RowTypes, RowFields DEF Legal, RunFrom
  <2>3. Transition(r, Running(r), RunFrom) /\ UNCHANGED request
    BY <1>10 DEF MarkRunning
  <2>4. LegalRows
    BY <2>1, <2>2, <2>3, TransitionLegal
  <2>5. Took(r)
    BY <1>c, <2>1 DEF RecordInv, SlotAgrees
  <2>6. runs'[r].status \notin {"absent", "queued", "starting"}
    BY <2>1, <2>2, <2>3, <2>5, TransitionEffect DEF Took, RunFrom
  <2>7. /\ worker'[w].at = "marked" /\ worker'[w].run = r
        /\ \A v \in Worker \ {w} : worker'[v] = worker[v]
    BY <1>10, SlotMoves DEF MarkRunning
  <2>8. SlotAgrees(w)'
    BY <1>c, <2>6, <2>7 DEF SlotAgrees, Took, Began
  <2>9. \A v \in Worker \ {w} : NoNews(v)
    BY <2>7 DEF NoNews
  <2>. QED
    BY <1>j, <2>3, <2>4, <2>8, <2>9, RecordKept
<1>11. ASSUME RecheckStop(w) PROVE LegalRows /\ RecordInv'
  <2> DEFINE new == [worker[w] EXCEPT !.at = "waiting",
                       !.stop = IF runs[r].asked THEN RequestAbort(w) ELSE @]
  <2>1. new.at = "waiting" /\ new.run = r /\ worker[w].at = "marked"
    BY <1>11, BusyIsTyped DEF Slot, RecheckStop, At
  <2>2. Become(w, new) /\ UNCHANGED <<runs, request>>
    BY <1>11 DEF RecheckStop, store
  <2>. HIDE DEF new
  <2>3. \A v \in Worker : NoNews(v)
    BY <1>c, <2>1, <2>2, SlotMoves DEF NoNews
  <2>. QED
    BY <1>b, <1>j, <2>2, <2>3, RecordKept
<1>12. ASSUME Finish(w) PROVE LegalRows /\ RecordInv'
  BY <1>12, FinishRecord DEF Finish, At
<1>13. ASSUME RecordOutcome(w) PROVE LegalRows /\ RecordInv'
  <2>1. \A v \in Worker : NoNews(v)
    <3>1. CASE At(w, "ended")
      <4>1. Go(w, "recorded") /\ worker[w].at \in Collecting
        BY <1>13, <1>c, <3>1 DEF RecordOutcome, At
      <4>2. /\ worker'[w].at = "recorded" /\ worker'[w].run = r
            /\ \A v \in Worker \ {w} : worker'[v] = worker[v]
        BY <4>1, SlotMoves
      <4>. QED
        BY <1>c, <4>1, <4>2 DEF NoNews
    <3>2. CASE ~At(w, "ended")
      BY <1>13, <1>c, <1>g, <3>2 DEF RecordOutcome
    <3>. QED
      BY <3>1, <3>2
  <2>. QED
    BY <1>13, <1>b, <1>j, <2>1, RecordKept DEF RecordOutcome
<1>14. ASSUME Collect(w) PROVE LegalRows /\ RecordInv'
  <2> DEFINE counted == [runs[r] EXCEPT !.collected = "counted"]
             ended == [runs[r] EXCEPT !.collected = IF @ = "counted" THEN @ ELSE "ended"]
             new == [worker[w] EXCEPT !.at = "release", !.ears = "off", !.inbox = FALSE]
  <2>1. r \in Run /\ Terminated(r)
    BY <1>14, <1>a, <1>c DEF Collect, At, RecordInv, SlotAgrees
  <2>2. Write(r, counted) \/ Write(r, ended)
    BY <1>14 DEF Collect, MarkCollected, MarkCollectionEnded
  <2>3. /\ counted \in Row /\ Legal(r, counted.status, counted.collected)
        /\ ended \in Row /\ Legal(r, ended.status, ended.collected)
    <3>1. runs[r] \in Row
      BY <2>1
    <3>2. counted \in Row /\ counted.status = runs[r].status /\ counted.collected = "counted"
      BY <3>1, RowEdits, SmallEdits
    <3>3. /\ ended \in Row /\ ended.status = runs[r].status
          /\ ended.collected = IF runs[r].collected = "counted" THEN "counted" ELSE "ended"
      BY <3>1, EndedEdit
    <3>. HIDE DEF counted, ended
    <3>. QED
      BY <2>1, <3>2, <3>3 DEF Legal, Terminated
  <2>4. new.at = "release"
    BY BusyIsTyped DEF Slot
  <2>5. Become(w, new) /\ UNCHANGED request
    BY <1>14 DEF Collect
  <2>. HIDE DEF counted, ended, new
  <2>6. LegalRows
    BY <2>1, <2>2, <2>3, WriteLegal
  <2>7. \A v \in Worker : NoNews(v)
    BY <1>c, <1>e, <2>4, <2>5
  <2>. QED
    BY <1>j, <2>5, <2>6, <2>7, RecordKept
<1>15. ASSUME Release(w) PROVE LegalRows /\ RecordInv'
  <2>1. \A v \in Worker : NoNews(v)
    BY <1>15, <1>e, <1>i DEF Release
  <2>. QED
    BY <1>15, <1>b, <1>j, <2>1, RecordKept DEF Release, store
<1>16. ASSUME FailRun(w) PROVE LegalRows /\ RecordInv'
  <2>1. r \in Run
    BY <1>16, <1>a DEF FailRun, At
  <2>2. /\ Ended(r, "failed", "other") \in Row
        /\ runs[r].status \in FailFrom =>
             Legal(r, Ended(r, "failed", "other").status, Ended(r, "failed", "other").collected)
    BY <1>d, <2>1, EndsAreLegal DEF FailFrom, Live
  <2>3. LegalRows
    BY <1>16, <2>1, <2>2, TransitionLegal DEF FailRun
  <2>4. \A v \in Worker : NoNews(v)
    BY <1>16, <1>c, <1>g DEF FailRun
  <2>. QED
    BY <1>16, <1>j, <2>3, <2>4, RecordKept DEF FailRun
<1>17. ASSUME RecordFailure(w) PROVE LegalRows /\ RecordInv'
  <2>1. \A v \in Worker : NoNews(v)
    BY <1>17, <1>c, <1>g DEF RecordFailure
  <2>. QED
    BY <1>17, <1>b, <1>j, <2>1, RecordKept DEF RecordFailure
<1>. HIDE DEF TypeInv, TypeOK
<1>. QED
  BY <1>1, <1>2, <1>3, <1>4, <1>5, <1>6, <1>7, <1>8, <1>9, <1>10, <1>11, <1>12, <1>13, <1>14,
     <1>15, <1>16, <1>17 DEF WorkerStep

LEMMA BesideRecord ==
  ASSUME TypeInv, RecordInv, NEW w \in Worker, Beside(w)
  PROVE  LegalRows /\ RecordInv'
<1>. USE DEF TypeInv, TypeOK
<1>b. UNCHANGED runs => LegalRows
  BY DEF LegalRows, Same
<1>c. Driving = {"starting", "connected", "inspected", "clear", "stopped", "opened", "attached",
                 "marked", "waiting"} /\ Collecting = {"ended", "recorded"}
  BY DEF Driving, BeforeStart, Collecting
<1>d. worker[w] \in Slot
  BY BusyIsTyped
<1>e. ASSUME NEW s, Become(w, s), \/ s.at \notin Driving \cup Collecting
                                  \/ s.at = worker[w].at /\ s.run = worker[w].run
      PROVE  \A v \in Worker : NoNews(v)
  <2>1. worker'[w] = s /\ \A v \in Worker \ {w} : worker'[v] = worker[v]
    BY <1>e, SlotMoves
  <2>. QED
    BY <1>e, <2>1 DEF NoNews
<1>f. ASSUME NEW b, GoFail(w, b) PROVE \A v \in Worker : NoNews(v)
  BY <1>c, <1>f, SlotMoves DEF NoNews
<1>g. ASSUME NEW a, Go(w, a), a \notin Driving \cup Collecting PROVE \A v \in Worker : NoNews(v)
  <2>1. worker'[w].at = a /\ \A v \in Worker \ {w} : worker'[v] = worker[v]
    BY <1>g, SlotMoves
  <2>. QED
    BY <1>g, <2>1 DEF NoNews
<1>j. UNCHANGED request =>
        \A p \in Request : request'[p].seen \in Terminal =>
          request'[p].run = request[p].run /\ request[p].seen \in Terminal
  OBVIOUS
<1>k. UNCHANGED <<runs, request>> /\ (\A v \in Worker : NoNews(v)) => LegalRows /\ RecordInv'
  BY <1>b, <1>j, RecordKept
<1>1. ASSUME Subscribed(w) PROVE LegalRows /\ RecordInv'
  <2>1. \A v \in Worker : NoNews(v)
    BY <1>1, <1>d, <1>e DEF Subscribed, Slot
  <2>. QED
    BY <1>1, <1>k, <2>1 DEF Subscribed, store
<1>2. ASSUME HearStop(w) PROVE LegalRows /\ RecordInv'
  <2>1. \A v \in Worker : NoNews(v)
    BY <1>2, <1>d, <1>e DEF HearStop, Slot
  <2>. QED
    BY <1>2, <1>k, <2>1 DEF HearStop, store
<1>3. ASSUME SendSignal(w) PROVE LegalRows /\ RecordInv'
  <2>1. \A v \in Worker : NoNews(v)
    BY <1>3, <1>d, <1>e DEF SendSignal, Slot
  <2>. QED
    BY <1>3, <1>k, <2>1 DEF SendSignal, store
<1>4. ASSUME SignalSent(w) PROVE LegalRows /\ RecordInv'
  <2>1. \A v \in Worker : NoNews(v)
    BY <1>4, <1>d, <1>e DEF SignalSent, Slot
  <2>. QED
    BY <1>4, <1>k, <2>1 DEF SignalSent, store
<1>5. ASSUME LoseConnection(w) PROVE LegalRows /\ RecordInv'
  BY <1>5, FinishRecord DEF LoseConnection, At
<1>6. ASSUME Throw(w) PROVE LegalRows /\ RecordInv'
  <2>1. \A v \in Worker : NoNews(v)
    BY <1>6, <1>c, <1>f, <1>g DEF Throw
  <2>. QED
    BY <1>6, <1>k, <2>1 DEF Throw, store
<1>7. ASSUME LoseJob(w) PROVE LegalRows /\ RecordInv'
  <2>1. Idle.at \notin Driving \cup Collecting
    BY <1>c DEF Idle
  <2>. QED
    BY <1>7, <1>e, <1>k, <2>1 DEF LoseJob, store
<1>8. ASSUME CheckBlind(w) PROVE LegalRows /\ RecordInv'
  <2> DEFINE a == IF At(w, "inspected") THEN "clear" ELSE "waiting"
  <2>1. Go(w, a) /\ \/ worker[w].at = "inspected" /\ a = "clear"
                    \/ worker[w].at = "marked" /\ a = "waiting"
    BY <1>8 DEF CheckBlind, At
  <2>. HIDE DEF a
  <2>2. /\ worker'[w].at = a /\ worker'[w].run = worker[w].run
        /\ \A v \in Worker \ {w} : worker'[v] = worker[v]
    BY <2>1, SlotMoves
  <2>3. \A v \in Worker : NoNews(v)
    BY <1>c, <2>1, <2>2 DEF NoNews
  <2>. QED
    BY <1>8, <1>k, <2>3 DEF CheckBlind, store
<1>9. ASSUME Crash(w) PROVE LegalRows /\ RecordInv'
  <2>1. [Idle EXCEPT !.at = "down"].at \notin Driving \cup Collecting
    BY <1>c DEF Idle
  <2>. QED
    BY <1>9, <1>e, <1>k, <2>1 DEF Crash, store
<1>10. ASSUME Restart(w) PROVE LegalRows /\ RecordInv'
  <2>1. \A v \in Worker : NoNews(v)
    BY <1>10, <1>c, <1>g DEF Restart
  <2>. QED
    BY <1>10, <1>k, <2>1 DEF Restart, store
<1>11. ASSUME NEW r \in Run, RenewClaim(w, r) PROVE LegalRows /\ RecordInv'
  BY <1>11, <1>k DEF RenewClaim, store, NoNews
<1>. HIDE DEF TypeInv, TypeOK
<1>. QED
  BY <1>1, <1>2, <1>3, <1>4, <1>5, <1>6, <1>7, <1>8, <1>9, <1>10, <1>11 DEF Beside

LEMMA SurroundingRecord ==
  ASSUME TypeInv, RecordInv, Surroundings
  PROVE  LegalRows /\ RecordInv'
<1>. USE DEF TypeInv, TypeOK
<1>k. UNCHANGED <<worker, request>> /\ LegalRows => LegalRows /\ RecordInv'
  BY RecordKept DEF NoNews
<1>l. UNCHANGED runs => LegalRows
  BY DEF LegalRows, Same
<1>1. ASSUME NEW r \in Run, ScriptEnds(r) PROVE LegalRows /\ RecordInv'
  BY <1>1, <1>k, <1>l DEF ScriptEnds, store
<1>2. ASSUME NEW r \in Run, ExpireClaim(r) PROVE LegalRows /\ RecordInv'
  BY <1>2, <1>k, <1>l DEF ExpireClaim, store
<1>3. ASSUME NEW r \in Run, NEW s \in Stamp, GrowOld(r, s) PROVE LegalRows /\ RecordInv'
  <2> DEFINE new == [runs[r] EXCEPT !.age[s] = "old"]
  <2>1. new \in Row /\ new.status = runs[r].status /\ new.collected = runs[r].collected
    BY RowEdits, SmallEdits
  <2>2. Legal(r, new.status, new.collected) /\ Write(r, new)
    BY <1>3, <2>1 DEF Legal, GrowOld
  <2>. HIDE DEF new
  <2>3. LegalRows
    BY <2>1, <2>2, WriteLegal
  <2>. QED
    BY <1>3, <1>k, <2>3 DEF GrowOld
<1>4. ASSUME NEW r \in Run, Requeue(r) PROVE LegalRows /\ RecordInv'
  BY <1>4, <1>k, <1>l DEF Requeue, store
<1>. QED
  BY <1>1, <1>2, <1>3, <1>4 DEF Surroundings

LEMMA RecordInit == Init => RecordInv
<1>1. Quiet.seen \notin Terminal /\ NoRow.collected = "no"
  BY DEF Quiet, Terminal, NoRow
<1>2. Idle.at \notin Driving \cup Collecting /\ {"marked", "waiting"} \subseteq Driving
  BY DEF Idle, Driving, BeforeStart, Collecting
<1>. QED
  BY <1>1, <1>2 DEF Init, RecordInv, SlotAgrees

LEMMA RecordStep == TypeInv /\ RecordInv /\ [Next]_vars => RecordInv' /\ LegalRows
<1>1. ASSUME TypeInv, RecordInv, UNCHANGED vars PROVE RecordInv' /\ LegalRows
  <2>1. LegalRows
    BY <1>1 DEF vars, store, LegalRows, Same
  <2>. QED
    BY <1>1, <2>1, RecordKept DEF vars, NoNews
<1>. QED
  BY <1>1, RequestRecord, WorkerRecord, BesideRecord, SurroundingRecord DEF Next

(* Whoever writes the row of a run, in whatever order and whatever dies or *)
(* throws between two writes: its status and the end of its collection     *)
(* move as RunRecord says (runRepository.ts, runService.ts, execute.ts).   *)
THEOREM Implements == Spec => FollowsTheRecord
<1>1. Init => Record!Init
  BY DEF Init, Record!Init, NoRow
<1>2. TypeInv /\ TypeInv' /\ RecordInv /\ [Next]_vars => [Record!Next]_Record!vars
  BY RecordStep, LegalRowsImplement DEF TypeInv, TypeOK
<1>3. Spec => []RecordInv
  BY RecordInit, RecordStep, TypeInvariant, PTL DEF Spec
<1>. QED
  BY <1>1, <1>2, <1>3, TypeInvariant, PTL DEF Spec, FollowsTheRecord, Record!Spec

-----------------------------------------------------------------------------
\* What the claim on a run is worth

(* A slot that holds a run keeps everybody else from claiming it.          *)
HolderInv ==
  /\ \A r \in Run, w \in Worker : Holds(w, r) => claim[r] # NoWorker
  /\ \A r \in Run, v, w \in Worker : Holds(v, r) /\ Holds(w, r) => v = w

(* A request that read a live row to reap it read one that had been taken, *)
(* and when it is about to reap nobody carries the run on.                 *)
Asks(q)  == request[q].at \in {"checkClaim", "reap"} /\ request[q].seen \in Live
ReaperInv ==
  \A q \in Request : Asks(q) =>
    /\ request[q].run \in Run /\ Took(request[q].run)
    /\ request[q].at = "reap" => \A w \in Worker : ~Drives(w, request[q].run)

LostInv ==
  \A r \in Run : runs[r].reason = "worker_lost" =>
    Took(r) /\ \A w \in Worker : ~Drives(w, r)

ClaimInv == HolderInv /\ ReaperInv /\ LostInv

(* What nearly every step leaves as it is.                                 *)
NoNewHolder == \A w \in Worker, r \in Run : Holds(w, r)' => Holds(w, r)
NoNewDriver == \A w \in Worker, r \in Run : Drives(w, r)' => Drives(w, r) \/ ~Took(r)
ClaimsStay  == \A r \in Run : claim[r] # NoWorker => claim'[r] # NoWorker
NoNewLoss   == \A r \in Run : runs'[r].reason = "worker_lost" => runs[r].reason = "worker_lost"
NoNewAsk    == \A q \in Request : Asks(q)' =>
                 /\ Asks(q) /\ request'[q].run = request[q].run
                 /\ request'[q].at = "reap" => request[q].at = "reap"

LEMMA HoldersKept == ASSUME HolderInv, NoNewHolder, ClaimsStay PROVE HolderInv'
<1>1. \A r \in Run, w \in Worker : Holds(w, r)' => claim'[r] # NoWorker
  BY DEF HolderInv, NoNewHolder, ClaimsStay
<1>2. \A r \in Run, v, w \in Worker : Holds(v, r)' /\ Holds(w, r)' => v = w
  BY DEF HolderInv, NoNewHolder
<1>. QED
  BY <1>1, <1>2 DEF HolderInv

LEMMA AsksKept == ASSUME ReaperInv, NoNewDriver, NoNewAsk, Onward PROVE ReaperInv'
<1>1. ASSUME NEW q \in Request, Asks(q)'
      PROVE  /\ request'[q].run \in Run /\ runs'[request'[q].run].status \notin {"absent", "queued"}
             /\ request'[q].at = "reap" => \A w \in Worker : ~Drives(w, request[q].run)'
  <2>1. /\ Asks(q) /\ request'[q].run = request[q].run
        /\ request'[q].at = "reap" => request[q].at = "reap"
    BY <1>1 DEF NoNewAsk
  <2>2. request[q].run \in Run /\ Took(request[q].run)
    BY <2>1 DEF ReaperInv
  <2>3. runs'[request[q].run].status \notin {"absent", "queued"}
    BY <2>2 DEF Onward, Took
  <2>4. ASSUME request[q].at = "reap", NEW w \in Worker,
               worker'[w].run = request[q].run, worker'[w].at \in Driving
        PROVE  FALSE
    <3>1. PICK r \in Run : r = request[q].run
      BY <2>2
    <3>2. Drives(w, r)'
      BY <2>4, <3>1 DEF Drives
    <3>3. Drives(w, r)
      BY <2>2, <3>1, <3>2 DEF NoNewDriver
    <3>. QED
      BY <2>1, <2>4, <3>1, <3>3 DEF ReaperInv
  <2>. QED
    BY <2>1, <2>2, <2>3, <2>4 DEF Drives
<1>. QED
  BY <1>1 DEF ReaperInv, Took, Drives, Asks

LEMMA LossKept == ASSUME LostInv, NoNewDriver, NoNewLoss, Onward PROVE LostInv'
<1>1. ASSUME NEW r \in Run, runs'[r].reason = "worker_lost"
      PROVE  Took(r)' /\ \A w \in Worker : ~Drives(w, r)'
  <2>1. Took(r) /\ \A w \in Worker : ~Drives(w, r)
    BY <1>1 DEF NoNewLoss, LostInv
  <2>. QED
    BY <2>1 DEF NoNewDriver, Onward
<1>. QED
  BY <1>1 DEF LostInv

-----------------------------------------------------------------------------
\* Slots

LEMMA SameRunFewerPlaces ==
  ASSUME worker \in [Worker -> BusySlot], NEW w \in Worker,
         \A v \in Worker \ {w} : worker'[v] = worker[v],
         \/ worker'[w].at \in {"idle", "down", "popped"}
         \/ /\ worker'[w].run = worker[w].run
            /\ worker[w].at \notin {"idle", "down", "popped"}
            /\ worker'[w].at \in Driving => worker[w].at \in Driving \/ ~Took(worker[w].run)
  PROVE  NoNewHolder /\ NoNewDriver
<1>1. Driving \cap {"idle", "down", "popped"} = {}
  BY DEF Driving, BeforeStart
<1>. QED
  BY <1>1 DEF NoNewHolder, NoNewDriver, Holds, Drives

(* No step of a slot but the claim makes it a holder; none but the taking  *)
(* of a queued run makes it a driver; none but Release frees a claim.      *)
LEMMA WorkerFrame ==
  ASSUME TypeInv, NEW w \in Worker, WorkerStep(w) \/ Beside(w)
  PROVE  /\ NoNewDriver
         /\ NoNewHolder \/ ClaimRun(w)
         /\ ClaimsStay \/ Release(w)
         /\ UNCHANGED request
<1>. USE DEF TypeInv, TypeOK
<1> DEFINE r == worker[w].run
           Off == {"idle", "down", "popped"}
<1>a. Driving = {"starting", "connected", "inspected", "clear", "stopped", "opened", "attached",
                 "marked", "waiting"}
  BY DEF Driving, BeforeStart
<1>b. worker[w] \in Slot
  BY BusyIsTyped
<1>c. ASSUME NEW s, Become(w, s),
             \/ s.at \in Off
             \/ /\ s.run = r /\ worker[w].at \notin Off
                /\ s.at \in Driving => worker[w].at \in Driving \/ ~Took(r)
             \/ s.run = r /\ s.at = worker[w].at
      PROVE  NoNewHolder /\ NoNewDriver
  <2>1. worker'[w] = s /\ \A v \in Worker \ {w} : worker'[v] = worker[v]
    BY <1>c, SlotMoves
  <2>2. CASE s.run = r /\ s.at = worker[w].at
    BY <2>1, <2>2 DEF NoNewHolder, NoNewDriver, Holds, Drives
  <2>3. CASE ~(s.run = r /\ s.at = worker[w].at)
    BY <1>c, <2>1, <2>3, SameRunFewerPlaces
  <2>. QED
    BY <2>2, <2>3
<1>d. ASSUME NEW b, GoFail(w, b), worker[w].at \notin Off PROVE NoNewHolder /\ NoNewDriver
  <2>1. /\ worker'[w].at = "failing" /\ worker'[w].run = r
        /\ \A v \in Worker \ {w} : worker'[v] = worker[v]
    BY <1>d, SlotMoves
  <2>. QED
    BY <1>a, <1>d, <2>1, SameRunFewerPlaces
<1>e. ASSUME NEW a, Go(w, a), worker[w].at \notin Off,
             a \in Driving => worker[w].at \in Driving \/ ~Took(r)
      PROVE  NoNewHolder /\ NoNewDriver
  <2>1. /\ worker'[w].at = a /\ worker'[w].run = r
        /\ \A v \in Worker \ {w} : worker'[v] = worker[v]
    BY <1>e, SlotMoves
  <2>. QED
    BY <1>e, <2>1, SameRunFewerPlaces
<1>f. Idle.at \in Off /\ [Idle EXCEPT !.at = "down"].at \in Off
  BY DEF Idle
<1>g. UNCHANGED claim => ClaimsStay
  BY DEF ClaimsStay
<1>h. UNCHANGED worker => NoNewHolder /\ NoNewDriver
  BY DEF NoNewHolder, NoNewDriver, Holds, Drives
<1> DEFINE Goal == /\ NoNewDriver
                   /\ NoNewHolder \/ ClaimRun(w)
                   /\ ClaimsStay \/ Release(w)
                   /\ UNCHANGED request
<1>1. ASSUME Pop(w) PROVE Goal
  <2> DEFINE new == [worker[w] EXCEPT !.at = "popped", !.run = Head(queue)]
  <2>1. new.at \in Off
    BY <1>b DEF Slot
  <2>2. Become(w, new) /\ UNCHANGED <<claim, request>>
    BY <1>1 DEF Pop
  <2>. HIDE DEF new
  <2>. QED
    BY <1>c, <1>g, <2>1, <2>2
<1>2. ASSUME ClaimRun(w) PROVE Goal
  <2>1. ClaimsStay
    BY <1>2, SentinelsAssumption DEF ClaimRun, ClaimsStay
  <2>2. Go(w, "claimed") \/ Become(w, Idle)
    BY <1>2 DEF ClaimRun
  <2>3. NoNewDriver
    <3>1. CASE Go(w, "claimed")
      <4>1. /\ worker'[w].at = "claimed" /\ \A v \in Worker \ {w} : worker'[v] = worker[v]
        BY <3>1, SlotMoves
      <4>. QED
        BY <1>a, <4>1 DEF NoNewDriver, Drives
    <3>2. CASE Become(w, Idle)
      BY <1>c, <1>f, <3>2
    <3>. QED
      BY <2>2, <3>1, <3>2
  <2>. QED
    BY <1>2, <2>1, <2>3 DEF ClaimRun
<1>3. ASSUME TakeRun(w) PROVE Goal
  <2>1. worker[w].at \notin Off
    BY <1>3 DEF TakeRun, At
  <2>2. (Go(w, "starting") /\ ~Took(r)) \/ Go(w, "release")
    BY <1>3 DEF TakeRun, ClaimFrom, Took
  <2>3. NoNewHolder /\ NoNewDriver
    BY <1>a, <1>e, <2>1, <2>2
  <2>. QED
    BY <1>3, <1>g, <2>3 DEF TakeRun, redis
<1>4. ASSUME Connect(w) PROVE Goal
  <2>1. NoNewHolder /\ NoNewDriver
    BY <1>4, <1>a, <1>d, <1>e DEF Connect, At
  <2>. QED
    BY <1>4, <1>g, <2>1 DEF Connect, redis
<1>5. ASSUME Inspect(w) PROVE Goal
  <2>1. NoNewHolder /\ NoNewDriver
    BY <1>5, <1>a, <1>d, <1>e DEF Inspect, At
  <2>. QED
    BY <1>5, <1>g, <2>1 DEF Inspect, redis
<1>6. ASSUME CheckStop(w) PROVE Goal
  <2>1. NoNewHolder /\ NoNewDriver
    BY <1>6, <1>a, <1>e DEF CheckStop, At
  <2>. QED
    BY <1>6, <1>g, <2>1 DEF CheckStop, redis
<1>7. ASSUME AbandonStart(w) PROVE Goal
  <2> DEFINE new == [worker[w] EXCEPT !.at = "abandoned", !.verdict = "aborted"]
  <2>1. new.at = "abandoned" /\ new.run = r /\ worker[w].at \notin Off
    BY <1>7, <1>b DEF Slot, AbandonStart, At
  <2>2. Become(w, new) /\ UNCHANGED <<claim, request>>
    BY <1>7 DEF AbandonStart, redis
  <2>. HIDE DEF new
  <2>. QED
    BY <1>a, <1>c, <1>g, <2>1, <2>2
<1>8. ASSUME StartScript(w) PROVE Goal
  <2>1. NoNewHolder /\ NoNewDriver
    BY <1>8, <1>a, <1>e DEF StartScript, At
  <2>. QED
    BY <1>8, <1>g, <2>1 DEF StartScript, redis
<1>9. ASSUME Attach(w) PROVE Goal
  <2> DEFINE new == [worker[w] EXCEPT !.at = "attached", !.ears = "pending"]
  <2>1. new.at = "attached" /\ new.run = r /\ worker[w].at = "opened"
    BY <1>9, <1>b DEF Slot, Attach, At
  <2>2. Become(w, new) /\ UNCHANGED <<claim, request>>
    BY <1>9 DEF Attach, redis
  <2>. HIDE DEF new
  <2>. QED
    BY <1>a, <1>c, <1>g, <2>1, <2>2
<1>10. ASSUME MarkRunning(w) PROVE Goal
  <2>1. NoNewHolder /\ NoNewDriver
    BY <1>10, <1>a, <1>e DEF MarkRunning, At
  <2>. QED
    BY <1>10, <1>g, <2>1 DEF MarkRunning, redis
<1>11. ASSUME RecheckStop(w) PROVE Goal
  <2> DEFINE new == [worker[w] EXCEPT !.at = "waiting",
                       !.stop = IF runs[r].asked THEN RequestAbort(w) ELSE @]
  <2>1. new.at = "waiting" /\ new.run = r /\ worker[w].at = "marked"
    BY <1>11, <1>b DEF Slot, RecheckStop, At
  <2>2. Become(w, new) /\ UNCHANGED <<claim, request>>
    BY <1>11 DEF RecheckStop, redis
  <2>. HIDE DEF new
  <2>. QED
    BY <1>a, <1>c, <1>g, <2>1, <2>2
<1>12. ASSUME NEW code, At(w, "waiting"), FinishWith(w, code) PROVE Goal
  <2> DEFINE new == [worker[w] EXCEPT !.at = "ended", !.verdict = Verdict(w, code)]
  <2>1. new.at = "ended" /\ new.run = r /\ worker[w].at = "waiting"
    BY <1>12, <1>b DEF Slot, At
  <2>2. Become(w, new) /\ UNCHANGED <<claim, request>>
    BY <1>12 DEF FinishWith, redis
  <2>. HIDE DEF new
  <2>. QED
    BY <1>a, <1>c, <1>g, <2>1, <2>2
<1>13. ASSUME RecordOutcome(w) PROVE Goal
  <2>1. worker[w].at \notin Off /\ (Go(w, "recorded") \/ Go(w, "release"))
    BY <1>13 DEF RecordOutcome
  <2>2. NoNewHolder /\ NoNewDriver
    BY <1>a, <1>e, <2>1
  <2>. QED
    BY <1>13, <1>g, <2>2 DEF RecordOutcome, redis
<1>14. ASSUME Collect(w) PROVE Goal
  <2> DEFINE new == [worker[w] EXCEPT !.at = "release", !.ears = "off", !.inbox = FALSE]
  <2>1. new.at = "release" /\ new.run = r /\ worker[w].at = "recorded"
    BY <1>14, <1>b DEF Slot, Collect, At
  <2>2. Become(w, new) /\ UNCHANGED <<claim, request>>
    BY <1>14 DEF Collect, redis
  <2>. HIDE DEF new
  <2>. QED
    BY <1>a, <1>c, <1>g, <2>1, <2>2
<1>15. ASSUME Release(w) PROVE Goal
  <2>1. NoNewHolder /\ NoNewDriver
    BY <1>15, <1>c, <1>f DEF Release
  <2>. QED
    BY <1>15, <2>1 DEF Release
<1>16. ASSUME FailRun(w) PROVE Goal
  <2>1. NoNewHolder /\ NoNewDriver
    BY <1>16, <1>a, <1>e DEF FailRun, At
  <2>. QED
    BY <1>16, <1>g, <2>1 DEF FailRun, redis
<1>17. ASSUME RecordFailure(w) PROVE Goal
  <2>1. NoNewHolder /\ NoNewDriver
    BY <1>17, <1>a, <1>e DEF RecordFailure, At
  <2>. QED
    BY <1>17, <1>g, <2>1 DEF RecordFailure, redis
<1>18. ASSUME Subscribed(w) PROVE Goal
  <2>1. NoNewHolder /\ NoNewDriver
    BY <1>18, <1>b, <1>c DEF Subscribed, Slot
  <2>. QED
    BY <1>18, <1>g, <2>1 DEF Subscribed, redis
<1>19. ASSUME HearStop(w) PROVE Goal
  <2>1. NoNewHolder /\ NoNewDriver
    BY <1>19, <1>b, <1>c DEF HearStop, Slot
  <2>. QED
    BY <1>19, <1>g, <2>1 DEF HearStop, redis
<1>20. ASSUME SendSignal(w) \/ SignalSent(w) PROVE Goal
  <2>1. NoNewHolder /\ NoNewDriver
    BY <1>20, <1>b, <1>c DEF SendSignal, SignalSent, Slot
  <2>. QED
    BY <1>20, <1>g, <2>1 DEF SendSignal, SignalSent, redis
<1>21. ASSUME Throw(w) PROVE Goal
  <2>1. NoNewHolder /\ NoNewDriver
    BY <1>21, <1>a, <1>d, <1>e DEF Throw
  <2>. QED
    BY <1>21, <1>g, <2>1 DEF Throw, redis
<1>22. ASSUME LoseJob(w) PROVE Goal
  BY <1>22, <1>c, <1>f, <1>g DEF LoseJob, redis
<1>23. ASSUME CheckBlind(w) PROVE Goal
  <2>1. NoNewHolder /\ NoNewDriver
    BY <1>23, <1>a, <1>e DEF CheckBlind, At
  <2>. QED
    BY <1>23, <1>g, <2>1 DEF CheckBlind, redis
<1>24. ASSUME Crash(w) PROVE Goal
  BY <1>24, <1>c, <1>f, <1>g DEF Crash, redis
<1>25. ASSUME Restart(w) PROVE Goal
  <2>1. /\ worker'[w].at = "idle" /\ \A v \in Worker \ {w} : worker'[v] = worker[v]
    BY <1>25, SlotMoves DEF Restart
  <2>. QED
    BY <1>25, <1>g, <2>1, SameRunFewerPlaces DEF Restart, redis
<1>26. ASSUME NEW x \in Run, RenewClaim(w, x) PROVE Goal
  <2>1. ClaimsStay
    BY <1>26, SentinelsAssumption DEF RenewClaim, ClaimsStay
  <2>. QED
    BY <1>26, <1>h, <2>1 DEF RenewClaim
<1>. HIDE DEF TypeInv, TypeOK, Goal
<1>27. Goal
  BY <1>1, <1>2, <1>3, <1>4, <1>5, <1>6, <1>7, <1>8, <1>9, <1>10, <1>11, <1>12, <1>13, <1>14,
     <1>15, <1>16, <1>17, <1>18, <1>19, <1>20, <1>21, <1>22, <1>23, <1>24, <1>25, <1>26
     DEF WorkerStep, Beside, Finish, LoseConnection
<1>. QED
  BY <1>27 DEF Goal

-----------------------------------------------------------------------------
\* Reasons

LEMMA TransitionNoLoss ==
  ASSUME runs \in [Run -> Row], NEW r \in Run, NEW new \in Row, NEW from,
         new.reason # "worker_lost" \/ new.reason = runs[r].reason, Transition(r, new, from)
  PROVE  NoNewLoss
  BY TransitionEffect DEF NoNewLoss

LEMMA WriteNoLoss ==
  ASSUME runs \in [Run -> Row], NEW r \in Run, NEW new \in Row,
         new.reason = runs[r].reason, Write(r, new)
  PROVE  NoNewLoss
  BY WriteEffect DEF NoNewLoss

LEMMA FinishNoLoss ==
  ASSUME TypeInv, NEW w \in Worker, NEW code, worker[w].run \in Run, FinishWith(w, code)
  PROVE  NoNewLoss
<1>1. Verdict(w, code) \in Terminal
  BY DEF Verdict, Terminal
<1>2. /\ Exited(worker[w].run, Verdict(w, code)) \in Row
      /\ Exited(worker[w].run, Verdict(w, code)).reason # "worker_lost"
  BY <1>1, RowTypes, RowFields DEF TypeInv, TypeOK
<1>. QED
  BY <1>2, TransitionNoLoss DEF FinishWith, TypeInv, TypeOK

(* No slot, clock or script fails a run as worker_lost.                    *)
LEMMA OthersNoLoss ==
  ASSUME TypeInv
  PROVE  /\ \A w \in Worker : WorkerStep(w) \/ Beside(w) => NoNewLoss
         /\ Surroundings => NoNewLoss
<1>. USE DEF TypeInv, TypeOK
<1>a. UNCHANGED runs => NoNewLoss
  BY DEF NoNewLoss
<1>b. \A w \in Worker : worker[w].at \notin {"idle", "down"} => worker[w].run \in Run
  BY DEF BusySlot
<1>c. "aborted" \in Terminal /\ "failed" \in Terminal
  BY DEF Terminal
<1>d. ASSUME NEW r \in Run, NEW s \in Terminal
      PROVE  Ended(r, s, "other") \in Row /\ Ended(r, s, "other").reason # "worker_lost"
  BY RowTypes, RowFields
<1>1. ASSUME NEW w \in Worker, WorkerStep(w) \/ Beside(w) PROVE NoNewLoss
  <2> DEFINE r == worker[w].run
  <2>1. CASE UNCHANGED runs
    BY <1>a, <2>1
  <2>2. CASE TakeRun(w)
    <3>1. r \in Run
      BY <1>b, <2>2 DEF TakeRun, At
    <3>2. Starting(r) \in Row /\ Starting(r).reason = runs[r].reason
      BY <3>1, RowTypes, RowFields
    <3>. QED
      BY <2>2, <3>1, <3>2, TransitionNoLoss DEF TakeRun
  <2>3. CASE MarkRunning(w)
    <3>1. r \in Run
      BY <1>b, <2>3 DEF MarkRunning, At
    <3>2. Running(r) \in Row /\ Running(r).reason = runs[r].reason
      BY <3>1, RowTypes, RowFields
    <3>. QED
      BY <2>3, <3>1, <3>2, TransitionNoLoss DEF MarkRunning
  <2>4. CASE AbandonStart(w)
    <3>1. r \in Run
      BY <1>b, <2>4 DEF AbandonStart, At
    <3>. QED
      BY <1>c, <1>d, <2>4, <3>1, TransitionNoLoss DEF AbandonStart
  <2>5. CASE Finish(w) \/ LoseConnection(w)
    <3>1. r \in Run
      BY <1>b, <2>5 DEF Finish, LoseConnection, At
    <3>. QED
      BY <2>5, <3>1, FinishNoLoss DEF Finish, LoseConnection
  <2>6. CASE Collect(w)
    <3> DEFINE counted == [runs[r] EXCEPT !.collected = "counted"]
               ended == [runs[r] EXCEPT !.collected = IF @ = "counted" THEN @ ELSE "ended"]
    <3>1. r \in Run
      BY <1>b, <2>6 DEF Collect, At
    <3>2. Write(r, counted) \/ Write(r, ended)
      BY <2>6 DEF Collect, MarkCollected, MarkCollectionEnded
    <3>3. runs[r] \in Row
      BY <3>1
    <3>4. counted \in Row /\ counted.reason = runs[r].reason
      BY <3>3, RowEdits, SmallEdits
    <3>5. ended \in Row /\ ended.reason = runs[r].reason
      BY <3>3, EndedEdit
    <3>. HIDE DEF counted, ended
    <3>. QED
      BY <3>1, <3>2, <3>4, <3>5, WriteNoLoss
  <2>7. CASE FailRun(w)
    <3>1. r \in Run
      BY <1>b, <2>7 DEF FailRun, At
    <3>. QED
      BY <1>c, <1>d, <2>7, <3>1, TransitionNoLoss DEF FailRun
  <2>. QED
    BY <1>1, <2>1, <2>2, <2>3, <2>4, <2>5, <2>6, <2>7
       DEF WorkerStep, Beside, store, Pop, ClaimRun, Connect, Inspect, CheckStop, StartScript,
           Attach, RecheckStop, RecordOutcome, Release, RecordFailure, Subscribed, HearStop,
           SendSignal, SignalSent, Throw, LoseJob, CheckBlind, Crash, Restart, RenewClaim
<1>2. ASSUME Surroundings PROVE NoNewLoss
  <2>1. CASE UNCHANGED runs
    BY <1>a, <2>1
  <2>2. ASSUME NEW r \in Run, NEW s \in Stamp, GrowOld(r, s) PROVE NoNewLoss
    <3> DEFINE new == [runs[r] EXCEPT !.age[s] = "old"]
    <3>1. new \in Row /\ new.reason = runs[r].reason /\ Write(r, new)
      BY <2>2, RowEdits, SmallEdits DEF GrowOld
    <3>. HIDE DEF new
    <3>. QED
      BY <3>1, WriteNoLoss
  <2>. QED
    BY <1>2, <2>1, <2>2 DEF Surroundings, store, ScriptEnds, ExpireClaim, Requeue
<1>. QED
  BY <1>1, <1>2

-----------------------------------------------------------------------------
\* Steps

LEMMA RequestClaim ==
  ASSUME TypeInv, RecordInv, ClaimInv, NEW q \in Request, RequestStep(q)
  PROVE  ClaimInv'
<1>. USE DEF TypeInv, TypeOK
<1>a. Onward
  BY RequestRecord, LegalRowsGoOnward
<1>b. request[q].at # "idle" => request[q].run \in Run
  BY DEF BusyAsk
<1>c. NoNewHolder /\ NoNewDriver /\ ClaimsStay
  <2>1. UNCHANGED worker \/ PublishStop(q)
    BY DEF RequestStep, CreateRun, PushJob, ReadToAbort, CancelQueued, RecordStop, ReadToReap,
           CheckClaim, ReapLive, ReapCollection, RequestDies
  <2>2. \A w \in Worker : worker'[w].at = worker[w].at /\ worker'[w].run = worker[w].run
    <3>1. CASE PublishStop(q)
      BY <3>1, BusyIsTyped DEF PublishStop, Slot
    <3>. QED
      BY <2>1, <3>1
  <2>3. UNCHANGED claim
    BY DEF RequestStep, CreateRun, PushJob, ReadToAbort, CancelQueued, RecordStop, PublishStop,
           ReadToReap, CheckClaim, ReapLive, ReapCollection, RequestDies, redis
  <2>. QED
    BY <2>2, <2>3 DEF NoNewHolder, NoNewDriver, ClaimsStay, Holds, Drives
<1>d. HolderInv'
  BY <1>c, HoldersKept DEF ClaimInv
<1>e. ASSUME NEW r \in Run, NEW at, NEW seen, Turn(q, [at |-> at, run |-> r, seen |-> seen])
      PROVE  /\ request'[q] = [at |-> at, run |-> r, seen |-> seen]
             /\ \A p \in Request \ {q} : request'[p] = request[p]
  BY <1>e DEF Turn
<1>m. ASSUME request'[q].at \notin {"checkClaim", "reap"},
             \A p \in Request \ {q} : request'[p] = request[p]
      PROVE  NoNewAsk
  <2>1. ASSUME NEW p \in Request, Asks(p)'
        PROVE  request'[p] = request[p]
    BY <1>m, <2>1 DEF Asks
  <2>2. ASSUME NEW p \in Request, request'[p] = request[p], Asks(p)'
        PROVE  Asks(p)
    BY <2>2 DEF Asks
  <2>. QED
    BY <2>1, <2>2 DEF NoNewAsk
<1>f. ASSUME Reply(q) PROVE NoNewAsk
  <2>1. request'[q] = Quiet /\ \A p \in Request \ {q} : request'[p] = request[p]
    BY <1>f DEF Reply, Turn
  <2>2. request'[q].at = "idle"
    BY <2>1 DEF Quiet
  <2>. QED
    BY <1>m, <2>1, <2>2
<1>g. ASSUME NEW x, Proceed(q, x)
      PROVE  /\ request'[q].at = x /\ request'[q].run = request[q].run
             /\ request'[q].seen = request[q].seen
             /\ \A p \in Request \ {q} : request'[p] = request[p]
  <2>1. request[q] \in Ask
    BY BusyIsTyped
  <2>. QED
    BY <1>g, <2>1 DEF Proceed, Turn, Ask
<1>h. ASSUME NEW x, Proceed(q, x), x \notin {"checkClaim", "reap"} PROVE NoNewAsk
  BY <1>g, <1>h, <1>m
<1>i. UNCHANGED runs => NoNewLoss
  BY DEF NoNewLoss
<1>j. NoNewAsk => ReaperInv'
  BY <1>a, <1>c, AsksKept DEF ClaimInv
<1>k. NoNewLoss => LostInv'
  BY <1>a, <1>c, LossKept DEF ClaimInv
<1>l. "aborted" \in Terminal /\ "failed" \in Terminal
  BY DEF Terminal
<1>1. ASSUME NEW r \in Run, CreateRun(q, r) PROVE ReaperInv' /\ LostInv'
  <2>1. NoNewAsk
    <3>1. /\ request'[q] = [at |-> "push", run |-> r, seen |-> "none"]
          /\ \A p \in Request \ {q} : request'[p] = request[p]
      BY <1>1, <1>e DEF CreateRun
    <3>2. request'[q].at = "push"
      BY <3>1
    <3>. QED
      BY <1>m, <3>1, <3>2
  <2>2. Queued(r) \in Row /\ Queued(r).reason = runs[r].reason
    BY RowTypes, RowFields
  <2>3. NoNewLoss
    BY <1>1, <2>2, WriteNoLoss DEF CreateRun
  <2>. QED
    BY <1>j, <1>k, <2>1, <2>3
<1>2. ASSUME PushJob(q) PROVE ReaperInv' /\ LostInv'
  BY <1>2, <1>f, <1>i, <1>j, <1>k DEF PushJob, store
<1>3. ASSUME NEW r \in Run, ReadToAbort(q, r) PROVE ReaperInv' /\ LostInv'
  <2>1. NoNewAsk
    <3> DEFINE at == IF runs[r].status = "queued" THEN "cancel" ELSE "record"
    <3>1. Turn(q, [at |-> at, run |-> r, seen |-> "none"]) /\ at \in {"cancel", "record"}
      BY <1>3 DEF ReadToAbort
    <3>. HIDE DEF at
    <3>2. /\ request'[q] = [at |-> at, run |-> r, seen |-> "none"]
          /\ \A p \in Request \ {q} : request'[p] = request[p]
      BY <1>e, <3>1
    <3>3. request'[q].at = at
      BY <3>2
    <3>. QED
      BY <1>m, <3>1, <3>2, <3>3
  <2>. QED
    BY <1>3, <1>i, <1>j, <1>k, <2>1 DEF ReadToAbort, store
<1>4. ASSUME CancelQueued(q) PROVE ReaperInv' /\ LostInv'
  <2> DEFINE r == request[q].run
  <2>1. r \in Run /\ NoNewAsk
    BY <1>4, <1>b, <1>f, <1>h DEF CancelQueued, RequestIs
  <2>2. Ended(r, "aborted", "other") \in Row /\ Ended(r, "aborted", "other").reason = "other"
    BY <1>l, <2>1, RowTypes, RowFields
  <2>3. NoNewLoss
    BY <1>4, <2>1, <2>2, TransitionNoLoss DEF CancelQueued
  <2>. QED
    BY <1>j, <1>k, <2>1, <2>3
<1>5. ASSUME RecordStop(q) PROVE ReaperInv' /\ LostInv'
  <2> DEFINE r == request[q].run
             new == [runs[r] EXCEPT !.asked = TRUE]
  <2>1. r \in Run /\ NoNewAsk /\ Write(r, new)
    BY <1>5, <1>b, <1>h DEF RecordStop, RequestIs
  <2>2. new \in Row /\ new.reason = runs[r].reason
    BY <2>1, RowEdits, SmallEdits
  <2>. HIDE DEF new
  <2>3. NoNewLoss
    BY <2>1, <2>2, WriteNoLoss
  <2>. QED
    BY <1>j, <1>k, <2>1, <2>3
<1>6. ASSUME PublishStop(q) PROVE ReaperInv' /\ LostInv'
  BY <1>6, <1>f, <1>i, <1>j, <1>k DEF PublishStop
<1>7. ASSUME NEW r \in Run, ReadToReap(q, r) PROVE ReaperInv' /\ LostInv'
  <2>1. /\ request'[q] = [at |-> "checkClaim", run |-> r, seen |-> runs[r].status]
        /\ \A p \in Request \ {q} : request'[p] = request[p]
    BY <1>7, <1>e DEF ReadToReap
  <2>2. UNCHANGED <<runs, worker>>
    BY <1>7 DEF ReadToReap, store
  <2>3. runs[r].status \in Live => Took(r)
    BY <1>7 DEF ReadToReap, ReapFrom, Live, Terminal, Took
  <2>4. ReaperInv'
    <3>1. /\ request'[q].at = "checkClaim" /\ request'[q].run = r
          /\ request'[q].seen = runs[r].status
      BY <2>1
    <3>. QED
      BY <2>1, <2>2, <2>3, <3>1 DEF ClaimInv, ReaperInv, Asks, Took, Drives
  <2>. QED
    BY <1>i, <1>k, <2>2, <2>4
<1>8. ASSUME CheckClaim(q) PROVE ReaperInv' /\ LostInv'
  <2> DEFINE r == request[q].run
  <2>1. r \in Run /\ request[q].at = "checkClaim" /\ UNCHANGED <<runs, worker>>
    BY <1>8, <1>b DEF CheckClaim, RequestIs, store
  <2>2. CASE claim[r] = NoWorker /\ Proceed(q, "reap")
    <3>1. \A w \in Worker : ~Drives(w, r)
      BY <2>1, <2>2 DEF ClaimInv, HolderInv, Holds, Drives, Driving, BeforeStart
    <3>2. /\ request'[q].at = "reap" /\ request'[q].run = r /\ request'[q].seen = request[q].seen
          /\ \A p \in Request \ {q} : request'[p] = request[p]
      BY <1>g, <2>2
    <3>3. Asks(q)' => Took(r)
      BY <2>1, <3>2 DEF ClaimInv, ReaperInv, Asks
    <3>4. ReaperInv'
      BY <2>1, <3>1, <3>2, <3>3 DEF ClaimInv, ReaperInv, Asks, Took, Drives
    <3>. QED
      BY <1>i, <1>k, <2>1, <3>4
  <2>3. CASE Reply(q)
    BY <1>f, <1>i, <1>j, <1>k, <2>1, <2>3
  <2>. QED
    BY <1>8, <2>2, <2>3 DEF CheckClaim
<1>9. ASSUME ReapLive(q) PROVE ReaperInv' /\ LostInv'
  <2> DEFINE r == request[q].run
             lost == Ended(r, "failed", "worker_lost")
  <2>1. r \in Run /\ Asks(q) /\ request[q].at = "reap" /\ UNCHANGED worker
    BY <1>9, <1>b DEF ReapLive, RequestIs, Asks
  <2>2. Took(r) /\ \A w \in Worker : ~Drives(w, r)
    BY <2>1 DEF ClaimInv, ReaperInv
  <2>3. lost \in Row
    BY <1>l, <2>1, RowTypes
  <2>4. \A x \in Run \ {r} : runs'[x] = runs[x]
    BY <1>9, <2>1, <2>3, TransitionEffect DEF ReapLive
  <2>5. ASSUME NEW x \in Run, runs'[x].reason = "worker_lost"
        PROVE  Took(x)' /\ \A w \in Worker : ~Drives(w, x)'
    <3>1. Took(x) /\ \A w \in Worker : ~Drives(w, x)
      BY <2>2, <2>4, <2>5 DEF ClaimInv, LostInv
    <3>. QED
      BY <1>a, <2>1, <3>1 DEF Onward, Drives
  <2>6. LostInv'
    BY <2>5 DEF LostInv
  <2>. QED
    BY <1>9, <1>f, <1>j, <2>6 DEF ReapLive
<1>10. ASSUME ReapCollection(q) PROVE ReaperInv' /\ LostInv'
  <2> DEFINE r == request[q].run
             new == [runs[r] EXCEPT !.collected = IF @ = "counted" THEN @ ELSE "ended"]
  <2>1. r \in Run /\ Write(r, new) /\ Reply(q)
    BY <1>10, <1>b DEF ReapCollection, RequestIs, MarkCollectionEnded
  <2>2. new \in Row /\ new.reason = runs[r].reason
    BY <2>1, EndedEdit
  <2>. HIDE DEF new
  <2>3. NoNewLoss
    BY <2>1, <2>2, WriteNoLoss
  <2>. QED
    BY <1>f, <1>j, <1>k, <2>1, <2>3
<1>11. ASSUME RequestDies(q) PROVE ReaperInv' /\ LostInv'
  BY <1>11, <1>f, <1>i, <1>j, <1>k DEF RequestDies, store
<1>. HIDE DEF TypeInv, TypeOK
<1>12. ReaperInv' /\ LostInv'
  BY <1>1, <1>2, <1>3, <1>4, <1>5, <1>6, <1>7, <1>8, <1>9, <1>10, <1>11 DEF RequestStep
<1>. QED
  BY <1>d, <1>12 DEF ClaimInv

LEMMA WorkerClaim ==
  ASSUME TypeInv, RecordInv, ClaimInv, NEW w \in Worker, WorkerStep(w) \/ Beside(w)
  PROVE  ClaimInv'
<1> DEFINE r == worker[w].run
<1>a. Onward
  BY WorkerRecord, BesideRecord, LegalRowsGoOnward
<1>b. NoNewLoss /\ NoNewDriver /\ UNCHANGED request
  BY OthersNoLoss, WorkerFrame
<1>c. NoNewAsk
  BY <1>b DEF NoNewAsk, Asks
<1>d. ReaperInv' /\ LostInv'
  BY <1>a, <1>b, <1>c, AsksKept, LossKept DEF ClaimInv
<1>e. worker \in [Worker -> BusySlot] /\ claim \in [Run -> Worker \cup {NoWorker}]
  BY DEF TypeInv, TypeOK
<1>1. CASE ClaimRun(w)
  <2>1. r \in Run
    BY <1>1, <1>e DEF ClaimRun, At, BusySlot
  <2>2. CASE claim[r] = NoWorker
    <3>1. claim' = [claim EXCEPT ![r] = w] /\ Go(w, "claimed")
      BY <1>1, <2>2 DEF ClaimRun
    <3>2. claim'[r] # NoWorker /\ \A x \in Run \ {r} : claim'[x] = claim[x]
      BY <1>e, <2>1, <3>1, SentinelsAssumption
    <3>3. worker'[w].run = r /\ \A v \in Worker \ {w} : worker'[v] = worker[v]
      BY <1>e, <3>1, SlotMoves
    <3>4. \A v \in Worker : ~Holds(v, r)
      BY <2>1, <2>2 DEF ClaimInv, HolderInv
    <3>5. \A v \in Worker, x \in Run : Holds(v, x)' => Holds(v, x) \/ (v = w /\ x = r)
      BY <3>3 DEF Holds
    <3>6. \A x \in Run, v \in Worker : Holds(v, x)' => claim'[x] # NoWorker
      BY <3>2, <3>5 DEF ClaimInv, HolderInv
    <3>7. \A x \in Run, u, v \in Worker : Holds(u, x)' /\ Holds(v, x)' => u = v
      BY <3>4, <3>5 DEF ClaimInv, HolderInv
    <3>8. HolderInv'
      BY <3>6, <3>7 DEF HolderInv
    <3>. QED
      BY <1>d, <3>8 DEF ClaimInv
  <2>3. CASE claim[r] # NoWorker
    <3>1. UNCHANGED claim /\ Become(w, Idle)
      BY <1>1, <2>3 DEF ClaimRun
    <3>2. worker'[w].at = "idle" /\ \A v \in Worker \ {w} : worker'[v] = worker[v]
      BY <1>e, <3>1, SlotMoves DEF Idle
    <3>3. NoNewHolder /\ ClaimsStay
      BY <3>1, <3>2 DEF NoNewHolder, ClaimsStay, Holds
    <3>. QED
      BY <1>d, <3>3, HoldersKept DEF ClaimInv
  <2>. QED
    BY <2>2, <2>3
<1>2. CASE Release(w)
  <2>1. r \in Run /\ Holds(w, r)
    BY <1>2, <1>e DEF Release, At, BusySlot, Holds
  <2>2. \A x \in Run \ {r} : claim'[x] = claim[x]
    BY <1>2, <1>e DEF Release
  <2>3. worker'[w].at = "idle" /\ \A v \in Worker \ {w} : worker'[v] = worker[v]
    BY <1>2, <1>e, SlotMoves DEF Release, Idle
  <2>4. \A v \in Worker, x \in Run : Holds(v, x)' => Holds(v, x) /\ v # w
    BY <2>3 DEF Holds
  <2>5. \A v \in Worker, x \in Run : Holds(v, x)' => x # r
    BY <2>1, <2>4 DEF ClaimInv, HolderInv
  <2>6. \A x \in Run, v \in Worker : Holds(v, x)' => claim'[x] # NoWorker
    BY <2>2, <2>4, <2>5 DEF ClaimInv, HolderInv
  <2>7. \A x \in Run, u, v \in Worker : Holds(u, x)' /\ Holds(v, x)' => u = v
    BY <2>4 DEF ClaimInv, HolderInv
  <2>8. HolderInv'
    BY <2>6, <2>7 DEF HolderInv
  <2>. QED
    BY <1>d, <2>8 DEF ClaimInv
<1>3. CASE ~ClaimRun(w) /\ ~Release(w)
  <2>1. NoNewHolder /\ ClaimsStay
    BY <1>3, WorkerFrame
  <2>. QED
    BY <1>d, <2>1, HoldersKept DEF ClaimInv
<1>. QED
  BY <1>1, <1>2, <1>3

(* Where the premise is used: a claim lapses only if nobody holds the run. *)
LEMMA SurroundingClaim ==
  ASSUME PromptStart, TypeInv, RecordInv, ClaimInv, Surroundings
  PROVE  ClaimInv'
<1>a. Onward
  BY SurroundingRecord, LegalRowsGoOnward
<1>b. NoNewLoss
  BY OthersNoLoss
<1>c. UNCHANGED <<worker, request>>
  BY DEF Surroundings, ScriptEnds, ExpireClaim, GrowOld, Requeue
<1>d. NoNewHolder /\ NoNewDriver /\ NoNewAsk
  BY <1>c DEF NoNewHolder, NoNewDriver, NoNewAsk, Holds, Drives, Asks
<1>e. ReaperInv' /\ LostInv'
  BY <1>a, <1>b, <1>d, AsksKept, LossKept DEF ClaimInv
<1>1. ASSUME NEW r \in Run, ExpireClaim(r) PROVE HolderInv'
  <2>1. (\A w \in Worker : ~Holds(w, r)) /\ \A x \in Run \ {r} : claim'[x] = claim[x]
    BY <1>1 DEF ExpireClaim, TypeInv, TypeOK
  <2>2. \A x \in Run, w \in Worker : Holds(w, x)' => claim'[x] # NoWorker
    BY <1>d, <2>1 DEF NoNewHolder, ClaimInv, HolderInv
  <2>3. \A x \in Run, v, w \in Worker : Holds(v, x)' /\ Holds(w, x)' => v = w
    BY <1>d DEF NoNewHolder, ClaimInv, HolderInv
  <2>. QED
    BY <2>2, <2>3 DEF HolderInv
<1>2. ASSUME UNCHANGED claim PROVE HolderInv'
  <2>1. ClaimsStay
    BY <1>2 DEF ClaimsStay
  <2>. QED
    BY <1>d, <2>1, HoldersKept DEF ClaimInv
<1>3. HolderInv'
  BY <1>1, <1>2 DEF Surroundings, ScriptEnds, GrowOld, Requeue, redis
<1>. QED
  BY <1>e, <1>3 DEF ClaimInv

LEMMA ClaimInit == Init => ClaimInv
<1>1. ASSUME Init, NEW w \in Worker, NEW r \in Run PROVE ~Holds(w, r)
  BY <1>1 DEF Init, Idle, Holds
<1>2. ASSUME Init, NEW q \in Request PROVE ~Asks(q)
  BY <1>2 DEF Init, Quiet, Asks
<1>3. ASSUME Init, NEW r \in Run PROVE runs[r].reason # "worker_lost"
  BY <1>3 DEF Init, NoRow
<1>. QED
  BY <1>1, <1>2, <1>3 DEF ClaimInv, HolderInv, ReaperInv, LostInv

LEMMA ClaimStep ==
  ASSUME PromptStart
  PROVE  TypeInv /\ RecordInv /\ ClaimInv /\ [Next]_vars => ClaimInv'
<1>1. ASSUME ClaimInv, UNCHANGED vars PROVE ClaimInv'
  BY <1>1 DEF vars, store, redis, ClaimInv, HolderInv, ReaperInv, LostInv, Holds, Drives, Asks, Took
<1>. QED
  BY <1>1, RequestClaim, WorkerClaim, SurroundingClaim DEF Next

(* If no claim lapses under a slot that holds its run, a run failed as     *)
(* worker_lost is carried on by nobody: the claim does tell a lost worker  *)
(* from a slow one (runService.ts, reapIfOrphaned).                        *)
THEOREM ReaperIsRight == PromptStart => (Spec => []ReapedHasNoDriver)
<1>. SUFFICES ASSUME PromptStart PROVE Spec => []ReapedHasNoDriver
  OBVIOUS
<1>1. TypeInv /\ RecordInv /\ ClaimInv /\ [Next]_vars => ClaimInv'
  BY ClaimStep
<1>2. ClaimInv => ReapedHasNoDriver
  BY DEF ClaimInv, LostInv, ReapedHasNoDriver
<1>3. Spec => []RecordInv
  BY RecordInit, RecordStep, TypeInvariant, PTL DEF Spec
<1>. QED
  BY <1>1, <1>2, <1>3, ClaimInit, TypeInvariant, PTL DEF Spec

-----------------------------------------------------------------------------
\* A stop is heard: what an operator was told is on the row before it is
\* published, and a slot looks at the row once it is subscribed

AskedStays == \A r \in Run : runs[r].asked => runs'[r].asked

(* A stop that is about to be published or that was published is recorded. *)
AskedInv ==
  /\ \A q \in Request : request[q].at = "publish" => runs[request[q].run].asked
  /\ \A r \in Run : "stopping" \in events[r] => runs[r].asked

LEMMA RowsStayAsked ==
  ASSUME runs \in [Run -> Row], NEW r \in Run
  PROVE  /\ Queued(r).asked = runs[r].asked
         /\ Starting(r).asked = runs[r].asked
         /\ Running(r).asked = runs[r].asked
         /\ \A s : Exited(r, s).asked = runs[r].asked
         /\ \A s, y : Ended(r, s, y).asked = runs[r].asked
         /\ \A c : [runs[r] EXCEPT !.collected = c].asked = runs[r].asked
         /\ \A x : [runs[r] EXCEPT !.age[x] = "old"].asked = runs[r].asked
         /\ [runs[r] EXCEPT !.asked = TRUE].asked
<1>1. runs[r] \in Row
  OBVIOUS
<1>. QED
  BY <1>1 DEF Row, Queued, Starting, Running, Exited, Ended

LEMMA WriteStaysAsked ==
  ASSUME runs \in [Run -> Row], NEW r \in Run, NEW new,
         new.asked = runs[r].asked \/ new.asked = TRUE,
         Write(r, new)
  PROVE  AskedStays
<1>1. \A x \in Run : runs'[x] = IF x = r THEN new ELSE runs[x]
  BY DEF Write
<1>. QED
  BY <1>1 DEF AskedStays

LEMMA TransitionStaysAsked ==
  ASSUME runs \in [Run -> Row], NEW r \in Run, NEW new, NEW from,
         new.asked = runs[r].asked, Transition(r, new, from)
  PROVE  AskedStays
<1>1. CASE UNCHANGED runs
  BY <1>1 DEF AskedStays
<1>. QED
  BY <1>1, WriteStaysAsked DEF Transition

LEMMA RequestStaysAsked ==
  ASSUME TypeInv, NEW q \in Request, RequestStep(q)
  PROVE  AskedStays
<1>. USE DEF TypeInv, TypeOK
<1> DEFINE r == request[q].run
<1>a. request[q].at # "idle" => r \in Run
  BY DEF BusyAsk
<1>1. CASE UNCHANGED runs
  BY <1>1 DEF AskedStays
<1>2. ASSUME NEW x \in Run, CreateRun(q, x) PROVE AskedStays
  BY <1>2, RowsStayAsked, WriteStaysAsked DEF CreateRun
<1>3. CASE CancelQueued(q)
  BY <1>3, <1>a, RowsStayAsked, TransitionStaysAsked DEF CancelQueued, RequestIs
<1>4. CASE RecordStop(q)
  <2> DEFINE new == [runs[r] EXCEPT !.asked = TRUE]
  <2>1. r \in Run /\ Write(r, new)
    BY <1>4, <1>a DEF RecordStop, RequestIs
  <2>2. new.asked = TRUE
    BY <2>1, RowsStayAsked DEF Row
  <2>. HIDE DEF new
  <2>. QED
    BY <2>1, <2>2, WriteStaysAsked
<1>5. CASE ReapLive(q)
  BY <1>5, <1>a, RowsStayAsked, TransitionStaysAsked DEF ReapLive, RequestIs
<1>6. CASE ReapCollection(q)
  <2> DEFINE new == [runs[r] EXCEPT !.collected = IF @ = "counted" THEN @ ELSE "ended"]
  <2>1. r \in Run /\ Write(r, new)
    BY <1>6, <1>a DEF ReapCollection, RequestIs, MarkCollectionEnded
  <2>2. new.asked = runs[r].asked
    BY <2>1, RowsStayAsked
  <2>. HIDE DEF new
  <2>. QED
    BY <2>1, <2>2, WriteStaysAsked
<1>. QED
  BY <1>1, <1>2, <1>3, <1>4, <1>5, <1>6
  DEF RequestStep, PushJob, ReadToAbort, PublishStop, ReadToReap, CheckClaim, RequestDies, store

LEMMA SlotStaysAsked ==
  ASSUME TypeInv, NEW w \in Worker, WorkerStep(w) \/ Beside(w)
  PROVE  AskedStays
<1>. USE DEF TypeInv, TypeOK
<1> DEFINE r == worker[w].run
<1>a. worker[w].at \notin {"idle", "down"} => r \in Run
  BY DEF BusySlot
<1>1. CASE UNCHANGED runs
  BY <1>1 DEF AskedStays
<1>2. CASE TakeRun(w)
  BY <1>2, <1>a, RowsStayAsked, TransitionStaysAsked DEF TakeRun, At
<1>3. CASE AbandonStart(w)
  BY <1>3, <1>a, RowsStayAsked, TransitionStaysAsked DEF AbandonStart, At
<1>4. CASE MarkRunning(w)
  BY <1>4, <1>a, RowsStayAsked, TransitionStaysAsked DEF MarkRunning, At
<1>5. ASSUME NEW code, worker[w].at = "waiting", FinishWith(w, code) PROVE AskedStays
  BY <1>5, <1>a, RowsStayAsked, TransitionStaysAsked DEF FinishWith
<1>6. CASE FailRun(w)
  BY <1>6, <1>a, RowsStayAsked, TransitionStaysAsked DEF FailRun, At
<1>7. CASE Collect(w)
  <2> DEFINE new == [runs[r] EXCEPT !.collected = IF @ = "counted" THEN @ ELSE "ended"]
             all == [runs[r] EXCEPT !.collected = "counted"]
  <2>1. r \in Run /\ (Write(r, all) \/ Write(r, new))
    BY <1>7, <1>a DEF Collect, At, MarkCollected, MarkCollectionEnded
  <2>2. new.asked = runs[r].asked /\ all.asked = runs[r].asked
    BY <2>1, RowsStayAsked
  <2>. HIDE DEF new, all
  <2>. QED
    BY <2>1, <2>2, WriteStaysAsked
<1>. QED
  BY <1>1, <1>2, <1>3, <1>4, <1>5, <1>6, <1>7
  DEF WorkerStep, Beside, store, Pop, ClaimRun, Connect, Inspect, CheckStop, StartScript,
      Attach, RecheckStop, RecordOutcome, Release, RecordFailure, Subscribed, HearStop,
      SendSignal, SignalSent, Throw, LoseJob, CheckBlind, Crash, Restart, RenewClaim,
      Finish, LoseConnection, At

LEMMA RestStaysAsked ==
  ASSUME TypeInv, Surroundings
  PROVE  AskedStays
<1>1. CASE UNCHANGED runs
  BY <1>1 DEF AskedStays
<1>2. ASSUME NEW r \in Run, NEW s \in Stamp, GrowOld(r, s) PROVE AskedStays
  <2> DEFINE new == [runs[r] EXCEPT !.age[s] = "old"]
  <2>1. new.asked = runs[r].asked /\ Write(r, new)
    BY <1>2, RowsStayAsked DEF GrowOld, TypeInv, TypeOK
  <2>. HIDE DEF new
  <2>. QED
    BY <2>1, WriteStaysAsked DEF TypeInv, TypeOK
<1>. QED
  BY <1>1, <1>2 DEF Surroundings, store, ScriptEnds, ExpireClaim, Requeue

(* Only RecordStop lets a request publish, and only PublishStop says that  *)
(* the run is being stopped.                                               *)
LEMMA AskedStep == TypeInv /\ AskedInv /\ [Next]_vars => AskedInv'
<1>. SUFFICES ASSUME TypeInv, AskedInv, [Next]_vars PROVE AskedInv'
  OBVIOUS
<1>. USE DEF TypeInv, TypeOK
<1>1. AskedStays
  <2>1. CASE UNCHANGED vars
    BY <2>1 DEF vars, store, AskedStays
  <2>. QED
    BY <2>1, RequestStaysAsked, SlotStaysAsked, RestStaysAsked DEF Next
<1>2. ASSUME \A q \in Request : request'[q].at = "publish" => request'[q] = request[q],
             \A r \in Run : "stopping" \in events'[r] => "stopping" \in events[r]
      PROVE  AskedInv'
  <2>1. ASSUME NEW q \in Request, request'[q].at = "publish"
        PROVE  runs'[request'[q].run].asked
    <3>1. request'[q] = request[q] /\ request[q].at = "publish"
      BY <1>2, <2>1
    <3>2. request[q].run \in Run
      BY <3>1 DEF BusyAsk
    <3>. QED
      BY <1>1, <3>1, <3>2 DEF AskedInv, AskedStays
  <2>. QED
    BY <1>1, <1>2, <2>1 DEF AskedInv, AskedStays
<1>3. ASSUME NEW q \in Request, RequestStep(q) PROVE AskedInv'
  <2> DEFINE r == request[q].run
  <2>a. request[q].at # "idle" => r \in Run
    BY DEF BusyAsk
  <2>b. \A a : Turn(q, a) => request'[q] = a /\ \A p \in Request \ {q} : request'[p] = request[p]
    BY DEF Turn
  <2>c. ASSUME request'[q].at # "publish", \A p \in Request \ {q} : request'[p] = request[p],
               \A x \in Run : "stopping" \in events'[x] => "stopping" \in events[x]
        PROVE  AskedInv'
    BY <2>c, <1>2
  <2>d. Reply(q) => request'[q].at # "publish" /\ \A p \in Request \ {q} : request'[p] = request[p]
    BY <2>b DEF Reply, Quiet
  <2>e. \A x : Proceed(q, x) => /\ request'[q].at = x /\ request'[q].run = r
                                /\ \A p \in Request \ {q} : request'[p] = request[p]
    BY <2>b DEF Proceed, BusyAsk, Ask
  <2>1. CASE RecordStop(q)
    <3>1. r \in Run /\ Proceed(q, "publish") /\ UNCHANGED events
      BY <2>1, <2>a DEF RecordStop, RequestIs
    <3> DEFINE new == [runs[r] EXCEPT !.asked = TRUE]
    <3>2. Write(r, new) /\ new.asked
      BY <2>1, <3>1, RowsStayAsked DEF RecordStop
    <3>. HIDE DEF new
    <3>3. runs'[r].asked
      BY <3>1, <3>2 DEF Write
    <3>4. ASSUME NEW p \in Request, request'[p].at = "publish"
          PROVE  runs'[request'[p].run].asked
      <4>1. CASE p = q
        BY <2>e, <3>1, <3>3, <4>1
      <4>2. CASE p # q
        <5>1. request'[p] = request[p]
          BY <2>e, <3>1, <4>2
        <5>2. request[p].run \in Run
          BY <3>4, <5>1 DEF BusyAsk
        <5>. QED
          BY <1>1, <3>4, <5>1, <5>2 DEF AskedInv, AskedStays
      <4>. QED
        BY <4>1, <4>2
    <3>. QED
      BY <1>1, <3>1, <3>4 DEF AskedInv, AskedStays
  <2>2. CASE PublishStop(q)
    <3>1. r \in Run /\ Reply(q) /\ request[q].at = "publish"
      BY <2>2, <2>a DEF PublishStop, RequestIs
    <3>2. \A x \in Run \ {r} : events'[x] = events[x]
      BY <2>2, <3>1 DEF PublishStop
    <3>3. runs[r].asked
      BY <3>1 DEF AskedInv
    <3>4. ASSUME NEW p \in Request, request'[p].at = "publish"
          PROVE  runs'[request'[p].run].asked
      <4>1. request'[p] = request[p]
        BY <2>d, <3>1, <3>4
      <4>2. request[p].run \in Run
        BY <3>4, <4>1 DEF BusyAsk
      <4>. QED
        BY <1>1, <3>4, <4>1, <4>2 DEF AskedInv, AskedStays
    <3>5. \A x \in Run : "stopping" \in events'[x] => runs[x].asked
      BY <3>2, <3>3 DEF AskedInv
    <3>. QED
      BY <1>1, <3>4, <3>5 DEF AskedInv, AskedStays
  <2>3. ASSUME NEW x \in Run, CreateRun(q, x) PROVE AskedInv'
    BY <2>3, <2>b, <2>c DEF CreateRun
  <2>4. CASE PushJob(q)
    BY <2>4, <2>c, <2>d DEF PushJob, store
  <2>5. ASSUME NEW x \in Run, ReadToAbort(q, x) PROVE AskedInv'
    BY <2>5, <2>b, <2>c DEF ReadToAbort, store
  <2>6. CASE CancelQueued(q)
    <3>1. \A x \in Run : "stopping" \in events'[x] => "stopping" \in events[x]
      BY <2>6 DEF CancelQueued
    <3>. QED
      BY <2>6, <2>c, <2>d, <2>e, <3>1 DEF CancelQueued
  <2>7. ASSUME NEW x \in Run, ReadToReap(q, x) PROVE AskedInv'
    BY <2>7, <2>b, <2>c DEF ReadToReap, store
  <2>8. CASE CheckClaim(q)
    BY <2>8, <2>c, <2>d, <2>e DEF CheckClaim, store
  <2>9. CASE ReapLive(q)
    <3>1. \A x \in Run : "stopping" \in events'[x] => "stopping" \in events[x]
      BY <2>9 DEF ReapLive
    <3>. QED
      BY <2>9, <2>c, <2>d, <3>1 DEF ReapLive
  <2>10. CASE ReapCollection(q)
    BY <2>10, <2>c, <2>d DEF ReapCollection
  <2>11. CASE RequestDies(q)
    BY <2>11, <2>c, <2>d DEF RequestDies, store
  <2>. QED
    BY <1>3, <2>1, <2>2, <2>3, <2>4, <2>5, <2>6, <2>7, <2>8, <2>9, <2>10, <2>11 DEF RequestStep
<1>4. ASSUME NEW w \in Worker, WorkerStep(w) \/ Beside(w) PROVE AskedInv'
  <2>1. UNCHANGED request
    BY <1>4, WorkerFrame
  <2>2. CASE CheckStop(w)
    <3>1. \A x \in Run : "stopping" \in events'[x] => "stopping" \in events[x]
      BY <2>2 DEF CheckStop
    <3>. QED
      BY <1>2, <2>1, <3>1
  <2>3. CASE UNCHANGED events
    BY <1>2, <2>1, <2>3
  <2>. QED
    BY <1>4, <2>2, <2>3
    DEF WorkerStep, Beside, store, Pop, ClaimRun, TakeRun, Connect, Inspect, AbandonStart,
        StartScript, Attach, MarkRunning, RecheckStop, Finish, FinishWith, RecordOutcome, Collect,
        Release, FailRun, RecordFailure, Subscribed, HearStop, SendSignal, SignalSent,
        LoseConnection, Throw, LoseJob, CheckBlind, Crash, Restart, RenewClaim
<1>5. CASE Surroundings
  <2>1. UNCHANGED <<request, events>>
    BY <1>5 DEF Surroundings, store, ScriptEnds, ExpireClaim, GrowOld, Requeue
  <2>. QED
    BY <1>2, <2>1
<1>6. CASE UNCHANGED vars
  BY <1>2, <1>6 DEF vars, store
<1>. QED
  BY <1>3, <1>4, <1>5, <1>6 DEF Next

(* A slot with a script has started it, and one that waits for the script  *)
(* listens and has heard of every stop that was published.                 *)
Opened   == {"opened", "attached", "marked", "waiting"}
Heeds(w) == worker[w].inbox \/ worker[w].stop # "none"
SlotHears(w) ==
  /\ worker[w].at \in Opened => starts[worker[w].run] # 0
  /\ worker[w].at = "waiting" =>
       /\ worker[w].ears = "on"
       /\ script[worker[w].run] = "alive" /\ "stopping" \in events[worker[w].run] => Heeds(w)

HeardInv == \A w \in Worker : SlotHears(w)

(* Nothing else starts a script or publishes a stop.                       *)
NothingNew ==
  \A r \in Run :
    /\ starts[r] # 0 => starts'[r] # 0
    /\ script'[r] = "alive" => script[r] = "alive"
    /\ "stopping" \in events'[r] => "stopping" \in events[r]

LEMMA LeftAloneHears ==
  ASSUME TypeInv, NEW w \in Worker, SlotHears(w), NothingNew, worker'[w] = worker[w]
  PROVE  SlotHears(w)'
<1>1. worker[w].at \in Opened => worker[w].run \in Run
  BY DEF TypeInv, BusySlot, Opened
<1>2. worker[w].at = "waiting" => worker[w].at \in Opened
  BY DEF Opened
<1>. QED
  BY <1>1, <1>2 DEF SlotHears, NothingNew, Heeds

LEMMA ElsewhereHears ==
  ASSUME NEW w \in Worker, worker'[w].at \notin Opened
  PROVE  SlotHears(w)'
  BY DEF SlotHears, Opened

(* A slot beside its own steps forgets no stop.                            *)
LEMMA BesideHears ==
  ASSUME TypeInv, NEW w \in Worker, SlotHears(w), NothingNew,
         worker'[w].at = worker[w].at, worker'[w].run = worker[w].run,
         worker[w].ears = "on" => worker'[w].ears = "on",
         script[worker[w].run] = "alive" /\ Heeds(w) => Heeds(w)'
  PROVE  SlotHears(w)'
<1>1. worker[w].at \in Opened => worker[w].run \in Run
  BY DEF TypeInv, BusySlot, Opened
<1>2. worker[w].at = "waiting" => worker[w].at \in Opened
  BY DEF Opened
<1>3. ASSUME worker[w].at = "waiting", script'[worker[w].run] = "alive",
             "stopping" \in events'[worker[w].run]
      PROVE  Heeds(w)'
  <2>1. script[worker[w].run] = "alive" /\ "stopping" \in events[worker[w].run]
    BY <1>1, <1>2, <1>3 DEF NothingNew
  <2>. QED
    BY <1>3, <2>1 DEF SlotHears
<1>4. worker[w].at \in Opened => starts'[worker[w].run] # 0
  BY <1>1 DEF SlotHears, NothingNew
<1>. QED
  BY <1>3, <1>4 DEF SlotHears

LEMMA RequestHears ==
  ASSUME TypeInv, AskedInv, HeardInv, NEW q \in Request, RequestStep(q)
  PROVE  HeardInv'
<1> DEFINE r == request[q].run
<1>1. CASE PublishStop(q)
  <2>1. r \in Run
    BY <1>1 DEF PublishStop, RequestIs, TypeInv, BusyAsk
  <2>2. UNCHANGED <<starts, script>> /\ \A x \in Run \ {r} : events'[x] = events[x]
    BY <1>1, <2>1 DEF PublishStop, vm, TypeInv, TypeOK
  <2>3. ASSUME NEW w \in Worker PROVE SlotHears(w)'
    <3>1. worker[w] \in Slot
      BY BusyIsTyped DEF TypeInv
    <3>2. worker'[w] = IF worker[w].run = r /\ worker[w].ears = "on"
                       THEN [worker[w] EXCEPT !.inbox = TRUE] ELSE worker[w]
      BY <1>1 DEF PublishStop
    <3>3. CASE worker[w].run = r /\ worker[w].ears = "on"
      <4>1. /\ worker'[w].at = worker[w].at /\ worker'[w].run = worker[w].run
            /\ worker'[w].ears = worker[w].ears /\ worker'[w].inbox
        BY <3>1, <3>2, <3>3 DEF Slot
      <4>2. SlotHears(w)
        BY DEF HeardInv
      <4>. QED
        BY <2>2, <3>3, <4>1, <4>2 DEF SlotHears, Heeds
    <3>4. CASE ~(worker[w].run = r /\ worker[w].ears = "on")
      <4>1. worker'[w] = worker[w] /\ SlotHears(w)
        BY <3>2, <3>4 DEF HeardInv
      <4>2. CASE worker[w].at = "waiting"
        <5>1. worker[w].run \in Run \ {r}
          BY <3>4, <4>1, <4>2 DEF SlotHears, TypeInv, BusySlot
        <5>. QED
          BY <2>2, <4>1, <4>2, <5>1 DEF SlotHears, Heeds
      <4>3. CASE worker[w].at # "waiting"
        BY <2>2, <4>1, <4>3 DEF SlotHears
      <4>. QED
        BY <4>2, <4>3
    <3>. QED
      BY <3>3, <3>4
  <2>. QED
    BY <2>3 DEF HeardInv
<1>2. CASE ~PublishStop(q)
  <2>1. UNCHANGED <<worker, starts, script>>
    BY <1>2 DEF RequestStep, CreateRun, PushJob, ReadToAbort, CancelQueued, RecordStop,
                ReadToReap, CheckClaim, ReapLive, ReapCollection, RequestDies, vm
  <2>2. \A x \in Run : "stopping" \in events'[x] => "stopping" \in events[x]
    <3>1. CASE CancelQueued(q)
      BY <3>1 DEF CancelQueued, TypeInv, TypeOK
    <3>2. CASE ReapLive(q)
      BY <3>2 DEF ReapLive, TypeInv, TypeOK
    <3>3. CASE UNCHANGED events
      BY <3>3
    <3>. QED
      BY <1>2, <3>1, <3>2, <3>3
      DEF RequestStep, CreateRun, PushJob, ReadToAbort, RecordStop, ReadToReap, CheckClaim,
          ReapCollection, RequestDies, store
  <2>3. NothingNew
    BY <2>1, <2>2 DEF NothingNew
  <2>. QED
    BY <2>1, <2>3, LeftAloneHears DEF HeardInv
<1>. QED
  BY <1>1, <1>2

(* Where the premises are used: no statement throws, and a slot looks at   *)
(* the row for the second time when its subscription is in effect.         *)
LEMMA SlotStepHears ==
  ASSUME PromptSubscribe, MaxFaults = 0, TypeInv, StartInv, AskedInv, HeardInv,
         NEW w \in Worker, WorkerStep(w) \/ Beside(w)
  PROVE  HeardInv'
<1> DEFINE r == worker[w].run
<1>a. worker[w] \in Slot /\ SlotHears(w)
  BY BusyIsTyped DEF TypeInv, HeardInv
<1>b. worker[w].at \notin {"idle", "down"} => r \in Run
  BY DEF TypeInv, BusySlot
<1>c. \A s : Become(w, s) => worker'[w] = s /\ \A v \in Worker \ {w} : worker'[v] = worker[v]
  BY SlotMoves DEF TypeInv
<1>d. ASSUME NothingNew, SlotHears(w)', \A v \in Worker \ {w} : worker'[v] = worker[v]
      PROVE  HeardInv'
  BY <1>d, LeftAloneHears DEF HeardInv
<1>e. ASSUME NothingNew, NEW s, s.at \notin Opened, Become(w, s) PROVE HeardInv'
  BY <1>c, <1>d, <1>e, ElsewhereHears
<1>f. ASSUME NothingNew, NEW a, a \notin Opened, Go(w, a) PROVE HeardInv'
  BY <1>d, <1>f, SlotMoves, ElsewhereHears DEF TypeInv
<1>g. ASSUME NothingNew, NEW b, GoFail(w, b) PROVE HeardInv'
  BY <1>d, <1>g, SlotMoves, ElsewhereHears DEF TypeInv, Opened
<1>h. UNCHANGED <<starts, script, events>> => NothingNew
  BY DEF NothingNew
<1>i. ~Spend("faults", MaxFaults)
  BY DEF Spend, TypeInv, TypeOK
<1>j. ASSUME NothingNew, NEW s, Become(w, s), s.at = worker[w].at, s.run = r,
             worker[w].ears = "on" => s.ears = "on",
             script[r] = "alive" /\ Heeds(w) => s.inbox \/ s.stop # "none"
      PROVE  HeardInv'
  <2>1. worker'[w] = s
    BY <1>c, <1>j
  <2>2. SlotHears(w)'
    BY <1>a, <1>j, <2>1, BesideHears DEF Heeds
  <2>. QED
    BY <1>c, <1>d, <1>j, <2>2
<1>1. CASE StartScript(w)
  <2>1. r \in Run /\ Before(w, r)
    BY <1>1, <1>b DEF StartScript, At, Before, BeforeStart
  <2>2. starts[r] = 0
    BY <2>1 DEF StartInv, RunStart
  <2>3. /\ starts'[r] = 1 /\ UNCHANGED events
        /\ \A x \in Run \ {r} : starts'[x] = starts[x] /\ script'[x] = script[x]
    BY <1>1, <2>1, <2>2 DEF StartScript, TypeInv, TypeOK, store
  <2>4. worker'[w].at = "opened" /\ worker'[w].run = r
        /\ \A v \in Worker \ {w} : worker'[v] = worker[v]
    BY <1>1, SlotMoves DEF StartScript, TypeInv
  <2>5. SlotHears(w)'
    BY <2>3, <2>4 DEF SlotHears
  <2>6. ASSUME NEW v \in Worker \ {w} PROVE SlotHears(v)'
    <3>1. worker'[v] = worker[v] /\ SlotHears(v)
      BY <2>4 DEF HeardInv
    <3>2. worker[v].at = "waiting" => worker[v].at \in Opened
      BY DEF Opened
    <3>3. worker[v].at \in Opened => worker[v].run \in Run \ {r}
      BY <2>2, <3>1 DEF SlotHears, Opened, TypeInv, BusySlot
    <3>. QED
      BY <2>3, <3>1, <3>2, <3>3 DEF SlotHears, Heeds
  <2>. QED
    BY <2>5, <2>6 DEF HeardInv
<1>2. CASE Attach(w)
  <2> DEFINE s == [worker[w] EXCEPT !.at = "attached", !.ears = "pending"]
  <2>1. Become(w, s) /\ NothingNew /\ worker[w].at \in Opened
    BY <1>2, <1>h DEF Attach, store, vm, At, Opened
  <2>2. s.at = "attached" /\ s.run = r
    BY <1>a DEF Slot
  <2>. HIDE DEF s
  <2>3. starts'[r] # 0
    BY <1>a, <1>2, <1>b, <2>1 DEF SlotHears, NothingNew, Attach, At
  <2>4. SlotHears(w)'
    BY <1>c, <2>1, <2>2, <2>3 DEF SlotHears
  <2>. QED
    BY <1>c, <1>d, <2>1, <2>4
<1>3. CASE MarkRunning(w)
  <2>1. /\ worker'[w].at = "marked" /\ worker'[w].run = r
        /\ \A v \in Worker \ {w} : worker'[v] = worker[v]
    BY <1>3, SlotMoves DEF MarkRunning, TypeInv
  <2>2. NothingNew /\ worker[w].at \in Opened /\ r \in Run
    BY <1>3, <1>b, <1>h DEF MarkRunning, vm, At, Opened
  <2>3. SlotHears(w)'
    BY <1>a, <2>1, <2>2 DEF SlotHears, NothingNew
  <2>. QED
    BY <1>d, <2>1, <2>2, <2>3
<1>4. CASE RecheckStop(w)
  <2> DEFINE s == [worker[w] EXCEPT !.at = "waiting",
                                    !.stop = IF runs[r].asked THEN RequestAbort(w) ELSE @]
  <2>1. /\ Become(w, s) /\ worker[w].ears = "on" /\ worker[w].at \in Opened /\ r \in Run
        /\ UNCHANGED <<starts, script, events>>
    BY <1>4, <1>b DEF RecheckStop, store, vm, At, Opened
  <2>2. /\ s.at = "waiting" /\ s.run = r /\ s.ears = "on"
        /\ s.stop = IF runs[r].asked THEN RequestAbort(w) ELSE worker[w].stop
    BY <1>a, <2>1 DEF Slot
  <2>. HIDE DEF s
  <2>3. starts'[r] # 0
    BY <1>a, <2>1 DEF SlotHears
  <2>4. script'[r] = "alive" /\ "stopping" \in events'[r] => s.stop # "none"
    BY <2>1, <2>2 DEF AskedInv, RequestAbort
  <2>5. SlotHears(w)'
    BY <1>c, <2>1, <2>2, <2>3, <2>4 DEF SlotHears, Heeds
  <2>. QED
    BY <1>c, <1>d, <1>h, <2>1, <2>5
<1>5. CASE Subscribed(w)
  <2> DEFINE s == [worker[w] EXCEPT !.ears = "on"]
  <2>1. Become(w, s) /\ NothingNew
    BY <1>5, <1>h DEF Subscribed, store, vm
  <2>2. /\ s.at = worker[w].at /\ s.run = r /\ s.ears = "on"
        /\ s.inbox = worker[w].inbox /\ s.stop = worker[w].stop
    BY <1>a DEF Slot
  <2>. HIDE DEF s
  <2>. QED
    BY <1>j, <2>1, <2>2 DEF Heeds
<1>6. CASE HearStop(w)
  <2> DEFINE s == [worker[w] EXCEPT !.inbox = FALSE, !.stop = RequestAbort(w)]
  <2>1. Become(w, s) /\ NothingNew
    BY <1>6, <1>h DEF HearStop, store, vm
  <2>2. /\ s.at = worker[w].at /\ s.run = r /\ s.ears = worker[w].ears
        /\ s.stop = RequestAbort(w)
    BY <1>a DEF Slot
  <2>. HIDE DEF s
  <2>3. script[r] = "alive" => s.stop # "none"
    BY <2>2 DEF RequestAbort
  <2>. QED
    BY <1>j, <2>1, <2>2, <2>3
<1>7. CASE SendSignal(w) \/ SignalSent(w)
  <2>1. PICK x \in {"sent", "signalled"} : Become(w, [worker[w] EXCEPT !.stop = x])
    BY <1>7 DEF SendSignal, SignalSent
  <2> DEFINE s == [worker[w] EXCEPT !.stop = x]
  <2>2. /\ s.at = worker[w].at /\ s.run = r /\ s.ears = worker[w].ears /\ s.stop # "none"
    BY <1>a, <2>1 DEF Slot
  <2>3. NothingNew
    BY <1>7, <1>h DEF SendSignal, SignalSent, store, vm
  <2>4. Become(w, s)
    BY <2>1
  <2>. HIDE DEF s
  <2>. QED
    BY <1>j, <2>2, <2>3, <2>4
<1>8. ASSUME NEW code, FinishWith(w, code) PROVE HeardInv'
  <2>1. [worker[w] EXCEPT !.at = "ended", !.verdict = Verdict(w, code)].at \notin Opened
    BY <1>a DEF Slot, Opened
  <2>. QED
    BY <1>8, <1>e, <1>h, <2>1 DEF FinishWith, vm
<1>9. CASE CheckStop(w)
  <2>1. NothingNew
    BY <1>9 DEF CheckStop, NothingNew, vm, TypeInv, TypeOK
  <2>. QED
    BY <1>9, <1>f, <2>1 DEF CheckStop, Opened
<1>10. CASE Pop(w) \/ AbandonStart(w) \/ Collect(w) \/ Crash(w)
  <2>1. /\ [worker[w] EXCEPT !.at = "popped", !.run = Head(queue)].at \notin Opened
        /\ [worker[w] EXCEPT !.at = "abandoned", !.verdict = "aborted"].at \notin Opened
        /\ [worker[w] EXCEPT !.at = "release", !.ears = "off", !.inbox = FALSE].at \notin Opened
        /\ [Idle EXCEPT !.at = "down"].at \notin Opened
    BY <1>a DEF Slot, Opened, Idle
  <2>2. NothingNew
    BY <1>10, <1>h DEF Pop, AbandonStart, Collect, Crash, store, vm
  <2>. QED
    BY <1>10, <1>e, <2>1, <2>2 DEF Pop, AbandonStart, Collect, Crash
<1>11. CASE ClaimRun(w) \/ Release(w)
  <2>1. Idle.at \notin Opened /\ "claimed" \notin Opened
    BY DEF Idle, Opened
  <2>2. NothingNew
    BY <1>11, <1>h DEF ClaimRun, Release, store, vm
  <2>. QED
    BY <1>11, <1>e, <1>f, <2>1, <2>2 DEF ClaimRun, Release
<1>12. CASE TakeRun(w) \/ Connect(w) \/ Inspect(w) \/ RecordOutcome(w) \/ FailRun(w)
            \/ RecordFailure(w) \/ Restart(w)
  <2>1. NothingNew
    BY <1>12, <1>h DEF TakeRun, Connect, Inspect, RecordOutcome, FailRun, RecordFailure, Restart,
                       store, vm
  <2>. QED
    BY <1>12, <1>f, <1>g, <2>1
    DEF TakeRun, Connect, Inspect, RecordOutcome, FailRun, RecordFailure, Restart, Opened
<1>13. CASE Throw(w) \/ LoseJob(w) \/ CheckBlind(w)
  BY <1>13, <1>i DEF Throw, LoseJob, CheckBlind
<1>14. ASSUME NEW x \in Run, RenewClaim(w, x) PROVE HeardInv'
  BY <1>14, <1>h, LeftAloneHears DEF RenewClaim, store, vm, HeardInv
<1>. QED
  BY <1>1, <1>2, <1>3, <1>4, <1>5, <1>6, <1>7, <1>8, <1>9, <1>10, <1>11, <1>12, <1>13, <1>14
  DEF WorkerStep, Beside, Finish, LoseConnection

LEMMA RestHears ==
  ASSUME TypeInv, HeardInv, Surroundings
  PROVE  HeardInv'
<1>1. NothingNew
  BY DEF Surroundings, ScriptEnds, ExpireClaim, GrowOld, Requeue, NothingNew, store, vm,
         TypeInv, TypeOK
<1>2. UNCHANGED worker
  BY DEF Surroundings, ScriptEnds, ExpireClaim, GrowOld, Requeue
<1>. QED
  BY <1>1, <1>2, LeftAloneHears DEF HeardInv

(* If nothing throws and a SUBSCRIBE is in effect two statements later, a  *)
(* stop that an operator was told is under way is known to the slot that   *)
(* waits for the script: the second look at the row and the subscription   *)
(* leave no gap between them (execute.ts 143-153 and 238-242).             *)
THEOREM StopReachesTheSlot == PromptSubscribe /\ MaxFaults = 0 => (Spec => []StopIsHeard)
<1>. SUFFICES ASSUME PromptSubscribe, MaxFaults = 0 PROVE Spec => []StopIsHeard
  OBVIOUS
<1>1. Init => AskedInv /\ HeardInv
  BY DEF Init, AskedInv, HeardInv, SlotHears, Opened, Idle, Quiet
<1>2. TypeInv /\ StartInv /\ AskedInv /\ HeardInv /\ [Next]_vars => HeardInv'
  <2>1. ASSUME TypeInv, HeardInv, UNCHANGED vars PROVE HeardInv'
    <3>1. NothingNew /\ UNCHANGED worker
      BY <2>1 DEF vars, store, vm, NothingNew
    <3>. QED
      BY <2>1, <3>1, LeftAloneHears DEF HeardInv
  <2>. QED
    BY <2>1, RequestHears, SlotStepHears, RestHears DEF Next
<1>3. HeardInv => StopIsHeard
  BY DEF HeardInv, SlotHears, Heeds, StopIsHeard, At
<1>. QED
  BY <1>1, <1>2, <1>3, AskedStep, TypeInvariant, StartInvariant, PTL DEF Spec

-----------------------------------------------------------------------------
\* Row and audit log agree: a run that is over has a record, or a slot that is
\* about to write it, or one that did not live to

Carrying      == Driving \cup {"failing"}
Telling       == {"ended", "abandoned", "failed"}
Carries(w, r) == worker[w].run = r /\ worker[w].at \in Carrying
Tells(w, r)   == worker[w].run = r /\ worker[w].at \in Telling

(* A slot that carries a run finds it under way, one that has an outcome   *)
(* to record finds none recorded and the row as it left it.                *)
SlotAudit(w) ==
  /\ worker[w].at \in Carrying => runs[worker[w].run].status \in {"starting", "running"}
  /\ worker[w].at \in BeforeStart \cup {"stopped"} => runs[worker[w].run].status = "starting"
  /\ worker[w].at \in Telling =>
       /\ outcomes[worker[w].run] = <<>>
       /\ runs[worker[w].run].status =
            IF worker[w].at = "failed" THEN "failed" ELSE worker[w].verdict
  /\ worker[w].at \in {"failing", "failed"} => worker[w].level # "execute"

Settled(r) == outcomes[r] # <<>> \/ "withdrawn" \in events[r] \/ spent.crashes > 0
RowAudit(r) ==
  /\ outcomes[r] # <<>> => outcomes[r] = <<runs[r].status>> /\ runs[r].status \in Terminal
  /\ runs[r].status \in {"starting", "running"} =>
       spent.crashes > 0 \/ \E w \in Worker : Carries(w, r)
  /\ runs[r].status \in Terminal => Settled(r) \/ \E w \in Worker : Tells(w, r)

(* A request about to reap a run that was live finds nobody carrying it.   *)
Reaping(q) == request[q].at = "reap" /\ request[q].seen \in Live
ReapAlone  ==
  \A q \in Request : Reaping(q) => \A w \in Worker : ~Carries(w, request[q].run)

SlotsAudit == \A w \in Worker : SlotAudit(w)
RowsAudit  == \A r \in Run : RowAudit(r)
AuditInv   == SlotsAudit /\ RowsAudit /\ ReapAlone

SameStatus(r) == runs'[r].status = runs[r].status
SameRecord(r) == outcomes'[r] = outcomes[r] /\ ("withdrawn" \in events[r] => "withdrawn" \in events'[r])
MoreCrashes   == spent.crashes > 0 => spent'.crashes > 0

LEMMA Places ==
  /\ Carrying = {"starting", "connected", "inspected", "clear", "stopped", "opened", "attached",
                 "marked", "waiting", "failing"}
  /\ Driving = {"starting", "connected", "inspected", "clear", "stopped", "opened", "attached",
                 "marked", "waiting"}
  /\ BeforeStart = {"starting", "connected", "inspected", "clear"}
  /\ (Carrying \cup Telling) \cap {"idle", "down", "popped"} = {}
  /\ Carrying \cap Telling = {}
  BY DEF Carrying, Telling, Driving, BeforeStart

LEMMA AuditedSlot ==
  ASSUME TypeInv, NEW w \in Worker, worker[w].at \in Carrying \cup Telling
  PROVE  worker[w].run \in Run
  BY Places DEF TypeInv, BusySlot

-----------------------------------------------------------------------------
\* Steps that put nothing on record and bring no run nearer to its end

(* A slot stays, stays outside, or goes on carrying its run.               *)
Calm(w) ==
  \/ /\ worker'[w].at = worker[w].at /\ worker'[w].run = worker[w].run
     /\ worker'[w].verdict = worker[w].verdict /\ worker'[w].level = worker[w].level
  \/ worker[w].at \notin Carrying \cup Telling /\ worker'[w].at \notin Carrying \cup Telling
  \/ /\ worker[w].at \in Carrying /\ worker'[w].at \in Carrying
     /\ worker'[w].run = worker[w].run
     /\ worker'[w].at \in BeforeStart \cup {"stopped"} =>
          worker[w].at \in BeforeStart \cup {"stopped"}
     /\ worker'[w].at = "failing" => worker'[w].level # "execute"

LEMMA CalmKeeps ==
  ASSUME TypeInv, SlotsAudit, RowsAudit, MoreCrashes,
         \A r \in Run : SameStatus(r) /\ SameRecord(r),
         \A w \in Worker : Calm(w)
  PROVE  SlotsAudit' /\ RowsAudit'
<1>1. ASSUME NEW w \in Worker PROVE SlotAudit(w)'
  <2>1. SlotAudit(w) /\ Calm(w)
    BY DEF SlotsAudit
  <2>2. CASE worker[w].at \notin Carrying \cup Telling
    <3>1. worker'[w].at \notin Carrying \cup Telling
      BY <2>1, <2>2 DEF Calm
    <3>. QED
      BY <3>1, Places DEF SlotAudit, Telling
  <2>3. CASE worker[w].at \in Carrying \cup Telling
    <3>1. worker[w].run \in Run
      BY <2>3, AuditedSlot
    <3>2. SameStatus(worker[w].run) /\ SameRecord(worker[w].run)
      BY <3>1
    <3>3. CASE /\ worker'[w].at = worker[w].at /\ worker'[w].run = worker[w].run
               /\ worker'[w].verdict = worker[w].verdict /\ worker'[w].level = worker[w].level
      BY <2>1, <3>2, <3>3 DEF SlotAudit, SameStatus, SameRecord
    <3>4. CASE /\ worker[w].at \in Carrying /\ worker'[w].at \in Carrying
               /\ worker'[w].run = worker[w].run
               /\ worker'[w].at \in BeforeStart \cup {"stopped"} =>
                    worker[w].at \in BeforeStart \cup {"stopped"}
               /\ worker'[w].at = "failing" => worker'[w].level # "execute"
      <4>1. worker'[w].at \notin Telling /\ worker'[w].at # "failed"
        BY <3>4, Places DEF Telling
      <4>. QED
        BY <2>1, <3>2, <3>4, <4>1 DEF SlotAudit, SameStatus
    <3>. QED
      BY <2>1, <2>3, <3>3, <3>4 DEF Calm
  <2>. QED
    BY <2>2, <2>3
<1>2. ASSUME NEW r \in Run PROVE RowAudit(r)'
  <2>1. RowAudit(r) /\ SameStatus(r) /\ SameRecord(r)
    BY DEF RowsAudit
  <2>2. ASSUME NEW w \in Worker, Carries(w, r) PROVE Carries(w, r)'
    BY <2>2, Places DEF Carries, Calm
  <2>3. ASSUME NEW w \in Worker, Tells(w, r) PROVE Tells(w, r)'
    BY <2>3, Places DEF Tells, Calm
  <2>4. Settled(r) => Settled(r)'
    BY <2>1 DEF Settled, SameRecord, MoreCrashes
  <2>. QED
    BY <2>1, <2>2, <2>3, <2>4 DEF RowAudit, SameStatus, SameRecord, MoreCrashes
<1>. QED
  BY <1>1, <1>2 DEF SlotsAudit, RowsAudit

(* A step of a slot that holds a run, and concerns that run alone.         *)
LEMMA OwnRunOnly ==
  ASSUME TypeInv, HolderInv, SlotsAudit, RowsAudit, MoreCrashes,
         NEW w \in Worker, NEW r \in Run, Holds(w, r),
         \A v \in Worker \ {w} : worker'[v] = worker[v],
         \A x \in Run \ {r} : SameStatus(x) /\ SameRecord(x),
         SlotAudit(w)', RowAudit(r)'
  PROVE  SlotsAudit' /\ RowsAudit'
<1>1. ASSUME NEW v \in Worker \ {w} PROVE SlotAudit(v)'
  <2>1. worker'[v] = worker[v] /\ SlotAudit(v)
    BY DEF SlotsAudit
  <2>2. CASE worker[v].at \notin Carrying \cup Telling
    BY <2>1, <2>2, Places DEF SlotAudit, Telling
  <2>3. CASE worker[v].at \in Carrying \cup Telling
    <3>1. worker[v].run \in Run /\ Holds(v, worker[v].run)
      BY <2>3, AuditedSlot, Places DEF Holds
    <3>2. worker[v].run # r
      BY <3>1 DEF HolderInv
    <3>. QED
      BY <2>1, <3>1, <3>2 DEF SlotAudit, SameStatus, SameRecord
  <2>. QED
    BY <2>2, <2>3
<1>2. ASSUME NEW x \in Run \ {r} PROVE RowAudit(x)'
  <2>1. RowAudit(x) /\ SameStatus(x) /\ SameRecord(x)
    BY DEF RowsAudit
  <2>2. worker[w].run # x
    BY DEF Holds
  <2>3. ASSUME NEW v \in Worker, Carries(v, x) PROVE Carries(v, x)'
    BY <2>2, <2>3 DEF Carries
  <2>4. ASSUME NEW v \in Worker, Tells(v, x) PROVE Tells(v, x)'
    BY <2>2, <2>4 DEF Tells
  <2>5. Settled(x) => Settled(x)'
    BY <2>1 DEF Settled, SameRecord, MoreCrashes
  <2>. QED
    BY <2>1, <2>3, <2>4, <2>5 DEF RowAudit, SameStatus, SameRecord, MoreCrashes
<1>. QED
  BY <1>1, <1>2 DEF SlotsAudit, RowsAudit

LEMMA QuietSlot ==
  ASSUME TypeInv, MaxFaults = 0, SlotsAudit, RowsAudit, NEW w \in Worker,
         WorkerStep(w) \/ Beside(w),
         ~(TakeRun(w) /\ runs[worker[w].run].status = "queued"), ~AbandonStart(w), ~MarkRunning(w),
         ~Finish(w), ~LoseConnection(w), ~RecordOutcome(w), ~FailRun(w), ~RecordFailure(w), ~Crash(w)
  PROVE  SlotsAudit' /\ RowsAudit'
<1> DEFINE r == worker[w].run
           Kept == \A x \in Run : SameStatus(x) /\ SameRecord(x)
<1>a. worker[w] \in Slot /\ worker \in [Worker -> BusySlot] /\ runs \in [Run -> Row]
  BY BusyIsTyped DEF TypeInv, TypeOK
<1>b. worker[w].at \notin {"idle", "down"} => r \in Run
  BY DEF TypeInv, BusySlot
<1>c. ASSUME Kept, MoreCrashes, Calm(w), \A v \in Worker \ {w} : worker'[v] = worker[v]
      PROVE  SlotsAudit' /\ RowsAudit'
  <2>1. \A v \in Worker : Calm(v)
    BY <1>c DEF Calm
  <2>. QED
    BY <1>c, <2>1, CalmKeeps
<1>d. UNCHANGED <<runs, outcomes, events>> => Kept
  BY DEF SameStatus, SameRecord
<1>e. UNCHANGED spent => MoreCrashes
  BY DEF MoreCrashes
<1>f. ASSUME NEW s, Become(w, s), UNCHANGED <<runs, outcomes, events, spent>>,
             s.at = worker[w].at, s.run = r, s.verdict = worker[w].verdict,
             s.level = worker[w].level
      PROVE  SlotsAudit' /\ RowsAudit'
  <2>1. worker'[w] = s /\ \A v \in Worker \ {w} : worker'[v] = worker[v]
    BY <1>a, <1>f, SlotMoves
  <2>2. Calm(w)
    BY <1>f, <2>1 DEF Calm
  <2>. QED
    BY <1>c, <1>d, <1>e, <1>f, <2>1, <2>2
<1>g. ASSUME worker[w].at \notin Carrying \cup Telling, NEW s, Become(w, s),
             s.at \notin Carrying \cup Telling, Kept, UNCHANGED spent
      PROVE  SlotsAudit' /\ RowsAudit'
  <2>1. worker'[w] = s /\ \A v \in Worker \ {w} : worker'[v] = worker[v]
    BY <1>a, <1>g, SlotMoves
  <2>2. Calm(w)
    BY <1>g, <2>1 DEF Calm
  <2>. QED
    BY <1>c, <1>e, <1>g, <2>1, <2>2
<1>h. ASSUME worker[w].at \in Carrying, worker'[w].run = r, worker'[w].at \in Carrying,
             worker'[w].at \in BeforeStart \cup {"stopped"} =>
               worker[w].at \in BeforeStart \cup {"stopped"},
             worker'[w].at = "failing" => worker'[w].level # "execute",
             \A v \in Worker \ {w} : worker'[v] = worker[v], Kept, UNCHANGED spent
      PROVE  SlotsAudit' /\ RowsAudit'
  <2>2. Calm(w)
    BY <1>h DEF Calm
  <2>. QED
    BY <1>c, <1>e, <1>h, <2>2
<1>i. ~Spend("faults", MaxFaults)
  BY DEF Spend, TypeInv, TypeOK
<1>j. \A b : GoFail(w, b) => worker'[w].level = b
  <2>1. ASSUME NEW b, GoFail(w, b) PROVE worker'[w].level = b
    <3> DEFINE s == [worker[w] EXCEPT !.at = "failing", !.level = b, !.ears = "off",
                                      !.inbox = FALSE]
    <3>1. s.level = b /\ Become(w, s)
      BY <1>a, <2>1 DEF Slot, GoFail
    <3>. HIDE DEF s
    <3>. QED
      BY <1>a, <3>1, SlotMoves
  <2>. QED
    BY <2>1
<1>1. CASE Pop(w)
  <2> DEFINE s == [worker[w] EXCEPT !.at = "popped", !.run = Head(queue)]
  <2>1. s.at = "popped" /\ Become(w, s)
    BY <1>1, <1>a DEF Pop, Slot
  <2>. HIDE DEF s
  <2>. QED
    BY <1>1, <1>d, <1>g, <2>1, Places DEF Pop, At, store
<1>2. CASE ClaimRun(w)
  <2> DEFINE s == [worker[w] EXCEPT !.at = "claimed"]
  <2>1. s.at = "claimed" /\ Idle.at = "idle" /\ (Become(w, s) \/ Become(w, Idle))
    BY <1>2, <1>a DEF ClaimRun, Go, Slot, Idle
  <2>. HIDE DEF s
  <2>2. "claimed" \notin Carrying \cup Telling
    BY Places DEF Telling
  <2>. QED
    BY <1>2, <1>d, <1>g, <2>1, <2>2, Places DEF ClaimRun, At, store
<1>3. CASE TakeRun(w)
  <2> DEFINE s == [worker[w] EXCEPT !.at = "release"]
  <2>1. UNCHANGED <<runs, outcomes, events, spent>> /\ Become(w, s) /\ worker[w].at = "claimed"
    BY <1>3 DEF TakeRun, Transition, ClaimFrom, Go, At
  <2>2. s.at = "release"
    BY <1>a DEF Slot
  <2>. HIDE DEF s
  <2>3. {"release", "claimed"} \cap (Carrying \cup Telling) = {}
    BY Places DEF Telling
  <2>. QED
    BY <1>d, <1>g, <2>1, <2>2, <2>3
<1>4. CASE Connect(w) \/ Inspect(w)
  <2>1. worker[w].at \in BeforeStart /\ UNCHANGED <<runs, outcomes, events, spent>>
    BY <1>4, Places DEF Connect, Inspect, At, store
  <2>2. \/ \E a \in {"connected", "inspected"} : Go(w, a)
        \/ \E b \in {"runOnce", "drive"} : GoFail(w, b)
    BY <1>4 DEF Connect, Inspect
  <2>3. /\ worker'[w].run = r /\ worker'[w].at \in {"connected", "inspected", "failing"}
        /\ worker'[w].at = "failing" => worker'[w].level # "execute"
        /\ \A v \in Worker \ {w} : worker'[v] = worker[v]
    <3>1. ASSUME NEW a \in {"connected", "inspected"}, Go(w, a) PROVE <2>3
      BY <1>a, <3>1, SlotMoves
    <3>2. ASSUME NEW b \in {"runOnce", "drive"}, GoFail(w, b) PROVE <2>3
      BY <1>a, <1>j, <3>2, SlotMoves
    <3>. QED
      BY <2>2, <3>1, <3>2
  <2>. QED
    BY <1>d, <1>h, <2>1, <2>3, Places
<1>5. CASE CheckStop(w)
  <2>1. Kept /\ worker[w].at = "inspected" /\ UNCHANGED spent
    BY <1>5 DEF CheckStop, SameStatus, SameRecord, At, TypeInv, TypeOK
  <2>2. /\ worker'[w].run = r /\ worker'[w].at \in {"stopped", "clear"}
        /\ \A v \in Worker \ {w} : worker'[v] = worker[v]
    BY <1>5, <1>a, SlotMoves DEF CheckStop
  <2>. QED
    BY <1>h, <2>1, <2>2, Places
<1>6. CASE StartScript(w)
  BY <1>6, <1>a, <1>d, <1>h, SlotMoves, Places DEF StartScript, At, store
<1>7. CASE Attach(w) \/ RecheckStop(w)
  <2> DEFINE s == [worker[w] EXCEPT !.at = "attached", !.ears = "pending"]
             t == [worker[w] EXCEPT !.at = "waiting",
                                    !.stop = IF runs[r].asked THEN RequestAbort(w) ELSE @]
  <2>1. /\ worker[w].at \in {"opened", "marked"} /\ UNCHANGED <<runs, outcomes, events, spent>>
        /\ Become(w, s) \/ Become(w, t)
    BY <1>7 DEF Attach, RecheckStop, At, store
  <2>2. s.run = r /\ s.at = "attached" /\ t.run = r /\ t.at = "waiting"
    BY <1>a DEF Slot
  <2>. HIDE DEF s, t
  <2>3. /\ worker'[w].run = r /\ worker'[w].at \in {"attached", "waiting"}
        /\ \A v \in Worker \ {w} : worker'[v] = worker[v]
    BY <1>a, <2>1, <2>2, SlotMoves
  <2>. QED
    BY <1>d, <1>h, <2>1, <2>3, Places
<1>8. CASE Collect(w)
  <2> DEFINE s == [worker[w] EXCEPT !.at = "release", !.ears = "off", !.inbox = FALSE]
             new == [runs[r] EXCEPT !.collected = IF @ = "counted" THEN @ ELSE "ended"]
             all == [runs[r] EXCEPT !.collected = "counted"]
  <2>1. /\ worker[w].at = "recorded" /\ r \in Run /\ Become(w, s)
        /\ UNCHANGED <<outcomes, events, spent>> /\ (Write(r, all) \/ Write(r, new))
    BY <1>8, <1>b DEF Collect, At, MarkCollected, MarkCollectionEnded
  <2>2. s.at = "release" /\ new.status = runs[r].status /\ all.status = runs[r].status
        /\ new \in Row /\ all \in Row
    <3>1. runs[r] \in Row /\ s.at = "release"
      BY <1>a, <2>1 DEF Slot
    <3>2. new \in Row /\ new.status = runs[r].status
      BY <3>1, EndedEdit
    <3>3. all \in Row /\ all.status = runs[r].status
      BY <3>1, SmallEdits, RowEdits
    <3>. QED
      BY <3>1, <3>2, <3>3
  <2>. HIDE DEF s, new, all
  <2>3. Kept
    BY <1>a, <2>1, <2>2, WriteEffect DEF SameStatus, SameRecord
  <2>4. {"release", "recorded"} \cap (Carrying \cup Telling) = {}
    BY Places DEF Telling
  <2>. QED
    BY <1>g, <2>1, <2>2, <2>3, <2>4
<1>9. CASE Release(w) \/ Restart(w)
  <2> DEFINE s == [worker[w] EXCEPT !.at = "idle"]
  <2>1. /\ s.at = "idle" /\ Idle.at = "idle" /\ (Become(w, s) \/ Become(w, Idle))
        /\ worker[w].at \in {"release", "down"} /\ UNCHANGED <<runs, outcomes, events, spent>>
    BY <1>9, <1>a DEF Release, Restart, Go, Slot, Idle, At, store
  <2>. HIDE DEF s
  <2>2. {"idle", "release", "down"} \cap (Carrying \cup Telling) = {}
    BY Places DEF Telling
  <2>. QED
    BY <1>d, <1>g, <2>1, <2>2
<1>10. CASE Subscribed(w) \/ HearStop(w) \/ SendSignal(w) \/ SignalSent(w)
  <2> DEFINE a == [worker[w] EXCEPT !.ears = "on"]
             b == [worker[w] EXCEPT !.inbox = FALSE, !.stop = RequestAbort(w)]
             c == [worker[w] EXCEPT !.stop = "sent"]
             d == [worker[w] EXCEPT !.stop = "signalled"]
  <2>1. \E s \in {a, b, c, d} : Become(w, s)
    BY <1>10 DEF Subscribed, HearStop, SendSignal, SignalSent
  <2>2. UNCHANGED <<runs, outcomes, events, spent>>
    BY <1>10 DEF Subscribed, HearStop, SendSignal, SignalSent, store
  <2>3. \A s \in {a, b, c, d} : /\ s.at = worker[w].at /\ s.run = r
                                /\ s.verdict = worker[w].verdict /\ s.level = worker[w].level
    BY <1>a DEF Slot
  <2>. HIDE DEF a, b, c, d
  <2>. QED
    BY <1>f, <2>1, <2>2, <2>3
<1>11. ASSUME NEW x \in Run, RenewClaim(w, x) PROVE SlotsAudit' /\ RowsAudit'
  <2>1. Calm(w) /\ UNCHANGED <<runs, outcomes, events, spent, worker>>
    BY <1>11 DEF RenewClaim, store, Calm
  <2>. QED
    BY <1>c, <1>d, <1>e, <2>1
<1>12. CASE Throw(w) \/ LoseJob(w) \/ CheckBlind(w)
  BY <1>12, <1>i DEF Throw, LoseJob, CheckBlind
<1>. QED
  BY <1>1, <1>2, <1>3, <1>4, <1>5, <1>6, <1>7, <1>8, <1>9, <1>10, <1>11, <1>12
  DEF WorkerStep, Beside

-----------------------------------------------------------------------------
\* Steps that take a run, end it, or put its end on record

LEMMA WritingSlot ==
  ASSUME TypeInv, HolderInv, SlotsAudit, RowsAudit, NEW w \in Worker,
         \/ TakeRun(w) /\ runs[worker[w].run].status = "queued"
         \/ AbandonStart(w) \/ MarkRunning(w) \/ Finish(w) \/ LoseConnection(w)
         \/ RecordOutcome(w) \/ FailRun(w) \/ RecordFailure(w)
  PROVE  SlotsAudit' /\ RowsAudit'
<1>b. /\ worker[w].at \in {"claimed", "stopped", "attached", "waiting", "ended", "abandoned",
                          "failing", "failed"}
  BY DEF TakeRun, AbandonStart, MarkRunning, Finish, LoseConnection, RecordOutcome, FailRun,
         RecordFailure, At
<1>r. PICK r \in Run : r = worker[w].run
  BY <1>b DEF TypeInv, BusySlot
<1> DEFINE Others == \A v \in Worker \ {w} : worker'[v] = worker[v]
           SameRest == \A x \in Run \ {r} : SameStatus(x)
<1>a. /\ worker[w] \in Slot /\ worker \in [Worker -> BusySlot] /\ runs \in [Run -> Row]
      /\ outcomes \in [Run -> Seq(Terminal)]
  BY BusyIsTyped DEF TypeInv, TypeOK
<1>c. r \in Run /\ Holds(w, r)
  BY <1>b, <1>r DEF Holds
<1>d. SlotAudit(w) /\ RowAudit(r)
  BY <1>c DEF SlotsAudit, RowsAudit
<1>e. ASSUME Others, SameRest, UNCHANGED <<outcomes, events, spent>>, SlotAudit(w)', RowAudit(r)'
      PROVE  SlotsAudit' /\ RowsAudit'
  <2>1. MoreCrashes /\ \A x \in Run \ {r} : SameStatus(x) /\ SameRecord(x)
    BY <1>e DEF MoreCrashes, SameRecord
  <2>. QED
    BY <1>c, <1>e, <2>1, OwnRunOnly
<1>f. ASSUME Others, UNCHANGED <<runs, events, spent>>,
             \A x \in Run \ {r} : outcomes'[x] = outcomes[x], SlotAudit(w)', RowAudit(r)'
      PROVE  SlotsAudit' /\ RowsAudit'
  <2>1. MoreCrashes /\ \A x \in Run \ {r} : SameStatus(x) /\ SameRecord(x)
    BY <1>f DEF MoreCrashes, SameStatus, SameRecord
  <2>. QED
    BY <1>c, <1>f, <2>1, OwnRunOnly
<1>g. ASSUME NEW new \in Row, NEW from, Transition(r, new, from)
      PROVE  SameRest /\ (runs[r].status \in from => runs'[r].status = new.status)
             /\ (runs[r].status \notin from => SameStatus(r))
  BY <1>a, <1>c, <1>g, TransitionEffect DEF SameStatus
<1>h. runs[r].status \notin Terminal => outcomes[r] = <<>>
  BY <1>d DEF RowAudit
<1>i. {"starting", "running", "queued"} \cap Terminal = {}
  BY DEF Terminal
<1>1. ASSUME TakeRun(w), runs[r].status = "queued" PROVE SlotsAudit' /\ RowsAudit'
  <2>1. Transition(r, Starting(r), ClaimFrom) /\ Go(w, "starting")
        /\ UNCHANGED <<outcomes, events, spent>>
    BY <1>1, <1>r DEF TakeRun, ClaimFrom
  <2>2. Starting(r) \in Row /\ Starting(r).status = "starting"
    BY <1>a, <1>c, RowTypes, RowFields
  <2>3. SameRest /\ runs'[r].status = "starting"
    BY <1>1, <1>g, <2>1, <2>2 DEF ClaimFrom
  <2>4. Others /\ worker'[w].at = "starting" /\ worker'[w].run = r
    BY <1>a, <1>r, <2>1, SlotMoves
  <2>5. SlotAudit(w)'
    BY <2>3, <2>4, Places DEF SlotAudit, Telling
  <2>6. Carries(w, r)'
    BY <2>4, Places DEF Carries
  <2>7. outcomes'[r] = <<>>
    BY <1>1, <1>h, <1>i, <2>1
  <2>8. RowAudit(r)'
    BY <1>i, <2>3, <2>6, <2>7 DEF RowAudit
  <2>. QED
    BY <1>e, <2>1, <2>3, <2>4, <2>5, <2>8
<1>2. CASE MarkRunning(w)
  <2>1. worker[w].at = "attached" /\ Transition(r, Running(r), RunFrom) /\ Go(w, "marked")
        /\ UNCHANGED <<outcomes, events, spent>>
    BY <1>2, <1>r DEF MarkRunning, At
  <2>2. Running(r) \in Row /\ Running(r).status = "running"
    BY <1>a, <1>c, RowTypes, RowFields
  <2>3. runs[r].status \in {"starting", "running"}
    BY <1>d, <1>r, <2>1, Places DEF SlotAudit
  <2>4. SameRest /\ runs'[r].status = "running"
    BY <1>g, <2>1, <2>2, <2>3 DEF RunFrom, SameStatus
  <2>5. Others /\ worker'[w].at = "marked" /\ worker'[w].run = r
    BY <1>a, <1>r, <2>1, SlotMoves
  <2>6. SlotAudit(w)'
    BY <2>4, <2>5, Places DEF SlotAudit, Telling
  <2>7. Carries(w, r)'
    BY <2>5, Places DEF Carries
  <2>8. outcomes'[r] = <<>>
    BY <1>h, <1>i, <2>1, <2>3
  <2>9. RowAudit(r)'
    BY <1>i, <2>4, <2>7, <2>8 DEF RowAudit
  <2>. QED
    BY <1>e, <2>1, <2>4, <2>5, <2>6, <2>9
(* The end of a run: the row has it, and the slot is about to record it.   *)
<1>3. ASSUME NEW s, s \in Slot, Become(w, s), s.run = r,
             NEW end \in Terminal, \/ s.at \in {"ended", "abandoned"} /\ s.verdict = end
                                   \/ s.at = "failed" /\ end = "failed" /\ s.level # "execute",
             runs[r].status \in {"starting", "running"},
             SameRest, runs'[r].status = end, UNCHANGED <<outcomes, events, spent>>
      PROVE  SlotsAudit' /\ RowsAudit'
  <2>1. Others /\ worker'[w] = s
    BY <1>a, <1>3, SlotMoves
  <2>2. outcomes'[r] = <<>>
    BY <1>h, <1>i, <1>3
  <2>3. s.at \in Telling /\ s.at \notin Carrying /\ s.at \notin BeforeStart \cup {"stopped"}
    BY <1>3, Places DEF Telling
  <2>4. SlotAudit(w)'
    BY <1>3, <2>1, <2>2, <2>3 DEF SlotAudit
  <2>5. Tells(w, r)'
    BY <1>3, <2>1, <2>3 DEF Tells
  <2>6. RowAudit(r)'
    BY <1>i, <1>3, <2>2, <2>5 DEF RowAudit
  <2>. QED
    BY <1>e, <1>3, <2>1, <2>4, <2>6
<1>4. CASE AbandonStart(w)
  <2> DEFINE s == [worker[w] EXCEPT !.at = "abandoned", !.verdict = "aborted"]
  <2>1. worker[w].at = "stopped" /\ Transition(r, Ended(r, "aborted", "other"), AbandonFrom)
        /\ Become(w, s) /\ UNCHANGED <<outcomes, events, spent>>
    BY <1>4, <1>r DEF AbandonStart, At
  <2>2. runs[r].status = "starting" /\ "aborted" \in Terminal
    BY <1>d, <1>r, <2>1 DEF SlotAudit, Terminal
  <2>3. Ended(r, "aborted", "other") \in Row /\ Ended(r, "aborted", "other").status = "aborted"
    BY <1>a, <1>c, <2>2, RowTypes, RowFields
  <2>4. SameRest /\ runs'[r].status = "aborted"
    BY <1>g, <2>1, <2>2, <2>3 DEF AbandonFrom
  <2>5. s \in Slot /\ s.at = "abandoned" /\ s.run = r /\ s.verdict = "aborted"
    BY <1>a, <1>r, <2>2 DEF Slot, WorkerAt
  <2>. HIDE DEF s
  <2>. QED
    BY <1>3, <2>1, <2>2, <2>4, <2>5
<1>5. ASSUME NEW code, worker[w].at = "waiting", FinishWith(w, code)
      PROVE  SlotsAudit' /\ RowsAudit'
  <2> DEFINE end == Verdict(w, code)
             s == [worker[w] EXCEPT !.at = "ended", !.verdict = end]
  <2>1. Transition(r, Exited(r, end), FinishFrom) /\ Become(w, s)
        /\ UNCHANGED <<outcomes, events, spent>>
    BY <1>5, <1>r DEF FinishWith
  <2>2. end \in Terminal
    BY DEF Verdict, Terminal
  <2>3. runs[r].status \in {"starting", "running"}
    BY <1>d, <1>r, <1>5, Places DEF SlotAudit
  <2>. HIDE DEF end
  <2>4. Exited(r, end) \in Row /\ Exited(r, end).status = end
    BY <1>a, <1>c, <2>2, RowTypes, RowFields
  <2>5. SameRest /\ runs'[r].status = end
    BY <1>g, <2>1, <2>3, <2>4 DEF FinishFrom
  <2>6. s \in Slot /\ s.at = "ended" /\ s.run = r /\ s.verdict = end
    BY <1>a, <1>r, <2>2 DEF Slot, WorkerAt, Collecting
  <2>. HIDE DEF s
  <2>. QED
    BY <1>3, <2>1, <2>2, <2>3, <2>5, <2>6
<1>6. CASE FailRun(w)
  <2> DEFINE s == [worker[w] EXCEPT !.at = "failed"]
  <2>1. worker[w].at = "failing" /\ Transition(r, Ended(r, "failed", "other"), FailFrom)
        /\ Become(w, s) /\ UNCHANGED <<outcomes, events, spent>>
    BY <1>6, <1>r DEF FailRun, At, Go
  <2>2. runs[r].status \in {"starting", "running"} /\ worker[w].level # "execute"
    BY <1>d, <1>r, <2>1, Places DEF SlotAudit
  <2>3. /\ "failed" \in Terminal /\ Ended(r, "failed", "other") \in Row
        /\ Ended(r, "failed", "other").status = "failed"
    BY <1>a, <1>c, RowTypes, RowFields DEF Terminal
  <2>4. SameRest /\ runs'[r].status = "failed"
    BY <1>g, <2>1, <2>2, <2>3 DEF FailFrom
  <2>5. s \in Slot /\ s.at = "failed" /\ s.run = r /\ s.level = worker[w].level
    BY <1>a, <1>r DEF Slot, WorkerAt
  <2>. HIDE DEF s
  <2>. QED
    BY <1>3, <2>1, <2>2, <2>3, <2>4, <2>5
(* The record: it is the first, and says what the row says.                *)
<1>7. ASSUME NEW a \in {"recorded", "release"}, Go(w, a), UNCHANGED <<runs, events, spent>>,
             NEW end \in Terminal, runs[r].status = end, outcomes[r] = <<>>,
             outcomes' = [outcomes EXCEPT ![r] = Append(@, end)]
      PROVE  SlotsAudit' /\ RowsAudit'
  <2>1. Others /\ worker'[w].at = a
    BY <1>a, <1>r, <1>7, SlotMoves
  <2>2. outcomes'[r] = <<end>> /\ \A x \in Run \ {r} : outcomes'[x] = outcomes[x]
    BY <1>a, <1>c, <1>7
  <2>3. SlotAudit(w)'
    BY <2>1, Places DEF SlotAudit, Telling
  <2>4. outcomes'[r] # <<>>
    BY <2>2
  <2>5. RowAudit(r)'
    BY <1>i, <1>7, <2>2, <2>4 DEF RowAudit, Settled
  <2>. QED
    BY <1>f, <1>7, <2>1, <2>2, <2>3, <2>5
<1>8. CASE RecordOutcome(w)
  <2>1. /\ worker[w].at \in {"ended", "abandoned"}
        /\ \E a \in {"recorded", "release"} : Go(w, a)
        /\ outcomes' = [outcomes EXCEPT ![r] = Append(@, worker[w].verdict)]
        /\ UNCHANGED <<runs, events, spent>>
    BY <1>8, <1>r DEF RecordOutcome
  <2>2. worker[w].verdict \in Terminal
    BY <2>1 DEF TypeInv, BusySlot
  <2>3. outcomes[r] = <<>> /\ runs[r].status = worker[w].verdict
    BY <1>d, <1>r, <2>1 DEF SlotAudit, Telling
  <2>. QED
    BY <1>7, <2>1, <2>2, <2>3
<1>9. CASE RecordFailure(w)
  <2>1. worker[w].at = "failed"
    BY <1>9 DEF RecordFailure, At
  <2>2. /\ worker[w].level # "execute" /\ outcomes[r] = <<>> /\ runs[r].status = "failed"
        /\ "failed" \in Terminal
    BY <1>d, <1>r, <2>1 DEF SlotAudit, Telling, Terminal
  <2>3. /\ Go(w, "release") /\ UNCHANGED <<runs, events, spent>>
        /\ outcomes' = [outcomes EXCEPT ![r] = Append(@, "failed")]
    BY <1>9, <1>r, <2>2 DEF RecordFailure
  <2>. QED
    BY <1>7, <2>2, <2>3
<1>. QED
  BY <1>r, <1>1, <1>2, <1>4, <1>5, <1>6, <1>8, <1>9 DEF Finish, LoseConnection, At

LEMMA CrashAudit ==
  ASSUME TypeInv, SlotsAudit, RowsAudit, NEW w \in Worker, Crash(w)
  PROVE  SlotsAudit' /\ RowsAudit'
<1>1. UNCHANGED <<runs, outcomes>> /\ spent'.crashes > 0
  BY DEF Crash, Spend, store, TypeInv, TypeOK
<1>2. worker'[w].at = "down" /\ \A v \in Worker \ {w} : worker'[v] = worker[v]
  BY SlotMoves DEF Crash, TypeInv, Idle
<1>3. SlotAudit(w)'
  BY <1>2, Places DEF SlotAudit, Telling
<1>4. \A v \in Worker \ {w} : SlotAudit(v)'
  BY <1>1, <1>2 DEF SlotsAudit, SlotAudit
<1>5. \A r \in Run : RowAudit(r)'
  BY <1>1 DEF RowsAudit, RowAudit, Settled
<1>. QED
  BY <1>3, <1>4, <1>5 DEF SlotsAudit, RowsAudit

-----------------------------------------------------------------------------
\* Requests and the surroundings

(* A request ends or creates a run that no slot carries or tells of.       *)
LEMMA NobodysRun ==
  ASSUME TypeInv, SlotsAudit, RowsAudit, NEW r \in Run, UNCHANGED <<worker, outcomes, spent>>,
         \A x \in Run \ {r} : SameStatus(x),
         \A x \in Run : "withdrawn" \in events[x] => "withdrawn" \in events'[x],
         \A w \in Worker : ~Carries(w, r) /\ ~Tells(w, r), RowAudit(r)'
  PROVE  SlotsAudit' /\ RowsAudit'
<1>1. ASSUME NEW w \in Worker PROVE SlotAudit(w)'
  <2>1. SlotAudit(w)
    BY DEF SlotsAudit
  <2>2. CASE worker[w].at \notin Carrying \cup Telling
    BY <2>2, Places DEF SlotAudit, Telling
  <2>3. CASE worker[w].at \in Carrying \cup Telling
    <3>1. worker[w].run \in Run \ {r}
      BY <2>3, AuditedSlot DEF Carries, Tells
    <3>. QED
      BY <2>1, <3>1 DEF SlotAudit, SameStatus
  <2>. QED
    BY <2>2, <2>3
<1>2. ASSUME NEW x \in Run \ {r} PROVE RowAudit(x)'
  <2>1. RowAudit(x) /\ SameStatus(x)
    BY DEF RowsAudit
  <2>2. \A w \in Worker : Carries(w, x)' = Carries(w, x) /\ Tells(w, x)' = Tells(w, x)
    BY DEF Carries, Tells
  <2>3. Settled(x) => Settled(x)'
    BY DEF Settled
  <2>. QED
    BY <2>1, <2>2, <2>3 DEF RowAudit, SameStatus
<1>. QED
  BY <1>1, <1>2 DEF SlotsAudit, RowsAudit

LEMMA TellsOfAnEnd ==
  ASSUME TypeInv, SlotsAudit, NEW w \in Worker, NEW r \in Run, Tells(w, r)
  PROVE  runs[r].status \in Terminal
<1>1. SlotAudit(w) /\ "failed" \in Terminal
  BY DEF SlotsAudit, Terminal
<1>2. worker[w].at \in {"ended", "abandoned"} => worker[w].verdict \in Terminal
  BY DEF TypeInv, BusySlot
<1>. QED
  BY <1>1, <1>2 DEF SlotAudit, Tells, Telling

LEMMA RequestAudit ==
  ASSUME TypeInv, AuditInv, NEW q \in Request, RequestStep(q)
  PROVE  SlotsAudit' /\ RowsAudit'
<1>. USE DEF AuditInv
<1>a. runs \in [Run -> Row] /\ worker \in [Worker -> BusySlot]
  BY DEF TypeInv, TypeOK
<1>b. request[q].at # "idle" => request[q].run \in Run
  BY DEF TypeInv, BusyAsk
<1>c. ASSUME \A x \in Run : SameStatus(x) /\ SameRecord(x), MoreCrashes, UNCHANGED worker
      PROVE  SlotsAudit' /\ RowsAudit'
  BY <1>c, CalmKeeps DEF Calm
<1>d. {"absent", "queued", "starting", "running"} \cap Terminal = {}
  BY DEF Terminal
<1>e. ASSUME NEW r \in Run, runs[r].status \in {"absent", "queued"}
      PROVE  outcomes[r] = <<>> /\ \A w \in Worker : ~Carries(w, r) /\ ~Tells(w, r)
  <2>1. outcomes[r] = <<>>
    BY <1>d, <1>e DEF RowsAudit, RowAudit
  <2>2. ASSUME NEW w \in Worker PROVE ~Carries(w, r) /\ ~Tells(w, r)
    BY <1>d, <1>e, TellsOfAnEnd DEF SlotsAudit, SlotAudit, Carries
  <2>. QED
    BY <2>1, <2>2
<1>f. ASSUME NEW r \in Run, NEW new \in Row, new.status = runs[r].status, Write(r, new),
             UNCHANGED <<outcomes, events, spent, worker>>
      PROVE  SlotsAudit' /\ RowsAudit'
  <2>1. \A x \in Run : SameStatus(x) /\ SameRecord(x)
    BY <1>a, <1>f, WriteEffect DEF SameStatus, SameRecord
  <2>. QED
    BY <1>c, <1>f, <2>1 DEF MoreCrashes
<1>1. ASSUME NEW r \in Run, CreateRun(q, r) PROVE SlotsAudit' /\ RowsAudit'
  <2>1. /\ runs[r].status = "absent" /\ Write(r, Queued(r))
        /\ UNCHANGED <<outcomes, events, spent, worker>>
    BY <1>1 DEF CreateRun
  <2>2. Queued(r) \in Row /\ Queued(r).status = "queued"
    BY <1>a, RowTypes, RowFields
  <2>3. runs'[r].status = "queued" /\ \A x \in Run \ {r} : SameStatus(x)
    BY <1>a, <2>1, <2>2, WriteEffect DEF SameStatus
  <2>4. outcomes[r] = <<>> /\ \A w \in Worker : ~Carries(w, r) /\ ~Tells(w, r)
    BY <1>e, <2>1
  <2>5. RowAudit(r)'
    BY <1>d, <2>1, <2>3, <2>4 DEF RowAudit
  <2>. QED
    BY <2>1, <2>3, <2>4, <2>5, NobodysRun
<1>2. CASE CancelQueued(q)
  <2>1. PICK r \in Run : r = request[q].run
    BY <1>2, <1>b DEF CancelQueued, RequestIs
  <2>2. /\ Transition(r, Ended(r, "aborted", "other"), CancelFrom)
        /\ UNCHANGED <<outcomes, spent, worker>>
        /\ events' = IF runs[r].status = "queued" THEN [events EXCEPT ![r] = @ \cup {"withdrawn"}]
                     ELSE events
    BY <1>2, <2>1 DEF CancelQueued, CancelFrom
  <2>3. CASE runs[r].status = "queued"
    <3>1. /\ "aborted" \in Terminal /\ Ended(r, "aborted", "other") \in Row
          /\ Ended(r, "aborted", "other").status = "aborted"
      BY <1>a, RowTypes, RowFields DEF Terminal
    <3>2. runs'[r].status = "aborted" /\ \A x \in Run \ {r} : SameStatus(x)
      BY <1>a, <2>2, <2>3, <3>1, TransitionEffect DEF SameStatus, CancelFrom
    <3>3. outcomes[r] = <<>> /\ \A w \in Worker : ~Carries(w, r) /\ ~Tells(w, r)
      BY <1>e, <2>3
    <3>4. /\ "withdrawn" \in events'[r]
          /\ \A x \in Run : "withdrawn" \in events[x] => "withdrawn" \in events'[x]
      BY <2>2, <2>3 DEF TypeInv, TypeOK
    <3>5. RowAudit(r)'
      BY <1>d, <2>2, <3>1, <3>2, <3>3, <3>4 DEF RowAudit, Settled
    <3>. QED
      BY <2>2, <3>2, <3>3, <3>4, <3>5, NobodysRun
  <2>4. CASE runs[r].status # "queued"
    <3>1. UNCHANGED <<runs, events>>
      BY <2>2, <2>4 DEF Transition, CancelFrom
    <3>. QED
      BY <1>c, <2>2, <3>1 DEF SameStatus, SameRecord, MoreCrashes
  <2>. QED
    BY <2>3, <2>4
<1>3. CASE RecordStop(q)
  <2> DEFINE r == request[q].run
             new == [runs[r] EXCEPT !.asked = TRUE]
  <2>1. r \in Run /\ Write(r, new) /\ UNCHANGED <<outcomes, events, spent, worker>>
    BY <1>3, <1>b DEF RecordStop, RequestIs
  <2>2. new \in Row /\ new.status = runs[r].status
    BY <1>a, <2>1, RowEdits, SmallEdits
  <2>. HIDE DEF new
  <2>. QED
    BY <1>f, <2>1, <2>2
<1>4. CASE PublishStop(q)
  <2>1. UNCHANGED <<runs, outcomes, spent>>
    BY <1>4 DEF PublishStop
  <2>2. \A x \in Run : SameStatus(x) /\ SameRecord(x)
    BY <1>4, <2>1 DEF PublishStop, SameStatus, SameRecord, TypeInv, TypeOK
  <2>3. ASSUME NEW w \in Worker PROVE Calm(w)
    <3>1. worker[w] \in Slot
      BY BusyIsTyped DEF TypeInv
    <3>2. /\ worker'[w].at = worker[w].at /\ worker'[w].run = worker[w].run
          /\ worker'[w].verdict = worker[w].verdict /\ worker'[w].level = worker[w].level
      BY <1>4, <3>1 DEF PublishStop, Slot
    <3>. QED
      BY <3>2 DEF Calm
  <2>. QED
    BY <2>1, <2>2, <2>3, CalmKeeps DEF MoreCrashes
<1>5. CASE ReapLive(q)
  <2>1. PICK r \in Run : r = request[q].run
    BY <1>5, <1>b DEF ReapLive, RequestIs
  <2>2. /\ Transition(r, Ended(r, "failed", "worker_lost"), ReapFrom) /\ Reaping(q)
        /\ UNCHANGED <<outcomes, spent, worker>>
        /\ \A x \in Run : "withdrawn" \in events[x] => "withdrawn" \in events'[x]
    BY <1>5, <2>1 DEF ReapLive, RequestIs, Reaping, TypeInv, TypeOK
  <2>3. CASE runs[r].status \in ReapFrom
    <3>1. /\ "failed" \in Terminal /\ Ended(r, "failed", "worker_lost") \in Row
          /\ Ended(r, "failed", "worker_lost").status = "failed"
      BY <1>a, RowTypes, RowFields DEF Terminal
    <3>2. runs'[r].status = "failed" /\ \A x \in Run \ {r} : SameStatus(x)
      BY <1>a, <2>2, <2>3, <3>1, TransitionEffect DEF SameStatus
    <3>3. \A w \in Worker : ~Carries(w, r) /\ ~Tells(w, r)
      BY <1>d, <2>1, <2>2, <2>3, TellsOfAnEnd DEF ReapAlone, ReapFrom
    <3>4. outcomes[r] = <<>> /\ spent.crashes > 0
      BY <1>d, <2>3, <3>3 DEF RowsAudit, RowAudit, ReapFrom
    <3>5. RowAudit(r)'
      BY <1>d, <2>2, <3>1, <3>2, <3>4 DEF RowAudit, Settled
    <3>. QED
      BY <2>2, <3>2, <3>3, <3>5, NobodysRun
  <2>4. CASE runs[r].status \notin ReapFrom
    <3>1. UNCHANGED runs
      BY <2>2, <2>4 DEF Transition
    <3>. QED
      BY <1>c, <2>2, <3>1 DEF SameStatus, SameRecord, MoreCrashes
  <2>. QED
    BY <2>3, <2>4
<1>6. CASE ReapCollection(q)
  <2> DEFINE r == request[q].run
             new == [runs[r] EXCEPT !.collected = IF @ = "counted" THEN @ ELSE "ended"]
  <2>1. r \in Run /\ Write(r, new) /\ UNCHANGED <<outcomes, events, spent, worker>>
    BY <1>6, <1>b DEF ReapCollection, RequestIs, MarkCollectionEnded
  <2>2. new \in Row /\ new.status = runs[r].status
    BY <1>a, <2>1, EndedEdit
  <2>. HIDE DEF new
  <2>. QED
    BY <1>f, <2>1, <2>2
<1>7. CASE RequestDies(q)
  <2>1. UNCHANGED <<runs, outcomes, events, worker>> /\ MoreCrashes
    BY <1>7 DEF RequestDies, Spend, store, MoreCrashes, TypeInv, TypeOK
  <2>. QED
    BY <1>c, <2>1 DEF SameStatus, SameRecord
<1>8. CASE UNCHANGED <<runs, outcomes, events, spent, worker>>
  BY <1>8, <1>c DEF SameStatus, SameRecord, MoreCrashes
<1>. QED
  BY <1>1, <1>2, <1>3, <1>4, <1>5, <1>6, <1>7, <1>8
  DEF RequestStep, PushJob, ReadToAbort, ReadToReap, CheckClaim, store

LEMMA RestAudit ==
  ASSUME TypeInv, SlotsAudit, RowsAudit, Surroundings
  PROVE  SlotsAudit' /\ RowsAudit'
<1>1. UNCHANGED <<worker, outcomes, events>> /\ MoreCrashes
  BY DEF Surroundings, ScriptEnds, ExpireClaim, GrowOld, Requeue, store, Spend, MoreCrashes,
         TypeInv, TypeOK
<1>2. ASSUME NEW r \in Run, NEW s \in Stamp, GrowOld(r, s) PROVE \A x \in Run : SameStatus(x)
  <2> DEFINE new == [runs[r] EXCEPT !.age[s] = "old"]
  <2>1. new \in Row /\ new.status = runs[r].status /\ Write(r, new)
    BY <1>2, RowEdits, SmallEdits DEF GrowOld, TypeInv, TypeOK
  <2>. HIDE DEF new
  <2>. QED
    BY <2>1, WriteEffect DEF SameStatus, TypeInv, TypeOK
<1>3. \A x \in Run : SameStatus(x)
  BY <1>2 DEF Surroundings, ScriptEnds, ExpireClaim, Requeue, store, SameStatus
<1>. QED
  BY <1>1, <1>3, CalmKeeps DEF Calm, SameRecord

(* Nobody comes to carry a run that was taken; a request is about to reap  *)
(* after it found no claim.                                                *)
NoNewCarrier == \A w \in Worker, r \in Run : Carries(w, r)' => Carries(w, r) \/ ~Took(r)

LEMMA CarriersKept ==
  ASSUME TypeInv, ReaperInv, ReapAlone, NoNewCarrier,
         \A q \in Request : Reaping(q)' => Reaping(q) /\ request'[q].run = request[q].run
  PROVE  ReapAlone'
<1>1. ASSUME NEW q \in Request, Reaping(q)', NEW w \in Worker PROVE ~Carries(w, request[q].run)'
  <2>1. Reaping(q) /\ request[q].run \in Run /\ request'[q].run = request[q].run
    BY <1>1 DEF Reaping, TypeInv, BusyAsk
  <2>2. Took(request[q].run) /\ ~Carries(w, request[q].run)
    BY <2>1 DEF ReaperInv, Asks, Reaping, ReapAlone
  <2>3. PICK r \in Run : r = request[q].run
    BY <2>1
  <2>4. ~Carries(w, r)'
    BY <2>2, <2>3 DEF NoNewCarrier
  <2>. QED
    BY <2>1, <2>3, <2>4 DEF Carries
<1>. QED
  BY <1>1 DEF ReapAlone, Reaping, Carries

LEMMA FailingCarried ==
  ASSUME TypeInv, MaxFaults = 0, NEW w \in Worker, WorkerStep(w) \/ Beside(w)
  PROVE  NoNewCarrier
<1>a. worker \in [Worker -> BusySlot] /\ worker[w] \in Slot
  BY BusyIsTyped DEF TypeInv
<1>b. ~Spend("faults", MaxFaults)
  BY DEF Spend, TypeInv, TypeOK
<1>c. NoNewDriver
  BY WorkerFrame
<1> DEFINE Fine(v) == worker'[v].at = "failing" =>
                        worker'[v].run = worker[v].run /\ worker[v].at \in Carrying
           All == \A v \in Worker : Fine(v)
<1>d. ASSUME \A v \in Worker \ {w} : worker'[v] = worker[v], Fine(w) PROVE All
  BY <1>d DEF Carrying
<1>e. ASSUME NEW s, s.at # "failing", Become(w, s) PROVE All
  BY <1>a, <1>d, <1>e, SlotMoves
<1>f. ASSUME NEW a, a # "failing", Go(w, a) PROVE All
  BY <1>a, <1>d, <1>f, SlotMoves
<1>g. ASSUME NEW s, s.at = worker[w].at, s.run = worker[w].run, Become(w, s) PROVE All
  BY <1>a, <1>d, <1>g, SlotMoves DEF Carrying
<1>1. ASSUME Connect(w) \/ Inspect(w)
      PROVE  All
  <2>1. worker[w].at \in Carrying
    BY <1>1, Places DEF Connect, Inspect, At
  <2>2. ASSUME NEW b, GoFail(w, b) PROVE All
    BY <1>a, <1>d, <2>1, <2>2, SlotMoves
  <2>. QED
    BY <1>1, <1>f, <2>2 DEF Connect, Inspect
<1>2. ASSUME Pop(w) \/ AbandonStart(w) \/ Collect(w) \/ Crash(w) \/ Attach(w) \/ RecheckStop(w)
      PROVE  All
  <2> DEFINE stop == IF runs[worker[w].run].asked THEN RequestAbort(w) ELSE worker[w].stop
  <2>1. /\ [worker[w] EXCEPT !.at = "popped", !.run = Head(queue)].at # "failing"
        /\ [worker[w] EXCEPT !.at = "abandoned", !.verdict = "aborted"].at # "failing"
        /\ [worker[w] EXCEPT !.at = "release", !.ears = "off", !.inbox = FALSE].at # "failing"
        /\ [Idle EXCEPT !.at = "down"].at # "failing"
        /\ [worker[w] EXCEPT !.at = "attached", !.ears = "pending"].at # "failing"
        /\ [worker[w] EXCEPT !.at = "waiting", !.stop = stop].at # "failing"
    BY <1>a DEF Slot, Idle
  <2>. QED
    BY <1>2, <1>e, <2>1 DEF Pop, AbandonStart, Collect, Crash, Attach, RecheckStop
<1>3. ASSUME NEW code, FinishWith(w, code) PROVE All
  <2>1. [worker[w] EXCEPT !.at = "ended", !.verdict = Verdict(w, code)].at # "failing"
    BY <1>a DEF Slot
  <2>. QED
    BY <1>3, <1>e, <2>1 DEF FinishWith
<1>4. ASSUME ClaimRun(w) \/ Release(w)
      PROVE  All
  BY <1>4, <1>e, <1>f DEF ClaimRun, Release, Idle
<1>5. ASSUME TakeRun(w) \/ CheckStop(w) \/ StartScript(w) \/ MarkRunning(w) \/ RecordOutcome(w)
           \/ FailRun(w) \/ RecordFailure(w) \/ Restart(w)
      PROVE  All
  BY <1>5, <1>f
  DEF TakeRun, CheckStop, StartScript, MarkRunning, RecordOutcome, FailRun, RecordFailure, Restart
<1>6. ASSUME Subscribed(w) \/ HearStop(w) \/ SendSignal(w) \/ SignalSent(w)
      PROVE  All
  <2> DEFINE a == [worker[w] EXCEPT !.ears = "on"]
             b == [worker[w] EXCEPT !.inbox = FALSE, !.stop = RequestAbort(w)]
             c == [worker[w] EXCEPT !.stop = "sent"]
             d == [worker[w] EXCEPT !.stop = "signalled"]
  <2>1. \E s \in {a, b, c, d} : Become(w, s)
    BY <1>6 DEF Subscribed, HearStop, SendSignal, SignalSent
  <2>2. \A s \in {a, b, c, d} : s.at = worker[w].at /\ s.run = worker[w].run
    BY <1>a DEF Slot
  <2>. HIDE DEF a, b, c, d
  <2>. QED
    BY <1>g, <2>1, <2>2
<1>7. ASSUME Throw(w) \/ LoseJob(w) \/ CheckBlind(w)
      PROVE  All
  BY <1>7, <1>b DEF Throw, LoseJob, CheckBlind
<1>8. ASSUME \E r \in Run : RenewClaim(w, r)
      PROVE  All
  BY <1>8 DEF RenewClaim, Carrying
<1>9. All
  BY <1>1, <1>2, <1>3, <1>4, <1>5, <1>6, <1>7, <1>8
  DEF WorkerStep, Beside, Finish, LoseConnection
<1>. QED
  BY <1>c, <1>9 DEF NoNewCarrier, NoNewDriver, Carries, Drives, Carrying

LEMMA RequestAlone ==
  ASSUME TypeInv, ClaimInv, ReapAlone, NEW q \in Request, RequestStep(q)
  PROVE  ReapAlone'
<1>. USE DEF ClaimInv
<1>a. request \in [Request -> BusyAsk]
  BY DEF TypeInv
<1>b. \A w \in Worker : worker'[w].at = worker[w].at /\ worker'[w].run = worker[w].run
  <2>1. CASE PublishStop(q)
    BY <2>1, BusyIsTyped DEF PublishStop, Slot, TypeInv
  <2>2. CASE UNCHANGED worker
    BY <2>2
  <2>. QED
    BY <2>1, <2>2
    DEF RequestStep, CreateRun, PushJob, ReadToAbort, CancelQueued, RecordStop, ReadToReap,
        CheckClaim, ReapLive, ReapCollection, RequestDies
<1>c. NoNewCarrier
  BY <1>b DEF NoNewCarrier, Carries
<1>d. ASSUME \A p \in Request \ {q} : request'[p] = request[p], ~Reaping(q)'
      PROVE  ReapAlone'
  BY <1>c, <1>d, CarriersKept DEF Reaping
<1>e. \A a : Turn(q, a) => request'[q] = a /\ \A p \in Request \ {q} : request'[p] = request[p]
  BY <1>a DEF Turn
<1>f. Reply(q) => ReapAlone'
  BY <1>d, <1>e DEF Reply, Quiet, Reaping
<1>g. \A x : Proceed(q, x) => /\ request'[q].at = x /\ request'[q].run = request[q].run
                              /\ \A p \in Request \ {q} : request'[p] = request[p]
  BY <1>a, <1>e DEF Proceed, BusyAsk, Ask
<1>h. ASSUME NEW x, x # "reap", Proceed(q, x) PROVE ReapAlone'
  BY <1>d, <1>g, <1>h DEF Reaping
<1>1. CASE CheckClaim(q) /\ Proceed(q, "reap")
  <2>1. PICK r \in Run : r = request[q].run
    BY <1>1, <1>a DEF CheckClaim, RequestIs, BusyAsk
  <2>2. CASE claim[r] = NoWorker
    <3>1. \A w \in Worker : ~Holds(w, r)
      BY <2>2 DEF HolderInv
    <3>2. \A w \in Worker : ~Carries(w, r)
      BY <3>1, Places DEF Holds, Carries
    <3>3. ASSUME NEW p \in Request, Reaping(p)', NEW w \in Worker,
                 worker'[w].run = request'[p].run, worker'[w].at \in Carrying
          PROVE  FALSE
      <4>1. CASE p = q
        BY <1>1, <1>b, <1>g, <2>1, <3>2, <3>3, <4>1 DEF Carries
      <4>2. CASE p # q
        <5>1. request'[p] = request[p]
          BY <1>1, <1>g, <4>2
        <5>2. Reaping(p) /\ Carries(w, request[p].run)
          BY <1>b, <3>3, <5>1 DEF Reaping, Carries
        <5>. QED
          BY <5>2 DEF ReapAlone
      <4>. QED
        BY <4>1, <4>2
    <3>. QED
      BY <3>3 DEF ReapAlone, Reaping, Carries
  <2>3. CASE claim[r] # NoWorker
    BY <1>1, <1>f, <2>1, <2>3 DEF CheckClaim
  <2>. QED
    BY <2>2, <2>3
<1>2. ASSUME NEW r \in Run, CreateRun(q, r) \/ ReadToAbort(q, r) \/ ReadToReap(q, r)
      PROVE  ReapAlone'
  <2>1. \E a : Turn(q, a) /\ a.at # "reap"
    BY <1>2 DEF CreateRun, ReadToAbort, ReadToReap
  <2>. QED
    BY <1>d, <1>e, <2>1 DEF Reaping
<1>3. CASE CheckClaim(q) /\ ~Proceed(q, "reap")
  BY <1>3, <1>f DEF CheckClaim
<1>4. CASE CancelQueued(q) \/ RecordStop(q)
  BY <1>4, <1>f, <1>h DEF CancelQueued, RecordStop
<1>5. CASE PushJob(q) \/ PublishStop(q) \/ ReapLive(q) \/ ReapCollection(q) \/ RequestDies(q)
  BY <1>5, <1>f DEF PushJob, PublishStop, ReapLive, ReapCollection, RequestDies
<1>. QED
  BY <1>1, <1>2, <1>3, <1>4, <1>5 DEF RequestStep

LEMMA AuditStep ==
  ASSUME MaxFaults = 0
  PROVE  TypeInv /\ ClaimInv /\ AuditInv /\ [Next]_vars => AuditInv'
<1>. SUFFICES ASSUME TypeInv, ClaimInv, AuditInv, [Next]_vars PROVE AuditInv'
  OBVIOUS
<1>. USE DEF AuditInv, ClaimInv
<1>a. ASSUME UNCHANGED <<worker, request>> PROVE ReapAlone'
  BY <1>a DEF ReapAlone, Reaping, Carries
<1>1. ASSUME NEW q \in Request, RequestStep(q) PROVE AuditInv'
  BY <1>1, RequestAudit, RequestAlone
<1>2. ASSUME NEW w \in Worker, WorkerStep(w) \/ Beside(w) PROVE AuditInv'
  <2>1. SlotsAudit' /\ RowsAudit'
    BY <1>2, QuietSlot, WritingSlot, CrashAudit
  <2>2. NoNewCarrier /\ UNCHANGED request
    BY <1>2, FailingCarried, WorkerFrame
  <2>3. ReapAlone'
    BY <2>2, CarriersKept DEF Reaping
  <2>. QED
    BY <2>1, <2>3
<1>3. CASE Surroundings
  <2>1. UNCHANGED <<worker, request>>
    BY <1>3 DEF Surroundings, ScriptEnds, ExpireClaim, GrowOld, Requeue
  <2>. QED
    BY <1>3, <1>a, <2>1, RestAudit
<1>4. CASE UNCHANGED vars
  <2>1. UNCHANGED <<runs, outcomes, events, spent, worker, request>>
    BY <1>4 DEF vars, store
  <2>2. SlotsAudit' /\ RowsAudit'
    BY <2>1, CalmKeeps DEF Calm, SameStatus, SameRecord, MoreCrashes
  <2>. QED
    BY <1>a, <2>1, <2>2
<1>. QED
  BY <1>1, <1>2, <1>3, <1>4 DEF Next

LEMMA AuditInit == Init => AuditInv
<1>1. Init => SlotsAudit
  BY Places DEF Init, Idle, SlotsAudit, SlotAudit, Telling
<1>2. Init => RowsAudit
  <2>1. ASSUME Init, NEW r \in Run PROVE runs[r].status = "absent" /\ outcomes[r] = <<>>
    BY <2>1 DEF Init, NoRow
  <2>2. "absent" \notin Terminal \cup {"starting", "running"}
    BY DEF Terminal
  <2>. QED
    BY <2>1, <2>2 DEF RowsAudit, RowAudit
<1>3. Init => ReapAlone
  BY DEF Init, Quiet, ReapAlone, Reaping
<1>. QED
  BY <1>1, <1>2, <1>3 DEF AuditInv

(* If no claim lapses under a slot that holds its run and nothing throws,  *)
(* row and audit log agree on how a run ended, there is one record of it,  *)
(* and it is missing only if a process died (execute.ts 440-458).          *)
THEOREM LogAgrees == PromptStart /\ MaxFaults = 0 => (Spec => []AuditAgrees)
<1>. SUFFICES ASSUME PromptStart, MaxFaults = 0 PROVE Spec => []AuditAgrees
  OBVIOUS
<1>1. TypeInv /\ ClaimInv /\ AuditInv /\ [Next]_vars => AuditInv'
  BY AuditStep
<1>2. TypeInv /\ RecordInv /\ ClaimInv /\ [Next]_vars => ClaimInv'
  BY ClaimStep
<1>3. AuditInv => AuditAgrees
  <2>1. \A w \in Worker, r \in Run : Tells(w, r) => Holds(w, r)
    BY Places DEF Tells, Holds
  <2>. QED
    BY <2>1 DEF AuditInv, RowsAudit, RowAudit, Settled, AuditAgrees
<1>4. Spec => []RecordInv
  BY RecordInit, RecordStep, TypeInvariant, PTL DEF Spec
<1>. QED
  BY <1>1, <1>2, <1>3, <1>4, ClaimInit, AuditInit, TypeInvariant, PTL DEF Spec

-----------------------------------------------------------------------------
\* A run that waits in the queue
\*
\* Nothing looks after a queued run but its job: no read reaps it, and BRPOP
\* keeps no copy.  So the job must be somewhere as long as nobody fails.

(* Where the job of a run may be: in the list, with the request that is    *)
(* about to push it, or with a slot that popped it or claimed the run.     *)
InQueue(r) == \E i \in 1..Len(queue) : queue[i] = r
Pushing(r) == \E q \in Request : RequestIs(q, "push") /\ request[q].run = r
Popped(r)  == \E w \in Worker : At(w, "popped") /\ worker[w].run = r
Claimed(r) == \E w \in Worker : At(w, "claimed") /\ worker[w].run = r

(* Nothing has thrown and no process has died so far.                      *)
NothingFailed == spent.faults = 0 /\ spent.crashes = 0

QueuedHasItsJob ==
  NothingFailed => \A r \in Run : runs[r].status = "queued" =>
            InQueue(r) \/ Pushing(r) \/ Popped(r) \/ Claimed(r)

(* A slot that pops a job and finds the run claimed drops it, so a queued  *)
(* run that is claimed must be with the slot that claimed it; and of a run *)
(* that nobody asked for there is neither job nor claim.                   *)
JobAt(r) ==
  /\ runs[r].status = "queued" => InQueue(r) \/ Pushing(r) \/ Popped(r) \/ Claimed(r)
  /\ runs[r].status = "queued" /\ claim[r] # NoWorker => Claimed(r)
  /\ runs[r].status = "absent" =>
       ~InQueue(r) /\ ~Pushing(r) /\ ~Popped(r) /\ ~Claimed(r) /\ claim[r] = NoWorker

JobInv == NothingFailed => (\A w \in Worker : leaked[w] = {}) /\ \A r \in Run : JobAt(r)

(* What nearly every step leaves alone.                                    *)
JobPlaces     == {"popped", "claimed"}
SlotsStill    == \A w \in Worker : worker[w].at \in JobPlaces \/ worker'[w].at \in JobPlaces =>
                   worker'[w].at = worker[w].at /\ worker'[w].run = worker[w].run
RequestsStill == \A q \in Request : request[q].at = "push" \/ request'[q].at = "push" =>
                   request'[q].at = request[q].at /\ request'[q].run = request[q].run
RowsStill     == \A r \in Run : runs'[r].status = runs[r].status \/ runs'[r].status \notin NotTaken
ClaimsStill   == \A r \in Run : claim'[r] \in {claim[r], NoWorker}
Still         == /\ SlotsStill /\ RequestsStill /\ RowsStill /\ ClaimsStill
                 /\ UNCHANGED <<queue, leaked, spent>>

LEMMA PlacesKept ==
  ASSUME NEW r \in Run
  PROVE  /\ UNCHANGED queue => (InQueue(r)' <=> InQueue(r))
         /\ RequestsStill => (Pushing(r)' <=> Pushing(r))
         /\ SlotsStill => (Popped(r)' <=> Popped(r)) /\ (Claimed(r)' <=> Claimed(r))
<1>1. UNCHANGED queue => (InQueue(r)' <=> InQueue(r))
  BY DEF InQueue
<1>2. ASSUME RequestsStill PROVE Pushing(r)' <=> Pushing(r)
  BY <1>2 DEF RequestsStill, Pushing, RequestIs
<1>3. ASSUME SlotsStill PROVE (Popped(r)' <=> Popped(r)) /\ (Claimed(r)' <=> Claimed(r))
  BY <1>3 DEF SlotsStill, JobPlaces, Popped, Claimed, At
<1>. QED
  BY <1>1, <1>2, <1>3

LEMMA StillKeepsJobs == ASSUME JobInv, Still PROVE JobInv'
<1>. SUFFICES ASSUME NothingFailed' PROVE (\A w \in Worker : leaked'[w] = {}) /\ \A r \in Run : JobAt(r)'
  BY DEF JobInv
<1>1. (\A w \in Worker : leaked[w] = {}) /\ \A r \in Run : JobAt(r)
  BY DEF JobInv, NothingFailed, Still
<1>2. ASSUME NEW r \in Run PROVE JobAt(r)'
  <2>1. /\ InQueue(r)' <=> InQueue(r)
        /\ Pushing(r)' <=> Pushing(r)
        /\ Popped(r)' <=> Popped(r)
        /\ Claimed(r)' <=> Claimed(r)
    BY PlacesKept DEF Still
  <2>2. runs'[r].status = runs[r].status \/ runs'[r].status \notin {"absent", "queued"}
    BY DEF Still, RowsStill, NotTaken
  <2>3. claim'[r] \in {claim[r], NoWorker}
    BY DEF Still, ClaimsStill
  <2>4. JobAt(r)
    BY <1>1
  <2>. QED
    BY <2>1, <2>2, <2>3, <2>4 DEF JobAt
<1>. QED
  BY <1>1, <1>2 DEF Still

(* After a failure there is nothing to keep.                               *)
LEMMA FailureEndsIt ==
  ASSUME TypeInv, Spend("faults", MaxFaults) \/ Spend("crashes", MaxCrashes)
  PROVE  JobInv'
<1>1. spent'.faults # 0 \/ spent'.crashes # 0
  BY DEF TypeInv, TypeOK, Spend
<1>. QED
  BY <1>1 DEF JobInv, NothingFailed

(* A guarded update that does not create the row, or leaves its status.    *)
LEMMA TransitionStill ==
  ASSUME runs \in [Run -> Row], NEW r \in Run, NEW new \in Row, NEW from,
         new.status \notin NotTaken \/ new.status = runs[r].status, Transition(r, new, from)
  PROVE  RowsStill
<1>1. \A x \in Run : runs'[x] = IF x = r /\ runs[r].status \in from THEN new ELSE runs[x]
  BY TransitionEffect
<1>. QED
  BY <1>1 DEF RowsStill

LEMMA WriteStill ==
  ASSUME runs \in [Run -> Row], NEW r \in Run, NEW new \in Row,
         new.status = runs[r].status, Write(r, new)
  PROVE  RowsStill
  BY WriteEffect DEF RowsStill

LEMMA NothingStill ==
  /\ UNCHANGED runs => RowsStill
  /\ UNCHANGED worker => SlotsStill
  /\ UNCHANGED request => RequestsStill
  /\ UNCHANGED claim => ClaimsStill
  BY DEF RowsStill, SlotsStill, RequestsStill, ClaimsStill

(* A slot that has no job in hand before and after.                        *)
LEMMA MoveStill ==
  ASSUME TypeInv, NEW w \in Worker, worker[w].at \notin JobPlaces,
         \/ \E a : a \notin JobPlaces /\ Go(w, a)
         \/ \E b : GoFail(w, b)
         \/ \E s : s.at \notin JobPlaces /\ Become(w, s)
  PROVE  SlotsStill
<1>1. worker'[w].at \notin JobPlaces /\ \A v \in Worker \ {w} : worker'[v] = worker[v]
  BY SlotMoves DEF TypeInv, JobPlaces
<1>. QED
  BY <1>1 DEF SlotsStill

(* A slot that learns something and stays where it is.                     *)
LEMMA StayStill ==
  ASSUME TypeInv, NEW w \in Worker, NEW s, Become(w, s), s.at = worker[w].at, s.run = worker[w].run
  PROVE  SlotsStill
<1>1. worker'[w] = s /\ \A v \in Worker \ {w} : worker'[v] = worker[v]
  BY SlotMoves DEF TypeInv
<1>. QED
  BY <1>1 DEF SlotsStill

(* A request that does not have a job to push before and after.            *)
LEMMA TurnStill ==
  ASSUME TypeInv, NEW q \in Request, request[q].at # "push",
         \/ \E a : a # "push" /\ Proceed(q, a)
         \/ Reply(q)
         \/ \E a : a.at # "push" /\ Turn(q, a)
  PROVE  RequestsStill
<1>1. request[q] \in Ask /\ DOMAIN request = Request
  BY BusyIsTyped DEF TypeInv, TypeOK
<1>2. request'[q].at # "push" /\ \A p \in Request \ {q} : request'[p] = request[p]
  BY <1>1 DEF Proceed, Reply, Turn, Quiet, Ask, TypeInv
<1>. QED
  BY <1>2 DEF RequestsStill

LEMMA RequestJobs ==
  ASSUME TypeInv, JobInv, NEW q \in Request, RequestStep(q)
  PROVE  JobInv'
<1>a. /\ runs \in [Run -> Row] /\ request[q] \in Ask /\ DOMAIN request = Request /\ queue \in Seq(Run)
      /\ request[q].at # "idle" => request[q].run \in Run
      /\ \A w \in Worker : worker[w] \in Slot
  BY BusyIsTyped DEF TypeInv, TypeOK, BusyAsk
<1>b. NotTaken = {"absent", "queued"} /\ "aborted" \in Terminal /\ "failed" \in Terminal
  BY DEF NotTaken, Terminal
<1>c. ASSUME Still PROVE JobInv'
  BY <1>c, StillKeepsJobs
<1> DEFINE r == request[q].run
<1>1. ASSUME NEW x \in Run, CreateRun(q, x) PROVE JobInv'
  <2>. SUFFICES ASSUME NothingFailed' PROVE (\A w \in Worker : leaked'[w] = {}) /\ \A y \in Run : JobAt(y)'
    BY DEF JobInv
  <2>1. (\A w \in Worker : leaked[w] = {}) /\ \A y \in Run : JobAt(y)
    BY <1>1 DEF JobInv, NothingFailed, CreateRun
  <2>2. /\ request'[q].at = "push" /\ request'[q].run = x /\ request[q].at = "idle"
        /\ \A p \in Request \ {q} : request'[p] = request[p]
    BY <1>1, <1>a DEF CreateRun, Turn, RequestIs
  <2>3. Queued(x) \in Row /\ Queued(x).status = "queued" /\ runs[x].status = "absent"
    BY <1>1, <1>a, RowTypes, RowFields DEF CreateRun
  <2>4. \A y \in Run : runs'[y] = IF y = x THEN Queued(x) ELSE runs[y]
    BY <1>1, <1>a, <2>3, WriteEffect DEF CreateRun
  <2>5. UNCHANGED <<queue, claim, worker, leaked>>
    BY <1>1 DEF CreateRun, redis
  <2>6. SlotsStill
    BY <2>5, NothingStill
  <2>7. ASSUME NEW y \in Run PROVE JobAt(y)'
    <3>1. (InQueue(y)' <=> InQueue(y)) /\ (Popped(y)' <=> Popped(y)) /\ (Claimed(y)' <=> Claimed(y))
      BY <2>5, <2>6, PlacesKept
    <3>2. CASE y = x
      <4>1. Pushing(x)'
        BY <2>2 DEF Pushing, RequestIs
      <4>2. runs'[x].status = "queued" /\ claim'[x] = NoWorker
        BY <2>1, <2>3, <2>4, <2>5 DEF JobAt
      <4>. QED
        BY <3>2, <4>1, <4>2 DEF JobAt
    <3>3. CASE y # x
      <4>1. Pushing(y)' <=> Pushing(y)
        BY <2>2, <3>3 DEF Pushing, RequestIs
      <4>2. runs'[y] = runs[y] /\ claim'[y] = claim[y] /\ JobAt(y)
        BY <2>1, <2>4, <2>5, <3>3
      <4>. QED
        BY <3>1, <4>1, <4>2 DEF JobAt
    <3>. QED
      BY <3>2, <3>3
  <2>. QED
    BY <2>1, <2>5, <2>7
<1>2. ASSUME PushJob(q) PROVE JobInv'
  <2>. SUFFICES ASSUME NothingFailed' PROVE (\A w \in Worker : leaked'[w] = {}) /\ \A y \in Run : JobAt(y)'
    BY DEF JobInv
  <2>1. (\A w \in Worker : leaked[w] = {}) /\ \A y \in Run : JobAt(y)
    BY <1>2 DEF JobInv, NothingFailed, PushJob
  <2>2. /\ request'[q] = Quiet /\ request[q].at = "push" /\ r \in Run
        /\ \A p \in Request \ {q} : request'[p] = request[p]
    BY <1>2, <1>a DEF PushJob, Reply, Turn, RequestIs
  <2>3. queue' = Append(queue, r) /\ UNCHANGED <<runs, claim, worker, leaked>>
    BY <1>2 DEF PushJob, store
  <2>4. SlotsStill
    BY <2>3, NothingStill
  <2>5. /\ Len(queue') = Len(queue) + 1 /\ Len(queue) \in Nat /\ queue'[Len(queue) + 1] = r
        /\ \A i \in 1..Len(queue) : queue'[i] = queue[i]
    BY <1>a, <2>2, <2>3
  <2>6. ASSUME NEW y \in Run PROVE JobAt(y)'
    <3>1. (Popped(y)' <=> Popped(y)) /\ (Claimed(y)' <=> Claimed(y))
      BY <2>4, PlacesKept
    <3>2. InQueue(y)' <=> InQueue(y) \/ y = r
      BY <2>5 DEF InQueue
    <3>3. (Pushing(y) <=> Pushing(y)' \/ y = r)
      BY <2>2 DEF Pushing, RequestIs, Quiet
    <3>4. JobAt(y) /\ runs'[y] = runs[y] /\ claim'[y] = claim[y]
      BY <2>1, <2>3
    <3>. QED
      BY <3>1, <3>2, <3>3, <3>4 DEF JobAt
  <2>. QED
    BY <2>1, <2>3, <2>6
<1>3. ASSUME NEW x \in Run, ReadToAbort(q, x) \/ ReadToReap(q, x) PROVE Still
  <2>1. RequestsStill
    BY <1>3, TurnStill DEF ReadToAbort, ReadToReap, RequestIs
  <2>. QED
    BY <1>3, <2>1, NothingStill DEF ReadToAbort, ReadToReap, store, redis, Still
<1>4. ASSUME CancelQueued(q) PROVE Still
  <2>1. RequestsStill
    BY <1>4, TurnStill DEF CancelQueued, RequestIs
  <2>2. r \in Run
    BY <1>4, <1>a DEF CancelQueued, RequestIs
  <2>3. Ended(r, "aborted", "other") \in Row /\ Ended(r, "aborted", "other").status = "aborted"
    BY <1>a, <1>b, <2>2, RowTypes, RowFields
  <2>4. RowsStill
    BY <1>4, <1>a, <1>b, <2>2, <2>3, TransitionStill DEF CancelQueued
  <2>. QED
    BY <1>4, <2>1, <2>4, NothingStill DEF CancelQueued, redis, Still
<1>5. ASSUME RecordStop(q) PROVE Still
  <2>1. RequestsStill
    BY <1>5, TurnStill DEF RecordStop, RequestIs
  <2>2. r \in Run
    BY <1>5, <1>a DEF RecordStop, RequestIs
  <2> DEFINE new == [runs[r] EXCEPT !.asked = TRUE]
  <2>3. new \in Row /\ new.status = runs[r].status /\ Write(r, new)
    BY <1>5, <1>a, <2>2, RowEdits, SmallEdits DEF RecordStop
  <2>. HIDE DEF new
  <2>4. RowsStill
    BY <1>a, <2>2, <2>3, WriteStill
  <2>. QED
    BY <1>5, <2>1, <2>4, NothingStill DEF RecordStop, redis, Still
<1>6. ASSUME PublishStop(q) PROVE Still
  <2>1. RequestsStill
    BY <1>6, TurnStill DEF PublishStop, RequestIs
  <2>2. ASSUME NEW w \in Worker PROVE worker'[w].at = worker[w].at /\ worker'[w].run = worker[w].run
    BY <1>6, <1>a DEF PublishStop, Slot
  <2>3. SlotsStill
    BY <2>2 DEF SlotsStill
  <2>. QED
    BY <1>6, <2>1, <2>3, NothingStill DEF PublishStop, redis, Still
<1>7. ASSUME CheckClaim(q) PROVE Still
  <2>1. RequestsStill
    BY <1>7, TurnStill DEF CheckClaim, RequestIs
  <2>. QED
    BY <1>7, <2>1, NothingStill DEF CheckClaim, store, redis, Still
<1>8. ASSUME ReapLive(q) PROVE Still
  <2>1. RequestsStill
    BY <1>8, TurnStill DEF ReapLive, RequestIs
  <2>2. r \in Run
    BY <1>8, <1>a DEF ReapLive, RequestIs
  <2>3. Ended(r, "failed", "worker_lost") \in Row /\ Ended(r, "failed", "worker_lost").status = "failed"
    BY <1>a, <1>b, <2>2, RowTypes, RowFields
  <2>4. RowsStill
    BY <1>8, <1>a, <1>b, <2>2, <2>3, TransitionStill DEF ReapLive
  <2>. QED
    BY <1>8, <2>1, <2>4, NothingStill DEF ReapLive, redis, Still
<1>9. ASSUME ReapCollection(q) PROVE Still
  <2>1. RequestsStill
    BY <1>9, TurnStill DEF ReapCollection, RequestIs
  <2>2. r \in Run
    BY <1>9, <1>a DEF ReapCollection, RequestIs
  <2> DEFINE new == [runs[r] EXCEPT !.collected = IF @ = "counted" THEN @ ELSE "ended"]
  <2>3. new \in Row /\ new.status = runs[r].status
    BY <1>a, <2>2, EndedEdit
  <2>4. Write(r, new)
    BY <1>9 DEF ReapCollection, MarkCollectionEnded
  <2>. HIDE DEF new
  <2>5. RowsStill
    BY <1>a, <2>2, <2>3, <2>4, WriteStill
  <2>. QED
    BY <1>9, <2>1, <2>5, NothingStill DEF ReapCollection, redis, Still
<1>10. ASSUME RequestDies(q) PROVE JobInv'
  BY <1>10, FailureEndsIt DEF RequestDies
<1>. QED
  BY <1>c, <1>1, <1>2, <1>3, <1>4, <1>5, <1>6, <1>7, <1>8, <1>9, <1>10 DEF RequestStep

(* Popping a job, claiming its run and taking it: the job changes hands.   *)
LEMMA PopKeepsJobs == ASSUME TypeInv, JobInv, NEW w \in Worker, Pop(w) PROVE JobInv'
<1>. SUFFICES ASSUME NothingFailed' PROVE (\A v \in Worker : leaked'[v] = {}) /\ \A y \in Run : JobAt(y)'
  BY DEF JobInv
<1>1. (\A v \in Worker : leaked[v] = {}) /\ \A y \in Run : JobAt(y)
  BY DEF JobInv, NothingFailed, Pop
<1>2. worker[w] \in Slot /\ queue \in Seq(Run) /\ queue # <<>> /\ worker[w].at = "idle"
  BY BusyIsTyped DEF TypeInv, TypeOK, Pop, At
<1> DEFINE r == Head(queue)
           s == [worker[w] EXCEPT !.at = "popped", !.run = r]
<1>3. s.at = "popped" /\ s.run = r
  BY <1>2 DEF Slot
<1>4. worker'[w] = s /\ \A v \in Worker \ {w} : worker'[v] = worker[v]
  BY SlotMoves DEF TypeInv, Pop
<1>5. UNCHANGED <<runs, claim, request, leaked>> /\ queue' = Tail(queue)
  BY DEF Pop, store
<1>6. /\ Len(queue) \in Nat /\ Len(queue) >= 1 /\ queue[1] = r /\ Len(queue') = Len(queue) - 1
      /\ \A i \in 1..Len(queue') : queue'[i] = queue[i + 1]
  BY <1>2, <1>5
<1>. HIDE DEF r, s
<1>7. ASSUME NEW y \in Run PROVE JobAt(y)'
  <2>1. Pushing(y)' <=> Pushing(y)
    BY <1>5, NothingStill, PlacesKept
  <2>2. Popped(y)' <=> Popped(y) \/ y = r
    BY <1>2, <1>3, <1>4 DEF Popped, At
  <2>3. Claimed(y)' <=> Claimed(y)
    BY <1>2, <1>3, <1>4 DEF Claimed, At
  <2>4. InQueue(y) <=> InQueue(y)' \/ y = r
    <3>1. ASSUME NEW i \in 1..Len(queue), queue[i] = y, y # r PROVE InQueue(y)'
      <4>1. i - 1 \in 1..Len(queue') /\ queue'[i - 1] = y
        BY <1>6, <3>1
      <4>. QED
        BY <4>1 DEF InQueue
    <3>2. ASSUME NEW i \in 1..Len(queue'), queue'[i] = y PROVE InQueue(y)
      <4>1. i + 1 \in 1..Len(queue) /\ queue[i + 1] = y
        BY <1>6, <3>2
      <4>. QED
        BY <4>1 DEF InQueue
    <3>3. y = r => InQueue(y)
      BY <1>6 DEF InQueue
    <3>. QED
      BY <3>1, <3>2, <3>3 DEF InQueue
  <2>5. JobAt(y) /\ runs'[y] = runs[y] /\ claim'[y] = claim[y]
    BY <1>1, <1>5
  <2>. QED
    BY <2>1, <2>2, <2>3, <2>4, <2>5 DEF JobAt
<1>. QED
  BY <1>1, <1>5, <1>7

LEMMA ClaimKeepsJobs == ASSUME TypeInv, JobInv, NEW w \in Worker, ClaimRun(w) PROVE JobInv'
<1>. SUFFICES ASSUME NothingFailed' PROVE (\A v \in Worker : leaked'[v] = {}) /\ \A y \in Run : JobAt(y)'
  BY DEF JobInv
<1>1. (\A v \in Worker : leaked[v] = {}) /\ \A y \in Run : JobAt(y)
  BY DEF JobInv, NothingFailed, ClaimRun
<1>0. PICK r \in Run : r = worker[w].run
  BY DEF TypeInv, BusySlot, ClaimRun, At
<1>2. worker[w].at = "popped" /\ claim \in [Run -> Worker \cup {NoWorker}]
  BY DEF TypeInv, TypeOK, ClaimRun, At
<1>3. UNCHANGED <<runs, queue, request, leaked>>
  BY DEF ClaimRun, store
<1>4. \A v \in Worker \ {w} : worker'[v] = worker[v]
  BY SlotMoves DEF TypeInv, ClaimRun
<1>5. ASSUME NEW y \in Run PROVE (InQueue(y)' <=> InQueue(y)) /\ (Pushing(y)' <=> Pushing(y))
  BY <1>3, NothingStill, PlacesKept
<1>6. Popped(r)
  BY <1>0, <1>2 DEF Popped, At
<1>7. CASE claim[r] = NoWorker
  <2>1. worker'[w].at = "claimed" /\ worker'[w].run = r
    BY <1>0, <1>7, SlotMoves DEF TypeInv, ClaimRun
  <2>2. \A y \in Run : y # r => claim'[y] = claim[y]
    BY <1>0, <1>2, <1>7 DEF ClaimRun
  <2>3. Claimed(r)'
    BY <2>1 DEF Claimed, At
  <2>4. ASSUME NEW y \in Run PROVE JobAt(y)'
    <3>1. CASE y = r
      <4>1. runs[r].status # "absent"
        BY <1>0, <1>1, <1>2, <1>6 DEF JobAt
      <4>. QED
        BY <1>3, <2>3, <3>1, <4>1 DEF JobAt
    <3>2. CASE y # r
      <4>1. (Popped(y)' <=> Popped(y)) /\ (Claimed(y)' <=> Claimed(y))
        BY <1>0, <1>2, <1>4, <2>1, <3>2 DEF Popped, Claimed, At
      <4>. QED
        BY <1>1, <1>3, <1>5, <2>2, <3>2, <4>1 DEF JobAt
    <3>. QED
      BY <3>1, <3>2
  <2>. QED
    BY <1>1, <1>3, <2>4
<1>8. CASE claim[r] # NoWorker
  <2>1. worker'[w] = Idle /\ claim' = claim
    BY <1>0, <1>8, SlotMoves DEF TypeInv, ClaimRun
  <2>2. worker'[w].at = "idle"
    BY <2>1 DEF Idle
  <2>3. ASSUME NEW y \in Run PROVE JobAt(y)'
    <3>1. Claimed(y)' <=> Claimed(y)
      BY <1>2, <1>4, <2>2 DEF Claimed, At
    <3>2. (Popped(y)' => Popped(y)) /\ (Popped(y) => Popped(y)' \/ y = r)
      BY <1>0, <1>4, <2>2 DEF Popped, At
    <3>3. JobAt(y) /\ runs'[y] = runs[y] /\ claim'[y] = claim[y]
      BY <1>1, <1>3, <2>1
    <3>4. y = r => claim[y] # NoWorker
      BY <1>8
    <3>. QED
      BY <1>5, <3>1, <3>2, <3>3, <3>4 DEF JobAt
  <2>. QED
    BY <1>1, <1>3, <2>3
<1>. QED
  BY <1>7, <1>8

LEMMA TakeKeepsJobs == ASSUME TypeInv, JobInv, NEW w \in Worker, TakeRun(w) PROVE JobInv'
<1>. SUFFICES ASSUME NothingFailed' PROVE (\A v \in Worker : leaked'[v] = {}) /\ \A y \in Run : JobAt(y)'
  BY DEF JobInv
<1>1. (\A v \in Worker : leaked[v] = {}) /\ \A y \in Run : JobAt(y)
  BY DEF JobInv, NothingFailed, TakeRun
<1>0. PICK r \in Run : r = worker[w].run
  BY DEF TypeInv, BusySlot, TakeRun, At
<1>2. worker[w].at = "claimed" /\ runs \in [Run -> Row]
  BY DEF TypeInv, TypeOK, TakeRun, At
<1>3. UNCHANGED <<queue, claim, request, leaked>>
  BY DEF TakeRun, redis
<1>4. /\ worker'[w].at \notin JobPlaces
      /\ \A v \in Worker \ {w} : worker'[v] = worker[v]
  BY SlotMoves DEF TypeInv, TakeRun, JobPlaces
<1>5. ASSUME NEW y \in Run PROVE (InQueue(y)' <=> InQueue(y)) /\ (Pushing(y)' <=> Pushing(y))
  BY <1>3, NothingStill, PlacesKept
<1>6. Claimed(r)
  BY <1>0, <1>2 DEF Claimed, At
<1>7. Starting(r) \in Row /\ Starting(r).status = "starting"
  BY <1>2, RowTypes, RowFields
<1>8. \A y \in Run : runs'[y] = IF y = r /\ runs[r].status \in ClaimFrom THEN Starting(r) ELSE runs[y]
  BY <1>0, <1>2, <1>7, TransitionEffect DEF TakeRun
<1>9. runs'[r].status \notin {"absent", "queued"}
  BY <1>1, <1>2, <1>6, <1>7, <1>8 DEF JobAt, ClaimFrom
<1>10. ASSUME NEW y \in Run PROVE JobAt(y)'
  <2>1. CASE y = r
    BY <1>9, <2>1 DEF JobAt
  <2>2. CASE y # r
    <3>1. (Popped(y)' <=> Popped(y)) /\ (Claimed(y)' <=> Claimed(y))
      BY <1>0, <1>4, <2>2 DEF Popped, Claimed, At, JobPlaces
    <3>. QED
      BY <1>1, <1>3, <1>5, <1>8, <2>2, <3>1 DEF JobAt
  <2>. QED
    BY <2>1, <2>2
<1>. QED
  BY <1>1, <1>3, <1>10

LEMMA FinishStill ==
  ASSUME TypeInv, NEW w \in Worker, NEW code, worker[w].at = "waiting", FinishWith(w, code)
  PROVE  Still
<1> DEFINE r == worker[w].run
           s == [worker[w] EXCEPT !.at = "ended", !.verdict = Verdict(w, code)]
<1>1. r \in Run /\ runs \in [Run -> Row] /\ worker[w] \in Slot
  BY BusyIsTyped DEF TypeInv, TypeOK, BusySlot
<1>2. Verdict(w, code) \in Terminal
  BY DEF Verdict, Terminal
<1>3. /\ Exited(r, Verdict(w, code)) \in Row
      /\ Exited(r, Verdict(w, code)).status = Verdict(w, code)
  BY <1>1, <1>2, RowTypes, RowFields
<1>4. Verdict(w, code) \notin NotTaken
  BY <1>2 DEF Terminal, NotTaken
<1>5. RowsStill
  BY <1>1, <1>3, <1>4, TransitionStill DEF FinishWith
<1>6. s.at \notin JobPlaces
  BY <1>1 DEF Slot, JobPlaces
<1>7. Become(w, s)
  BY DEF FinishWith
<1>. HIDE DEF s
<1>8. SlotsStill
  BY <1>6, <1>7, MoveStill DEF JobPlaces
<1>. QED
  BY <1>5, <1>8, NothingStill DEF FinishWith, redis, Still

(* No other step of a slot has to do with a job that waits.                *)
LEMMA WorkerJobs ==
  ASSUME TypeInv, JobInv, NEW w \in Worker, WorkerStep(w)
  PROVE  JobInv'
<1> DEFINE r == worker[w].run
<1>a. /\ runs \in [Run -> Row] /\ worker[w] \in Slot
      /\ worker[w].at \notin {"idle", "down"} => r \in Run
  BY BusyIsTyped DEF TypeInv, TypeOK, BusySlot
<1>b. NotTaken = {"absent", "queued"} /\ "aborted" \in Terminal /\ "failed" \in Terminal
  BY DEF NotTaken, Terminal
<1>c. ASSUME Still PROVE JobInv'
  BY <1>c, StillKeepsJobs
<1>d. JobPlaces = {"popped", "claimed"}
  BY DEF JobPlaces
<1>1. ASSUME Pop(w) \/ ClaimRun(w) \/ TakeRun(w) PROVE JobInv'
  BY <1>1, PopKeepsJobs, ClaimKeepsJobs, TakeKeepsJobs
<1>2. ASSUME Connect(w) PROVE Still
  <2>1. SlotsStill
    BY <1>2, <1>d, MoveStill DEF Connect, At
  <2>. QED
    BY <1>2, <2>1, NothingStill DEF Connect, store, redis, Still
<1>3. ASSUME Inspect(w) PROVE Still
  <2>1. SlotsStill
    BY <1>3, <1>d, MoveStill DEF Inspect, At
  <2>. QED
    BY <1>3, <2>1, NothingStill DEF Inspect, store, redis, Still
<1>4. ASSUME CheckStop(w) PROVE Still
  <2>1. SlotsStill
    BY <1>4, <1>d, MoveStill DEF CheckStop, At
  <2>. QED
    BY <1>4, <2>1, NothingStill DEF CheckStop, redis, Still
<1>5. ASSUME AbandonStart(w) PROVE Still
  <2> DEFINE s == [worker[w] EXCEPT !.at = "abandoned", !.verdict = "aborted"]
  <2>1. s.at \notin JobPlaces /\ worker[w].at = "stopped" /\ Become(w, s)
    BY <1>5, <1>a, <1>d DEF Slot, AbandonStart, At
  <2>. HIDE DEF s
  <2>2. SlotsStill
    BY <1>d, <2>1, MoveStill
  <2>3. Ended(r, "aborted", "other") \in Row /\ Ended(r, "aborted", "other").status = "aborted"
    BY <1>a, <1>b, <2>1, RowTypes, RowFields
  <2>4. RowsStill
    BY <1>5, <1>a, <1>b, <2>1, <2>3, TransitionStill DEF AbandonStart
  <2>. QED
    BY <1>5, <2>2, <2>4, NothingStill DEF AbandonStart, redis, Still
<1>6. ASSUME StartScript(w) PROVE Still
  <2>1. SlotsStill
    BY <1>6, <1>d, MoveStill DEF StartScript, At
  <2>. QED
    BY <1>6, <2>1, NothingStill DEF StartScript, store, redis, Still
<1>7. ASSUME Attach(w) PROVE Still
  <2> DEFINE s == [worker[w] EXCEPT !.at = "attached", !.ears = "pending"]
  <2>1. s.at \notin JobPlaces /\ worker[w].at = "opened" /\ Become(w, s)
    BY <1>7, <1>a, <1>d DEF Slot, Attach, At
  <2>. HIDE DEF s
  <2>2. SlotsStill
    BY <1>d, <2>1, MoveStill
  <2>. QED
    BY <1>7, <2>2, NothingStill DEF Attach, store, redis, Still
<1>8. ASSUME MarkRunning(w) PROVE Still
  <2>1. SlotsStill /\ r \in Run
    BY <1>8, <1>a, <1>d, MoveStill DEF MarkRunning, At
  <2>2. Running(r) \in Row /\ Running(r).status = "running"
    BY <1>a, <2>1, RowTypes, RowFields
  <2>3. RowsStill
    BY <1>8, <1>a, <1>b, <2>1, <2>2, TransitionStill DEF MarkRunning
  <2>. QED
    BY <1>8, <2>1, <2>3, NothingStill DEF MarkRunning, redis, Still
<1>9. ASSUME RecheckStop(w) PROVE Still
  <2> DEFINE s == [worker[w] EXCEPT !.at = "waiting",
                     !.stop = IF runs[worker[w].run].asked THEN RequestAbort(w) ELSE @]
  <2>1. s.at \notin JobPlaces /\ worker[w].at = "marked" /\ Become(w, s)
    BY <1>9, <1>a, <1>d DEF Slot, RecheckStop, At
  <2>. HIDE DEF s
  <2>2. SlotsStill
    BY <1>d, <2>1, MoveStill
  <2>. QED
    BY <1>9, <2>2, NothingStill DEF RecheckStop, store, redis, Still
<1>10. ASSUME Finish(w) PROVE Still
  BY <1>10, FinishStill DEF Finish, At
<1>11. ASSUME RecordOutcome(w) PROVE Still
  <2>1. SlotsStill
    BY <1>11, <1>d, MoveStill DEF RecordOutcome, At
  <2>. QED
    BY <1>11, <2>1, NothingStill DEF RecordOutcome, redis, Still
<1>12. ASSUME Collect(w) PROVE Still
  <2> DEFINE s == [worker[w] EXCEPT !.at = "release", !.ears = "off", !.inbox = FALSE]
             counted == [runs[r] EXCEPT !.collected = "counted"]
             ended   == [runs[r] EXCEPT !.collected = IF @ = "counted" THEN @ ELSE "ended"]
  <2>1. s.at \notin JobPlaces /\ worker[w].at = "recorded" /\ Become(w, s) /\ r \in Run
    BY <1>12, <1>a, <1>d DEF Slot, Collect, At
  <2>2. /\ counted \in Row /\ counted.status = runs[r].status
        /\ ended \in Row /\ ended.status = runs[r].status
    BY <1>a, <2>1, RowEdits, SmallEdits, EndedEdit
  <2>3. Write(r, counted) \/ Write(r, ended)
    BY <1>12 DEF Collect, MarkCollected, MarkCollectionEnded
  <2>. HIDE DEF s, counted, ended
  <2>4. SlotsStill /\ RowsStill
    BY <1>a, <1>d, <2>1, <2>2, <2>3, MoveStill, WriteStill
  <2>. QED
    BY <1>12, <2>4, NothingStill DEF Collect, redis, Still
<1>13. ASSUME Release(w) PROVE Still
  <2>1. SlotsStill
    BY <1>13, <1>d, MoveStill DEF Release, At, Idle
  <2>2. ClaimsStill
    BY <1>13, <1>a DEF Release, At, ClaimsStill, TypeInv, TypeOK
  <2>. QED
    BY <1>13, <2>1, <2>2, NothingStill DEF Release, store, Still
<1>14. ASSUME FailRun(w) PROVE Still
  <2>1. SlotsStill /\ r \in Run
    BY <1>14, <1>a, <1>d, MoveStill DEF FailRun, At
  <2>2. Ended(r, "failed", "other") \in Row /\ Ended(r, "failed", "other").status = "failed"
    BY <1>a, <1>b, <2>1, RowTypes, RowFields
  <2>3. RowsStill
    BY <1>14, <1>a, <1>b, <2>1, <2>2, TransitionStill DEF FailRun
  <2>. QED
    BY <1>14, <2>1, <2>3, NothingStill DEF FailRun, redis, Still
<1>15. ASSUME RecordFailure(w) PROVE Still
  <2>1. SlotsStill
    BY <1>15, <1>d, MoveStill DEF RecordFailure, At
  <2>. QED
    BY <1>15, <2>1, NothingStill DEF RecordFailure, redis, Still
<1>. QED
  BY <1>c, <1>1, <1>2, <1>3, <1>4, <1>5, <1>6, <1>7, <1>8, <1>9, <1>10, <1>11, <1>12, <1>13,
     <1>14, <1>15 DEF WorkerStep

(* A claim is renewed for a run that was taken, and every other step beside *)
(* a slot's own is still or a failure.                                      *)
LEMMA BesideJobs ==
  ASSUME TypeInv, RecordInv, JobInv, NEW w \in Worker, Beside(w)
  PROVE  JobInv'
<1>a. worker[w] \in Slot
  BY BusyIsTyped DEF TypeInv, TypeOK
<1>b. JobPlaces = {"popped", "claimed"}
  BY DEF JobPlaces
<1>c. ASSUME Still PROVE JobInv'
  BY <1>c, StillKeepsJobs
<1>1. ASSUME Subscribed(w) PROVE Still
  <2>1. SlotsStill
    BY <1>1, <1>a, StayStill DEF Subscribed, Slot
  <2>. QED
    BY <1>1, <2>1, NothingStill DEF Subscribed, store, redis, Still
<1>2. ASSUME HearStop(w) PROVE Still
  <2>1. SlotsStill
    BY <1>2, <1>a, StayStill DEF HearStop, Slot
  <2>. QED
    BY <1>2, <2>1, NothingStill DEF HearStop, store, redis, Still
<1>3. ASSUME SendSignal(w) PROVE Still
  <2>1. SlotsStill
    BY <1>3, <1>a, StayStill DEF SendSignal, Slot
  <2>. QED
    BY <1>3, <2>1, NothingStill DEF SendSignal, store, redis, Still
<1>4. ASSUME SignalSent(w) PROVE Still
  <2>1. SlotsStill
    BY <1>4, <1>a, StayStill DEF SignalSent, Slot
  <2>. QED
    BY <1>4, <2>1, NothingStill DEF SignalSent, store, redis, Still
<1>5. ASSUME LoseConnection(w) PROVE Still
  BY <1>5, FinishStill DEF LoseConnection, At
<1>6. ASSUME Throw(w) \/ LoseJob(w) \/ CheckBlind(w) \/ Crash(w) PROVE JobInv'
  BY <1>6, FailureEndsIt DEF Throw, LoseJob, CheckBlind, Crash
<1>7. ASSUME Restart(w) PROVE Still
  <2>1. SlotsStill
    BY <1>7, <1>b, MoveStill DEF Restart, At
  <2>. QED
    BY <1>7, <2>1, NothingStill DEF Restart, store, redis, Still
<1>8. ASSUME NEW r \in Run, RenewClaim(w, r) PROVE JobInv'
  <2>. SUFFICES ASSUME NothingFailed' PROVE (\A v \in Worker : leaked'[v] = {}) /\ \A y \in Run : JobAt(y)'
    BY DEF JobInv
  <2>1. (\A v \in Worker : leaked[v] = {}) /\ \A y \in Run : JobAt(y)
    BY <1>8 DEF JobInv, NothingFailed, RenewClaim
  <2>2. UNCHANGED <<runs, queue, worker, leaked, request>> /\ claim' = [claim EXCEPT ![r] = w]
    BY <1>8 DEF RenewClaim, store
  <2>3. worker[w].run = r /\ worker[w].at \in Driving \cup Collecting
    BY <1>8, <2>1 DEF RenewClaim, Renewing, Driving
  <2>4. runs[r].status \notin {"absent", "queued"}
    BY <2>3 DEF RecordInv, SlotAgrees, Took, Terminated, Terminal
  <2>5. ASSUME NEW y \in Run PROVE JobAt(y)'
    <3>1. /\ InQueue(y)' <=> InQueue(y)
          /\ Pushing(y)' <=> Pushing(y)
          /\ Popped(y)' <=> Popped(y)
          /\ Claimed(y)' <=> Claimed(y)
      BY <2>2, NothingStill, PlacesKept
    <3>2. runs'[y] = runs[y] /\ (y # r => claim'[y] = claim[y])
      BY <2>2 DEF TypeInv, TypeOK
    <3>. QED
      BY <2>1, <2>4, <3>1, <3>2 DEF JobAt
  <2>. QED
    BY <2>1, <2>2, <2>5
<1>. QED
  BY <1>c, <1>1, <1>2, <1>3, <1>4, <1>5, <1>6, <1>7, <1>8 DEF Beside

(* Time passes, claims lapse; a job is delivered again of a run there is.  *)
LEMMA SurroundingJobs ==
  ASSUME TypeInv, JobInv, Surroundings
  PROVE  JobInv'
<1>a. runs \in [Run -> Row] /\ queue \in Seq(Run)
  BY DEF TypeInv, TypeOK
<1>c. ASSUME Still PROVE JobInv'
  BY <1>c, StillKeepsJobs
<1>1. ASSUME NEW r \in Run, ScriptEnds(r) PROVE Still
  BY <1>1, NothingStill DEF ScriptEnds, store, redis, Still
<1>2. ASSUME NEW r \in Run, ExpireClaim(r) PROVE Still
  <2>1. ClaimsStill
    BY <1>2 DEF ExpireClaim, ClaimsStill, TypeInv, TypeOK
  <2>. QED
    BY <1>2, <2>1, NothingStill DEF ExpireClaim, store, Still
<1>3. ASSUME NEW r \in Run, NEW s \in Stamp, GrowOld(r, s) PROVE Still
  <2> DEFINE new == [runs[r] EXCEPT !.age[s] = "old"]
  <2>1. new \in Row /\ new.status = runs[r].status /\ Write(r, new)
    BY <1>3, <1>a, RowEdits, SmallEdits DEF GrowOld
  <2>. HIDE DEF new
  <2>2. RowsStill
    BY <1>a, <2>1, WriteStill
  <2>. QED
    BY <1>3, <2>2, NothingStill DEF GrowOld, redis, Still
<1>4. ASSUME NEW r \in Run, Requeue(r) PROVE JobInv'
  <2>. SUFFICES ASSUME NothingFailed' PROVE (\A v \in Worker : leaked'[v] = {}) /\ \A y \in Run : JobAt(y)'
    BY DEF JobInv
  <2>1. spent'.faults = spent.faults /\ spent'.crashes = spent.crashes
    BY <1>4 DEF Requeue, Spend, TypeInv, TypeOK
  <2>2. (\A v \in Worker : leaked[v] = {}) /\ \A y \in Run : JobAt(y)
    BY <2>1 DEF JobInv, NothingFailed
  <2>3. UNCHANGED <<runs, claim, worker, leaked, request>> /\ queue' = Append(queue, r)
    BY <1>4 DEF Requeue, store
  <2>4. /\ Len(queue') = Len(queue) + 1 /\ Len(queue) \in Nat /\ queue'[Len(queue) + 1] = r
        /\ \A i \in 1..Len(queue) : queue'[i] = queue[i]
    BY <1>a, <2>3
  <2>5. runs[r].status # "absent"
    BY <1>4 DEF Requeue
  <2>6. ASSUME NEW y \in Run PROVE JobAt(y)'
    <3>1. InQueue(y)' <=> InQueue(y) \/ y = r
      BY <2>4 DEF InQueue
    <3>2. /\ Pushing(y)' <=> Pushing(y)
          /\ Popped(y)' <=> Popped(y)
          /\ Claimed(y)' <=> Claimed(y)
      BY <2>3, NothingStill, PlacesKept
    <3>3. JobAt(y) /\ runs'[y] = runs[y] /\ claim'[y] = claim[y]
      BY <2>2, <2>3
    <3>. QED
      BY <2>5, <3>1, <3>2, <3>3 DEF JobAt
  <2>. QED
    BY <2>2, <2>3, <2>6
<1>. QED
  BY <1>c, <1>1, <1>2, <1>3, <1>4 DEF Surroundings

LEMMA JobInit == Init => JobInv
<1>. SUFFICES ASSUME Init PROVE JobInv
  OBVIOUS
<1>1. ASSUME NEW r \in Run PROVE JobAt(r)
  <2>1. runs[r].status = "absent" /\ claim[r] = NoWorker
    BY DEF Init, NoRow
  <2>2. ~InQueue(r) /\ ~Pushing(r) /\ ~Popped(r) /\ ~Claimed(r)
    BY DEF Init, InQueue, Pushing, RequestIs, Quiet, Popped, Claimed, At, Idle
  <2>. QED
    BY <2>1, <2>2 DEF JobAt
<1>2. \A w \in Worker : leaked[w] = {}
  BY DEF Init
<1>. QED
  BY <1>1, <1>2 DEF JobInv

LEMMA JobStep == TypeInv /\ RecordInv /\ JobInv /\ [Next]_vars => JobInv'
<1>1. ASSUME JobInv, UNCHANGED vars PROVE JobInv'
  <2>1. Still
    BY <1>1, NothingStill DEF vars, store, redis, Still
  <2>. QED
    BY <1>1, <2>1, StillKeepsJobs
<1>. QED
  BY <1>1, RequestJobs, WorkerJobs, BesideJobs, SurroundingJobs DEF Next

(* Until something throws or dies, a run that is queued has its job: in    *)
(* the list, with the request that pushes it or with a slot that takes it, *)
(* however often it is delivered and whatever claims lapse (consumer.ts 55 *)
(* and 74-92, runService.ts 78).                                           *)
THEOREM QueuedRunsHaveJobs == Spec => []QueuedHasItsJob
<1>1. JobInv => QueuedHasItsJob
  BY DEF JobInv, JobAt, QueuedHasItsJob
<1>2. Spec => []RecordInv
  BY RecordInit, RecordStep, TypeInvariant, PTL DEF Spec
<1>. QED
  BY <1>1, <1>2, JobInit, JobStep, TypeInvariant, PTL DEF Spec

-----------------------------------------------------------------------------
\* The escalation
\*
\* What StagedAbort promises for every number of clicks and failures, in
\* whichever order the channels close.  Its constants and variables are those
\* of one running script, beside those of RunLifecycle; the variables that its
\* promises are about come with StopPromise.

CONSTANTS Patient, MaxClicks, MaxLost
VARIABLES process, kill, escalation, outcome, trail, clicks, lost

Abort == INSTANCE StagedAbort

(* What StagedAbort assumes of the stages with a grace period.             *)
Staged == Patient \subseteq Abort!Stage \ {3}

(* The escalation has sent exactly the stages up to its own.               *)
EscalationAt == {"idle", "sending", "reporting", "marking", "pausing", "over"}
EscalationOK == escalation \in [at : EscalationAt, stage : 0..3, reached : 0..3]
StageFits    == /\ Abort!At("idle") <=> escalation.stage = 0
                /\ Abort!At("pausing") => escalation.stage \in Patient
SentSoFar    == sent = [i \in 1..escalation.stage |-> i]
OrderInv     == EscalationOK /\ StageFits /\ SentSoFar

LEMMA SendsStage ==
  ASSUME EscalationOK, SentSoFar, NEW stage \in Abort!Stage, escalation.stage = stage - 1, Abort!Send(stage)
  PROVE  OrderInv'
<1>1. escalation' \in [at : EscalationAt, stage : 0..3, reached : 0..3]
  <2>1. escalation \in [at : EscalationAt, stage : 0..3, reached : 0..3]
    BY DEF EscalationOK
  <2>2. "sending" \in EscalationAt /\ stage \in 0..3
    BY DEF EscalationAt, Abort!Stage
  <2>3. escalation' = [escalation EXCEPT !.at = "sending", !.stage = stage]
    BY DEF Abort!Send
  <2>. QED
    BY <2>1, <2>2, <2>3
<1>2. escalation'.at = "sending" /\ escalation'.stage = stage /\ stage # 0
  BY DEF EscalationOK, Abort!Send, Abort!Stage
<1>3. sent = [i \in 1..(stage - 1) |-> i] /\ sent' = Append(sent, stage) /\ stage \in 1..3
  BY DEF SentSoFar, Abort!Send, Abort!Stage
<1>4. sent' = [i \in 1..stage |-> i]
  BY <1>3
<1>. QED
  BY <1>1, <1>2, <1>4 DEF OrderInv, EscalationOK, StageFits, SentSoFar, Abort!At

LEMMA FirstStage == ASSUME OrderInv, Abort!At("idle"), Abort!Send(1) PROVE OrderInv'
<1>1. escalation.stage = 1 - 1
  BY DEF OrderInv, StageFits
<1>. QED
  BY <1>1, SendsStage DEF OrderInv, Abort!Stage

LEMMA NextStage ==
  ASSUME Staged, OrderInv, Abort!At("pausing"), Abort!Send(escalation.stage + 1) PROVE OrderInv'
<1>1. escalation.stage + 1 \in Abort!Stage /\ escalation.stage = (escalation.stage + 1) - 1
  BY DEF Staged, OrderInv, EscalationOK, StageFits, Abort!Stage
<1>. QED
  BY <1>1, SendsStage DEF OrderInv

(* Everything but a command keeps to the stage.                            *)
LEMMA SameStage ==
  ASSUME OrderInv, UNCHANGED sent, ~Abort!At("idle"),
         NEW where \in {"reporting", "marking", "over"},
         \/ Abort!Move(where)
         \/ escalation' = [escalation EXCEPT !.at = where, !.reached = escalation.stage]
         \/ Abort!Rest(escalation.stage)
  PROVE  OrderInv'
<1>1. escalation' \in [at : EscalationAt, stage : 0..3, reached : 0..3]
  BY DEF OrderInv, EscalationOK, EscalationAt, Abort!Move, Abort!Rest
<1>2. /\ escalation'.stage = escalation.stage
      /\ escalation'.at # "idle"
      /\ escalation'.at = "pausing" => escalation.stage \in Patient
  BY DEF OrderInv, EscalationOK, EscalationAt, Abort!Move, Abort!Rest
<1>3. escalation'.stage # 0
  BY <1>2 DEF OrderInv, StageFits
<1>. QED
  BY <1>1, <1>2, <1>3 DEF OrderInv, EscalationOK, StageFits, SentSoFar, Abort!At

LEMMA NoStage == ASSUME OrderInv, UNCHANGED <<escalation, sent>> PROVE OrderInv'
  BY DEF OrderInv, EscalationOK, StageFits, SentSoFar, Abort!At

LEMMA OrderStep == Staged /\ OrderInv /\ [Abort!Next]_(Abort!vars) => OrderInv'
<1>. SUFFICES ASSUME Staged, OrderInv, [Abort!Next]_(Abort!vars) PROVE OrderInv'
  OBVIOUS
<1>1. CASE Abort!Click
  <2>1. CASE Abort!ExitIsKnown \/ ~Abort!At("idle")
    BY <1>1, <2>1, NoStage DEF Abort!Click, Abort!Request
  <2>2. CASE ~(Abort!ExitIsKnown \/ ~Abort!At("idle"))
    BY <1>1, <2>2, FirstStage DEF Abort!Click, Abort!Request
  <2>. QED
    BY <2>1, <2>2
<1>2. CASE Abort!SignalSent
  BY <1>2, SameStage DEF Abort!SignalSent, Abort!At
<1>3. CASE Abort!ReportStage
  BY <1>3, SameStage DEF Abort!ReportStage, Abort!At
<1>4. CASE Abort!MarkStage
  BY <1>4, SameStage DEF Abort!MarkStage, Abort!At
<1>5. CASE Abort!GraceEnds
  <2>1. CASE Abort!ExitIsKnown
    BY <1>5, <2>1, SameStage DEF Abort!GraceEnds, Abort!At
  <2>2. CASE ~Abort!ExitIsKnown
    BY <1>5, <2>2, NextStage DEF Abort!GraceEnds
  <2>. QED
    BY <2>1, <2>2
<1>6. CASE Abort!SignalFails
  BY <1>6, SameStage DEF Abort!SignalFails, Abort!At
<1>7. CASE Abort!ReportFails
  BY <1>7, SameStage DEF Abort!ReportFails, Abort!At, Abort!book
<1>8. CASE Abort!Drive
  BY <1>8, NoStage DEF Abort!Drive, Abort!Finish, Abort!RecordOutcome, Abort!WindUp
<1>9. CASE Abort!Strike \/ Abort!ScriptEnds \/ Abort!CloseTerminal \/ Abort!LoseConnection
  BY <1>9, NoStage DEF Abort!Strike, Abort!ScriptEnds, Abort!CloseTerminal, Abort!LoseConnection
<1>10. CASE UNCHANGED Abort!vars
  BY <1>10, NoStage DEF Abort!vars
<1>. QED
  BY <1>1, <1>2, <1>3, <1>4, <1>5, <1>6, <1>7, <1>8, <1>9, <1>10 DEF Abort!Next, Abort!Escalate

LEMMA OrderStart == Abort!Init => OrderInv
  BY DEF Abort!Init, OrderInv, EscalationOK, EscalationAt, StageFits, SentSoFar, Abort!At

(* Each stage is sent at most once and in order, for any number of clicks, *)
(* lost signals and lost connections (StagedAbort.request and escalate).   *)
THEOREM EscalatesInOrder == Staged => (Abort!Spec => []StagesInOrder)
<1>. SUFFICES ASSUME Staged PROVE Abort!Spec => []StagesInOrder
  OBVIOUS
<1>1. OrderInv => StagesInOrder
  BY DEF OrderInv, EscalationOK, SentSoFar, StagesInOrder
<1>2. OrderInv /\ [Abort!Next]_(Abort!vars) => OrderInv'
  BY OrderStep
<1>. QED
  BY <1>1, <1>2, OrderStart, PTL DEF Abort!Spec

-----------------------------------------------------------------------------

(* A signal that found the script is answered for, or it is the only one   *)
(* that did, and its kill has run and is not answered for yet.  When the   *)
(* terminal then tells of the end, that kill is the one it overtook.       *)
StruckInv ==
  /\ struck # {} /\ escalation.reached = 0 => kill = "run" /\ struck = {escalation.stage}
  /\ kill \in {"none", "sent", "run"} /\ (kill # "none" => Abort!At("sending"))
  /\ Abort!At("sending") => escalation.stage # 0
  /\ process \in Abort!Ending \cup {"alive"} /\ exit \in Abort!Ending \cup {"open", "lost"}
  /\ row \in Abort!Mark
  /\ exit \in Abort!Ending =>
       process # "alive" /\ (struck # {} /\ escalation.reached = 0 => struck = {overtaken})
  /\ drive # "waiting" => exit # "open"
  /\ StoppedIsAborted

LEMMA StruckStart == Abort!Init => StruckInv
  BY DEF Abort!Init, StruckInv, StoppedIsAborted, Abort!At, Abort!Ending, Abort!Mark, Abort!NoRecord

LEMMA StruckStep ==
  OrderInv /\ StruckInv /\ [Abort!Next]_(Abort!vars) => StruckInv'
<1>. SUFFICES ASSUME OrderInv, StruckInv, [Abort!Next]_(Abort!vars) PROVE StruckInv'
  OBVIOUS
<1>. USE DEF StruckInv, StoppedIsAborted, Abort!At, Abort!ExitIsKnown, Abort!book, Abort!vm, Abort!known
<1>1. CASE Abort!Click
  <2>1. CASE UNCHANGED <<escalation, kill>>
    BY <1>1, <2>1 DEF Abort!Click
  <2>2. CASE Abort!At("idle") /\ Abort!Send(1)
    <3>1. kill = "none"
      BY <2>2
    <3>. QED
      BY <1>1, <2>2, <3>1 DEF Abort!Click, Abort!Send, OrderInv, EscalationOK
  <2>. QED
    BY <1>1, <2>1, <2>2 DEF Abort!Click, Abort!Request
<1>2. CASE Abort!SignalSent
  BY <1>2 DEF Abort!SignalSent, OrderInv, EscalationOK
<1>3. CASE Abort!ReportStage
  BY <1>3 DEF Abort!ReportStage, Abort!Move, OrderInv, EscalationOK
<1>4. CASE Abort!MarkStage
  BY <1>4 DEF Abort!MarkStage, Abort!Rest, Abort!Move, OrderInv, EscalationOK, Abort!Mark
<1>5. CASE Abort!GraceEnds
  <2>1. escalation.stage + 1 # 0 /\ kill # "run"
    BY <1>5 DEF OrderInv, EscalationOK, Abort!GraceEnds
  <2>2. CASE Abort!Move("over") /\ UNCHANGED kill
    BY <1>5, <2>1, <2>2 DEF Abort!GraceEnds, Abort!Move, OrderInv, EscalationOK
  <2>3. CASE Abort!Send(escalation.stage + 1)
    BY <1>5, <2>1, <2>3 DEF Abort!GraceEnds, Abort!Send, OrderInv, EscalationOK
  <2>. QED
    BY <1>5, <2>2, <2>3 DEF Abort!GraceEnds
<1>6. CASE Abort!SignalFails
  BY <1>6 DEF Abort!SignalFails, Abort!Rest, Abort!Move, OrderInv, EscalationOK
<1>7. CASE Abort!ReportFails
  BY <1>7 DEF Abort!ReportFails, Abort!Rest, Abort!Move, OrderInv, EscalationOK
<1>8. CASE Abort!Finish
  BY <1>8 DEF Abort!Finish, Abort!Verdict, Abort!Ending, Abort!Mark, Abort!Terminal, OrderInv, EscalationOK
<1>9. CASE Abort!RecordOutcome \/ Abort!WindUp
  BY <1>9 DEF Abort!RecordOutcome, Abort!WindUp
<1>10. CASE Abort!Strike
  BY <1>10 DEF Abort!Strike, Abort!Ending
<1>11. CASE Abort!ScriptEnds
  BY <1>11 DEF Abort!ScriptEnds, Abort!Ending
<1>12. CASE Abort!CloseTerminal
  BY <1>12 DEF Abort!CloseTerminal
<1>13. CASE Abort!LoseConnection
  BY <1>13 DEF Abort!LoseConnection, Abort!Ending
<1>14. CASE UNCHANGED Abort!vars
  BY <1>14 DEF Abort!vars
<1>. QED
  BY <1>1, <1>2, <1>3, <1>4, <1>5, <1>6, <1>7, <1>8, <1>9, <1>10, <1>11, <1>12, <1>13, <1>14
  DEF Abort!Next, Abort!Escalate, Abort!Drive

(* A run that was stopped is on record as aborted, in whichever order its  *)
(* channels close; unless one signal alone found the script, and the       *)
(* terminal closed before that signal's own channel did                    *)
(* (StagedAbort.wasSignalled, drive).                                      *)
THEOREM StopIsOnRecord == Staged => (Abort!Spec => []StoppedIsAborted)
<1>. SUFFICES ASSUME Staged PROVE Abort!Spec => []StoppedIsAborted
  OBVIOUS
<1>1. Abort!Init => OrderInv /\ StruckInv
  BY OrderStart, StruckStart
<1>2. (OrderInv /\ StruckInv) /\ [Abort!Next]_(Abort!vars) => (OrderInv /\ StruckInv)'
  BY OrderStep, StruckStep
<1>3. OrderInv /\ StruckInv => StoppedIsAborted
  BY DEF StruckInv
<1>. QED
  BY <1>1, <1>2, <1>3, PTL DEF Abort!Spec

(* No command leaves once the worker knows that the script is gone: every  *)
(* place that sends one looks first (abort.ts 79-81 and 98-101).           *)
THEOREM NoLateSignal == Abort!Spec => NothingIsSentAfterTheEnd
<1>1. [Abort!Next]_(Abort!vars) => [~ExitIsKnown]_sent
  <2>. SUFFICES ASSUME [Abort!Next]_(Abort!vars), Abort!ExitIsKnown PROVE UNCHANGED sent
    BY DEF ExitIsKnown, Abort!ExitIsKnown
  <2>1. CASE Abort!Click
    BY <2>1 DEF Abort!Click, Abort!Request
  <2>2. CASE Abort!Escalate
    BY <2>2 DEF Abort!Escalate, Abort!SignalSent, Abort!ReportStage, Abort!MarkStage, Abort!GraceEnds
  <2>3. CASE Abort!Drive
    BY <2>3 DEF Abort!Drive, Abort!Finish, Abort!RecordOutcome, Abort!WindUp
  <2>4. CASE \/ Abort!Strike \/ Abort!ScriptEnds \/ Abort!CloseTerminal
             \/ Abort!SignalFails \/ Abort!ReportFails \/ Abort!LoseConnection
    BY <2>4 DEF Abort!Strike, Abort!ScriptEnds, Abort!CloseTerminal, Abort!SignalFails, Abort!ReportFails, Abort!LoseConnection
  <2>5. CASE UNCHANGED Abort!vars
    BY <2>5 DEF Abort!vars
  <2>. QED
    BY <2>1, <2>2, <2>3, <2>4, <2>5 DEF Abort!Next
<1>. QED
  BY <1>1, PTL DEF Abort!Spec, NothingIsSentAfterTheEnd

-----------------------------------------------------------------------------
\* Types

(* What OrderInv leaves open; a command that is under way has a stage.     *)
RestOK ==
  /\ process \in Abort!Ending \cup {"alive"} /\ struck \subseteq Abort!Stage
  /\ exit \in Abort!Ending \cup {"open", "lost"} /\ overtaken \in 0..3
  /\ kill \in {"none", "sent", "run"} /\ (kill # "none" => Abort!At("sending"))
  /\ drive \in {"waiting", "ended", "recorded", "over"}
  /\ row \in Abort!Mark /\ outcome \in Abort!Mark /\ trail \subseteq Abort!Stage
  /\ clicks \in Nat /\ lost \in Nat

LEMMA RestStart == Abort!Init => RestOK
  BY DEF Abort!Init, RestOK, Abort!Ending, Abort!Mark, Abort!NoRecord

LEMMA OnAStage == ASSUME OrderInv, ~Abort!At("idle") PROVE escalation.stage \in Abort!Stage
  BY DEF OrderInv, EscalationOK, StageFits, Abort!Stage

LEMMA RestStep == OrderInv /\ RestOK /\ [Abort!Next]_(Abort!vars) => RestOK'
<1>. SUFFICES ASSUME OrderInv, RestOK, [Abort!Next]_(Abort!vars) PROVE RestOK'
  OBVIOUS
<1>. USE DEF RestOK, Abort!At, Abort!book, Abort!vm, Abort!known
<1>0. escalation \in [at : EscalationAt, stage : 0..3, reached : 0..3]
  BY DEF OrderInv, EscalationOK
<1>1. CASE Abort!Click
  <2>1. UNCHANGED <<escalation, kill>> \/ (kill' = "sent" /\ escalation'.at = "sending")
    BY <1>0, <1>1 DEF Abort!Click, Abort!Request, Abort!Send
  <2>2. clicks' \in Nat /\ UNCHANGED <<Abort!vm, Abort!known, drive, Abort!book, lost>>
    BY <1>1 DEF Abort!Click
  <2>. QED
    BY <2>1, <2>2
<1>2. CASE Abort!SignalSent \/ Abort!GraceEnds
  BY <1>0, <1>2 DEF Abort!SignalSent, Abort!GraceEnds, Abort!Send, Abort!Move
<1>3. CASE Abort!ReportStage
  BY <1>0, <1>3, OnAStage DEF Abort!ReportStage, Abort!Tell, Abort!Move
<1>4. CASE Abort!MarkStage
  BY <1>0, <1>4 DEF Abort!MarkStage, Abort!Rest, Abort!Move, Abort!Mark
<1>5. CASE Abort!SignalFails \/ Abort!ReportFails
  BY <1>0, <1>5 DEF Abort!SignalFails, Abort!ReportFails, Abort!Rest, Abort!Move, Abort!MayLose
<1>6. CASE Abort!Finish
  <2>1. Abort!Verdict \in Abort!Terminal
    BY DEF Abort!Verdict, Abort!Terminal
  <2>. QED
    BY <1>0, <1>6, <2>1 DEF Abort!Finish, Abort!Mark
<1>7. CASE Abort!RecordOutcome
  BY <1>0, <1>7 DEF Abort!RecordOutcome, Abort!Mark
<1>8. CASE Abort!WindUp
  BY <1>8 DEF Abort!WindUp
<1>9. CASE Abort!Strike
  BY <1>9, OnAStage DEF Abort!Strike, Abort!Ending
<1>10. CASE Abort!ScriptEnds \/ Abort!CloseTerminal \/ Abort!LoseConnection
  BY <1>0, <1>10 DEF Abort!ScriptEnds, Abort!CloseTerminal, Abort!LoseConnection, Abort!Ending, Abort!MayLose
<1>11. CASE UNCHANGED Abort!vars
  BY <1>11 DEF Abort!vars
<1>. QED
  BY <1>1, <1>2, <1>3, <1>4, <1>5, <1>6, <1>7, <1>8, <1>9, <1>10, <1>11
  DEF Abort!Next, Abort!Escalate, Abort!Drive

(* Every variable keeps its type, and what is signalled and recorded is a  *)
(* stage (StagedAbort.escalate).                                           *)
THEOREM AbortTypes == Staged => (Abort!Spec => []Abort!TypeOK)
<1>. SUFFICES ASSUME Staged PROVE Abort!Spec => []Abort!TypeOK
  OBVIOUS
<1>1. OrderInv /\ RestOK => Abort!TypeOK
  <2>. SUFFICES ASSUME OrderInv, RestOK PROVE Abort!TypeOK
    OBVIOUS
  <2>1. sent \in Seq(Abort!Stage)
    BY DEF OrderInv, EscalationOK, SentSoFar, Abort!Stage
  <2>. QED
    BY <2>1 DEF OrderInv, EscalationOK, EscalationAt, RestOK, Abort!TypeOK
<1>2. OrderInv /\ RestOK /\ [Abort!Next]_(Abort!vars) => (OrderInv /\ RestOK)'
  BY OrderStep, RestStep
<1>. QED
  BY <1>1, <1>2, OrderStart, RestStart, PTL DEF Abort!Spec

-----------------------------------------------------------------------------
\* The row of the run that is stopped

(* The record of one run, which is running at first; nothing is collected  *)
(* before the run is wound up.                                             *)
OneRun == INSTANCE RunRecord WITH
            Run        <- {"run"},
            status     <- [r \in {"run"} |-> row.status],
            collection <- [r \in {"run"} |-> "no"]

(* As long as drive waits for the exit, the row says running.              *)
RowLive == (drive = "waiting" <=> row.status = "running") /\ row \in Abort!Mark

LEMMA LiveStart == Abort!Init => RowLive
  BY DEF Abort!Init, RowLive, Abort!Mark, Abort!NoRecord

(* A stage is marked on a row that is running and leaves the status alone; *)
(* the row ends with drive, once.                                          *)
LEMMA LiveStep ==
  ASSUME OrderInv, RowLive, [Abort!Next]_(Abort!vars)
  PROVE  /\ RowLive'
         /\ \/ row'.status = row.status
            \/ row.status = "running" /\ row'.status \in Abort!Terminal
         /\ row.status # "running" => UNCHANGED row
<1>. USE DEF RowLive, Abort!book, Abort!vm
<1>1. CASE UNCHANGED <<row, drive>>
  BY <1>1
<1>2. CASE Abort!MarkStage
  <2>1. escalation.reached \in 0..3
    BY DEF OrderInv, EscalationOK
  <2>. QED
    BY <1>2, <2>1 DEF Abort!MarkStage, Abort!Mark
<1>3. CASE Abort!Finish
  <2>1. escalation.reached \in 0..3
    BY DEF OrderInv, EscalationOK
  <2>2. Abort!Verdict \in Abort!Terminal /\ Abort!Verdict # "running"
    BY DEF Abort!Verdict, Abort!Terminal
  <2>3. row' = [status |-> Abort!Verdict, stage |-> escalation.reached] /\ drive = "waiting" /\ drive' = "ended"
    BY <1>3 DEF Abort!Finish
  <2>4. row' \in Abort!Mark /\ row'.status = Abort!Verdict
    BY <2>1, <2>2, <2>3 DEF Abort!Mark
  <2>. QED
    BY <2>2, <2>3, <2>4
<1>4. CASE Abort!RecordOutcome \/ Abort!WindUp
  BY <1>4 DEF Abort!RecordOutcome, Abort!WindUp
<1>5. CASE Abort!Click \/ Abort!SignalSent \/ Abort!ReportStage \/ Abort!GraceEnds
  BY <1>1, <1>5 DEF Abort!Click, Abort!SignalSent, Abort!ReportStage, Abort!GraceEnds
<1>6. CASE Abort!SignalFails \/ Abort!ReportFails
  BY <1>1, <1>6 DEF Abort!SignalFails, Abort!ReportFails
<1>7. CASE Abort!Strike \/ Abort!ScriptEnds \/ Abort!CloseTerminal \/ Abort!LoseConnection
  BY <1>1, <1>7 DEF Abort!Strike, Abort!ScriptEnds, Abort!CloseTerminal, Abort!LoseConnection
<1>8. CASE UNCHANGED Abort!vars
  BY <1>1, <1>8 DEF Abort!vars
<1>. QED
  BY <1>2, <1>3, <1>4, <1>5, <1>6, <1>7, <1>8 DEF Abort!Next, Abort!Escalate, Abort!Drive

(* What the escalation and drive write to the row is a step of RunRecord:  *)
(* the run that was running ends, once, and a stage that is marked beside  *)
(* it is no step of the record (execute.ts 197 and 269).                   *)
THEOREM AbortImplements == Staged => (Abort!Spec => [][OneRun!Next]_(OneRun!vars))
<1>. SUFFICES ASSUME Staged PROVE Abort!Spec => [][OneRun!Next]_(OneRun!vars)
  OBVIOUS
<1>1. OrderInv /\ [Abort!Next]_(Abort!vars) => OrderInv'
  BY OrderStep
<1>2. OrderInv /\ RowLive /\ [Abort!Next]_(Abort!vars) => RowLive'
  BY LiveStep
<1>3. ASSUME OrderInv, RowLive, [Abort!Next]_(Abort!vars) PROVE [OneRun!Next]_(OneRun!vars)
  <2>1. CASE row'.status = row.status
    BY <2>1 DEF OneRun!vars
  <2>2. CASE row.status = "running" /\ row'.status \in Abort!Terminal
    <3> DEFINE s == row'.status
    <3>1. s \in OneRun!Terminal
      BY <2>2 DEF Abort!Terminal, OneRun!Terminal
    <3>2. [r \in {"run"} |-> s] = [[r \in {"run"} |-> row.status] EXCEPT !["run"] = s]
      OBVIOUS
    <3>3. [r \in {"run"} |-> "no"] = [[r \in {"run"} |-> "no"] EXCEPT !["run"] = "no"]
      OBVIOUS
    <3>4. [r \in {"run"} |-> row.status]["run"] = "running"
      BY <2>2
    <3>5. OneRun!Conclude("run")
      BY <3>1, <3>2, <3>3, <3>4 DEF OneRun!Conclude, OneRun!Live
    <3>. QED
      BY <3>5 DEF OneRun!Next
  <2>. QED
    BY <1>3, <2>1, <2>2, LiveStep
<1>. QED
  BY <1>1, <1>2, <1>3, OrderStart, LiveStart, PTL DEF Abort!Spec

(* Once the run has ended its row stays as drive wrote it: a stage whose   *)
(* mark comes late does not touch it (the guard in execute.ts 197).        *)
THEOREM EndedRowStays == Staged => (Abort!Spec => [][row.status # "running" => UNCHANGED row]_(Abort!vars))
<1>. SUFFICES ASSUME Staged PROVE Abort!Spec => [][row.status # "running" => UNCHANGED row]_(Abort!vars)
  OBVIOUS
<1>1. OrderInv /\ [Abort!Next]_(Abort!vars) => OrderInv'
  BY OrderStep
<1>2. OrderInv /\ RowLive /\ [Abort!Next]_(Abort!vars) => RowLive'
  BY LiveStep
<1>3. OrderInv /\ RowLive /\ [Abort!Next]_(Abort!vars) => [row.status # "running" => UNCHANGED row]_(Abort!vars)
  BY LiveStep
<1>. QED
  BY <1>1, <1>2, <1>3, OrderStart, LiveStart, PTL DEF Abort!Spec

=============================================================================
