------------------------------- MODULE Schedules -------------------------------
(***************************************************************************)
(* Changing a schedule (FA-10.4): the control plane reads the crontab of a *)
(* script VM, replaces its managed block and writes the whole file back.   *)
(* It reaches the VM only through the runner: each read and each write is  *)
(* a request on a list in Redis, served by one of a few slots, with a      *)
(* reply the asking side waits 30 s for.  Any number of updates and people *)
(* who edit the file over SSH interleave; nothing locks the file.          *)
(***************************************************************************)
EXTENDS Crontab

CONSTANTS
  Update,      \* clicks on the schedules page, each handled by a request
  Files,       \* the crontabs to start from
  HandLine, HandPlace,  \* the lines people write, and after which they do
  Slots,       \* RPC_SLOTS
  Keep,        \* no expression in the request
  MaxEvents    \* edits over SSH, and connections, statements and processes that fail

ASSUME SlotsAssumption  == Slots \in Nat \ {0}
ASSUME LinesAssumption  == Files \subseteq Seq(Line) /\ HandLine \subseteq Line /\ HandPlace \subseteq Nat
ASSUME KeepAssumption   == Keep \notin Expression
ASSUME BoundAssumption  == MaxEvents \in Nat

VARIABLES
  file,     \* the crontab on the script VM
  at,       \* the await each update is in
  page,     \* the crontab its page lists, which of the lines maintained here
            \* was clicked, and the request: a schedule's id and what to change
  text,     \* the crontab it read last
  edited,   \* the crontab it sends
  call,     \* its request to the runner
  queue,    \* the list of requests in Redis
  answer,   \* what the browser was told
  written,  \* the updates whose text was installed
  recorded, \* the updates in the audit log
  events    \* how much of the bound is used up

done == <<answer, recorded>>
local == <<page, text, edited>>
vars == <<file, at, local, call, queue, done, written, events>>

Call   == [kind : {"read", "write"},
           is : {"none", "queued", "taken", "ok", "error", "lost"}]
NoCall == [kind |-> "read", is |-> "none"]
Page   == [shown : Seq(Line), row : Nat, id : (Command \X Nat) \cup {<<>>},
           expression : Expression \cup {Keep}, enabled : BOOLEAN]
NoPage == [shown |-> <<>>, row |-> 0, id |-> <<>>, expression |-> Keep, enabled |-> FALSE]

Calls(is)  == {u \in Update : call[u].is \in is}
Event      == events < MaxEvents /\ events' = events + 1
Goto(u, a) == at' = [at EXCEPT ![u] = a]

Sending(u) == call[u].kind = "write" /\ call[u].is \in {"queued", "taken"}

(* The request ends, and what it held with it, save for a text that is     *)
(* still on its way to the crontab.                                        *)
Finish(u, result) ==
  /\ Goto(u, "done")
  /\ answer' = [answer EXCEPT ![u] = result]
  /\ IF Sending(u) THEN UNCHANGED local
     ELSE /\ page'   = [page EXCEPT ![u] = NoPage]
          /\ text'   = [text EXCEPT ![u] = <<>>]
          /\ edited' = [edited EXCEPT ![u] = <<>>]

(* single(): LPUSH of the request, then the wait for the first frame.      *)
Push(u, kind) ==
  /\ call'  = [call EXCEPT ![u] = [kind |-> kind, is |-> "queued"]]
  /\ queue' = Append(queue, u)

-----------------------------------------------------------------------------
\* The page

List(u) ==
  /\ at[u] = "idle"
  /\ Goto(u, "listed")
  /\ page' = [page EXCEPT ![u].shown = file]
  /\ UNCHANGED <<file, text, edited, call, queue, done, written, events>>

Choose(u, i, x) == \* the switch (Keep), or a new expression and Save
  LET shown == page[u].shown
      entry == shown[i].entry
  IN  /\ x # entry.expression
      /\ page' = [page EXCEPT ![u] =
           [shown |-> shown, row |-> UpTo(ManagedAt(shown), i),
            id |-> ScheduleId(shown, i), expression |-> x, enabled |-> ~entry.enabled]]

(* A line that is maintained here is changed; updateSchedule reads the     *)
(* crontab first.                                                          *)
Click(u) ==
  /\ at[u] = "listed"
  /\ \E i \in ManagedAt(page[u].shown), x \in Expression \cup {Keep} : Choose(u, i, x)
  /\ Goto(u, "read") /\ Push(u, "read")
  /\ UNCHANGED <<file, text, edited, done, written, events>>

ClickInvalid(u) ==       \* an expression that cron-parser refuses
  /\ at[u] = "listed" /\ ManagedAt(page[u].shown) # {}
  /\ Finish(u, "conflict")
  /\ UNCHANGED <<file, call, queue, recorded, written, events>>

-----------------------------------------------------------------------------
\* updateSchedule

Read(u) == at[u] \in {"read", "again"} /\ call[u].is = "ok"

Changed(entry, request) ==    \* the page sends one of the two
  IF request.expression = Keep
  THEN [entry EXCEPT !.enabled = request.enabled]
  ELSE [entry EXCEPT !.expression = request.expression]

ManagedId(lines, i) ==   \* a slip: counted within the block
  LET command == lines[i].entry.command
  IN  Digest(<<command, Cardinality({j \in ManagedAt(lines) : j < i /\ lines[j].entry.command = command})>>)

EditAt(u, places) ==     \* the first managed job with this id, in the text that was just read
  /\ Read(u) /\ at[u] = "read"
  /\ \E i \in places \cap ManagedAt(text[u]) :
       /\ \A j \in places \cap ManagedAt(text[u]) : i <= j
       /\ LET index == UpTo(ManagedAt(text[u]), i)
              next  == [ManagedJobs(text[u]) EXCEPT ![index] = Changed(@, page[u])]
          IN  edited' = [edited EXCEPT ![u] = WriteManagedBlock(text[u], next)]
  /\ Goto(u, "write") /\ Push(u, "write")
  /\ UNCHANGED <<file, page, text, done, written, events>>

EditInBlock(u) == EditAt(u, {i \in ManagedAt(text[u]) : ManagedId(text[u], i) = page[u].id})
Edit(u)        == EditAt(u, {i \in JobsAt(text[u]) : ScheduleId(text[u], i) = page[u].id})

Refuse(u) ==       \* written by hand, or not there at all
  /\ Read(u) /\ at[u] = "read"
  /\ \A i \in ManagedAt(text[u]) : ScheduleId(text[u], i) # page[u].id
  /\ Finish(u, IF page[u].id \in ScheduleIds(text[u]) THEN "conflict" ELSE "notFound")
  /\ UNCHANGED <<file, call, queue, recorded, written, events>>

RecordFirst(u) ==  \* a slip: before the write is answered
  /\ at[u] = "write"
  /\ recorded' = recorded \cup {u}
  /\ Goto(u, "again") /\ Push(u, "read")
  /\ UNCHANGED <<file, local, answer, written, events>>

Record(u) ==       \* the write was answered: the audit log, then listSchedules
  /\ at[u] = "write" /\ call[u].is = "ok"
  /\ recorded' = recorded \cup {u}
  /\ Goto(u, "again") /\ Push(u, "read")
  /\ UNCHANGED <<file, local, answer, written, events>>

Confirm(u) ==
  /\ Read(u) /\ at[u] = "again"
  /\ Finish(u, IF page[u].id \in ScheduleIds(text[u]) THEN "ok" ELSE "notFound")
  /\ UNCHANGED <<file, call, queue, recorded, written, events>>

WaitForReply(u) == \* a slip: BLPOP without a timeout
  /\ at[u] \in {"read", "write", "again"} /\ call[u].is = "error"
  /\ Finish(u, IF at[u] = "write" THEN "error" ELSE "notFound")
  /\ UNCHANGED <<file, call, queue, recorded, written, events>>

(* An error frame, or no frame within 30 s.  A crontab that could not be   *)
(* read is left out; a write that was not confirmed is an error.           *)
NoReply(u) ==
  /\ at[u] \in {"read", "write", "again"} /\ call[u].is # "ok"
  /\ Finish(u, IF at[u] = "write" THEN "error" ELSE "notFound")
  /\ UNCHANGED <<file, call, queue, recorded, written, events>>

CutShort(u) ==     \* the process ends, or a statement throws
  /\ at[u] \in {"read", "write", "again"} /\ Event
  /\ Finish(u, "error")
  /\ UNCHANGED <<file, call, queue, recorded, written>>

-----------------------------------------------------------------------------
\* The runner: RPC_SLOTS loops, each with one request

Became(u, is) == call' = [call EXCEPT ![u].is = is]

Take ==            \* BRPOP
  /\ queue # <<>> /\ Cardinality(Calls({"taken"})) < Slots
  /\ Became(Head(queue), "taken")
  /\ queue' = SubSeq(queue, 2, Len(queue))
  /\ UNCHANGED <<file, at, local, done, written, events>>

(* The command on the script VM, and what becomes of the reply: the runner  *)
(* may lose the connection or die after the command has run.               *)
Served(u, kind) ==
  /\ call[u] = [kind |-> kind, is |-> "taken"]
  /\ \/ Became(u, "ok") /\ UNCHANGED events
     \/ Event /\ \E is \in {"error", "lost"} : Became(u, is)

ReadCrontab(u) ==  \* crontab -l
  /\ Served(u, "read")
  /\ text' = IF at[u] = "done" THEN text ELSE [text EXCEPT ![u] = file]   \* nobody drains a late reply
  /\ UNCHANGED <<file, at, page, edited, queue, done, written>>

WriteCrontab(u) == \* crontab -
  /\ Served(u, "write")
  /\ file' = edited[u]
  /\ written' = written \cup {u}
  /\ UNCHANGED <<at, local, queue, done>>

(* crontab installs nothing when it cannot parse a line; which of the      *)
(* other expressions it takes is up to the cron of the script VM.          *)
Unusual(lines) == \E i \in DOMAIN lines :
  lines[i].is = "job" /\ lines[i].entry.enabled /\ lines[i].entry.expression \in Extended

RefuseCrontab(u) ==
  /\ call[u] = [kind |-> "write", is |-> "taken"] /\ Unusual(edited[u])
  /\ Became(u, "error")
  /\ UNCHANGED <<file, at, local, queue, done, written, events>>

Break(u) ==        \* the connection is refused, or lost before the command ran
  /\ call[u].is = "taken" /\ Event
  /\ Became(u, "error")
  /\ UNCHANGED <<file, at, local, queue, done, written>>

RunnerDies ==      \* what the slots had in hand is gone, what is queued is not
  /\ Calls({"taken"}) # {} /\ Event
  /\ call' = [u \in Update |-> IF call[u].is = "taken" THEN [call[u] EXCEPT !.is = "lost"] ELSE call[u]]
  /\ UNCHANGED <<file, at, local, queue, done, written>>

-----------------------------------------------------------------------------
\* People on the script VM (crontab -e, installed at once)

Inserted(line, i) == SubSeq(file, 1, i) \o <<line>> \o SubSeq(file, i + 1, Len(file))
Removed(i)        == SubSeq(file, 1, i - 1) \o SubSeq(file, i + 1, Len(file))

HandEdit ==
  /\ Event
  /\ \/ \E line \in HandLine, i \in HandPlace \cap 0 .. Len(file) : file' = Inserted(line, i)
     \/ \E i \in DOMAIN file : file[i] \in HandLine /\ file' = Removed(i)
  /\ UNCHANGED <<at, local, call, queue, done, written>>

-----------------------------------------------------------------------------
Init ==
  /\ file \in Files
  /\ at = [u \in Update |-> "idle"] /\ answer = [u \in Update |-> "none"]
  /\ page = [u \in Update |-> NoPage]
  /\ text = [u \in Update |-> <<>>] /\ edited = [u \in Update |-> <<>>]
  /\ call = [u \in Update |-> NoCall] /\ queue = <<>>
  /\ written = {} /\ recorded = {}
  /\ events = 0

Handle(u) == Edit(u) \/ Refuse(u) \/ Record(u) \/ Confirm(u) \/ NoReply(u)
Serve(u)  == ReadCrontab(u) \/ WriteCrontab(u) \/ RefuseCrontab(u)

Next ==
  \/ \E u \in Update : List(u) \/ Click(u) \/ ClickInvalid(u) \/ Handle(u) \/ CutShort(u) \/ Serve(u) \/ Break(u)
  \/ Take \/ RunnerDies \/ HandEdit

(* An await in updateSchedule ends: BLPOP has a timeout.                   *)
Fairness == \A u \in Update : WF_vars(Handle(u))

Spec == Init /\ [][Next]_vars /\ Fairness

-----------------------------------------------------------------------------
\* Properties

(* Every variable has its type, and a request waits in the queue once.     *)
TypeOK ==
  /\ file \in Seq(Line)
  /\ page \in [Update -> Page]
  /\ text \in [Update -> Seq(Line)] /\ edited \in [Update -> Seq(Line)]
  /\ at \in [Update -> {"idle", "listed", "read", "write", "again", "done"}]
  /\ call \in [Update -> Call] /\ queue \in Seq(Update)
  /\ answer \in [Update -> {"none", "ok", "conflict", "notFound", "error"}]
  /\ written \subseteq Update /\ recorded \subseteq Update
  /\ events \in 0 .. MaxEvents

Installs(u) == u \in written' \ written

(* At most one block, which may lack its end.                              *)
OneBlock(lines) ==
  \A i, j \in DOMAIN lines :
    i < j => /\ lines[i] = Begin => lines[j] # Begin
             /\ lines[i] = End => lines[j] \notin {Begin, End}

Outside(lines) == {i \in DOMAIN lines : ~InBlock(lines, i)}
Foreign(lines) == InOrder(lines, Outside(lines))

(* ADR-005: an update leaves every line outside the block as it read it,   *)
(* in its place; all it may add is the end of a block that had none.  If   *)
(* nobody changed the file since, these are the lines of the file.         *)
ForeignLinesStay == [][\A u \in Update :
  Installs(u) /\ OneBlock(text[u]) =>
    \/ Foreign(file') = Foreign(text[u])
    \/ Foreign(file') = Foreign(text[u]) \o <<End, Blank>> /\ FirstAt(text[u], End) = 0]_vars

AllJobs(lines)     == Entries(lines, JobsAt(lines))
ManagedRows(lines) == {UpTo(JobsAt(lines), i) : i \in ManagedAt(lines)}

(* What the page makes of a crontab: all the jobs, and which of these rows *)
(* have a switch.                                                          *)
LooksLike(one, other) ==
  AllJobs(one) = AllJobs(other) /\ ManagedRows(one) = ManagedRows(other)

Shared(lines, id) ==     \* two jobs of the block have this id
  \E i, j \in ManagedAt(lines) : i # j /\ ScheduleId(lines, i) = id /\ ScheduleId(lines, j) = id

(* updateSchedule and occurrenceIds: an update changes the schedule of one *)
(* job of the block, never a command, and keeps all the others.  It is the *)
(* job that was clicked unless the jobs are no longer those that the page  *)
(* shows, or another one of the block has its digest.  Excused: an         *)
(* expression that the parser will not recognise.                          *)
OneJobChanges == [][\A u \in Update :
  Installs(u) /\ OneBlock(text[u]) /\ page[u].expression \notin Extended =>
    LET before == ManagedJobs(text[u]) IN
    \E m \in DOMAIN before :
      /\ ManagedJobs(file') = [before EXCEPT ![m] = Changed(@, page[u])]
      /\ LooksLike(page[u].shown, text[u]) => m = page[u].row \/ Shared(text[u], page[u].id)]_vars

(* The audit log of schedule_updated against the crontab: no record of a   *)
(* change that was not made; and a change that was made is on record when  *)
(* its update is answered, unless the answer is an error.                  *)
AuditAgrees ==
  /\ recorded \subseteq written
  /\ \A u \in Update : at[u] = "done" /\ u \in written => u \in recorded \/ answer[u] = "error"
  /\ \A u \in Update : answer[u] = "ok" => u \in recorded

(* Nobody waits for ever on a runner that is not there.                    *)
ClickIsAnswered == \A u \in Update : at[u] = "read" ~> at[u] = "done"
================================================================================
