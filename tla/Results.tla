-------------------------------- MODULE Results --------------------------------
(***************************************************************************)
(* What a run left behind (FA-09): the worker compares the output          *)
(* directory before and after the script and records what differs; the     *)
(* console's page polls the run's record and the list of its files, each   *)
(* for itself, until it takes the collection for settled.                  *)
(*                                                                         *)
(* The directory is shared with other runs, any statement of the worker    *)
(* may fail, the worker may die, and the terminal status is written before *)
(* the directory is listed.  How a run is claimed and stopped is the       *)
(* subject of RunLifecycle; here its script starts, writes and exits.      *)
(***************************************************************************)
EXTENDS Naturals, FiniteSets

CONSTANTS
  File,       \* paths in the output directory
  There,      \* the files that are there at first
  None,       \* no count, no answer yet
  MaxLapses,  \* claims that run out under a worker that lives
  MaxEvents   \* bound: writes and failures

ASSUME FileAssumption  == There \subseteq File /\ IsFiniteSet(File)
ASSUME NoneAssumption  == None \notin Nat
ASSUME BoundAssumption == {MaxLapses, MaxEvents} \subseteq Nat

VARIABLES
  disk,     \* the directory: who wrote each file last, and its fingerprint
  worker,   \* what the worker of the run is doing
  claim,    \* whether the claim key of the run is there
  aged,     \* whether the run is past ORPHAN_GRACE_MS since its last stamp
  rec,      \* runs: its record
  rows,     \* run_results: its files
  page,     \* the console: what it shows and what it has asked for
  due, blur,     \* history: the files the run had written when it was listed,
                 \* and those its two listings cannot tell
  doubtful,      \* history: the run was given up while its worker lived
  lapses, events \* how much of the bounds is used up

runner  == <<disk, worker, due, blur>>
record  == <<claim, aged, rec, rows, doubtful>>
bounds  == <<lapses, events>>
vars    == <<runner, record, page, bounds>>

(* A fingerprint is a size and a modification time in whole seconds; 0     *)
(* stands for a file that is not there.                                    *)
Version == [by : {"nobody", "run", "other"}, print : Nat]
Held    == {f \in File : disk[f].print # 0}

Over   == {"ended", "failed"}
Row    == [status : {"queued", "live"} \cup Over, count : Nat \cup {None},
           collected : BOOLEAN, finished : BOOLEAN]
Phase  == {"waiting", "before", "start", "running", "exited", "collect", "listed",
           "recorded", "failed", "release", "gone"}
Worker == [at : Phase, before : [File -> Nat], found : SUBSET File]
Page   == [run : Row \cup {None}, asked : {"idle", "claim", "reap", "answer"},
           read : Row \cup {None}, error : BOOLEAN,
           partial : BOOLEAN, files : {None} \cup SUBSET File,
           list : {"idle", "rows", "answer"},
           nextPartial : BOOLEAN, nextFiles : SUBSET File]

Idle            == [at |-> "waiting", before |-> [f \in File |-> 0], found |-> {}]
At(where)       == worker.at = where
Go(where)       == worker' = [worker EXCEPT !.at = where]
Leave(where)    == worker' = [Idle EXCEPT !.at = where]   \* what it knew goes with it
Event           == events < MaxEvents /\ events' = events + 1
Directory       == UNCHANGED <<disk, due, blur>>
Elsewhere       == UNCHANGED <<claim, aged, page, doubtful, lapses>>
PageOnly        == UNCHANGED <<runner, record, lapses>>

(* transition: to an end, from a status that is not one.  "live" stands    *)
(* for `starting` and `running`, which nothing here tells apart.           *)
Ends(row)       == rec' = IF rec.status = "live" THEN row ELSE rec
Ended           == [status |-> "ended", count |-> None, collected |-> FALSE, finished |-> TRUE]
GivenUp         == [status |-> "failed", count |-> None, collected |-> TRUE, finished |-> TRUE]

-----------------------------------------------------------------------------
\* The worker: executeRun, drive and collect

Claim ==
  /\ At("waiting")
  /\ Go("before")
  /\ claim' = TRUE
  /\ rec' = [rec EXCEPT !.status = "live"]
  /\ Directory /\ UNCHANGED <<aged, rows, doubtful, page, bounds>>

(* What is missing from a listing: all of it if the directory cannot be    *)
(* read, part of it if a directory below cannot, or at 5000 entries.       *)
Misses(missed) ==
  /\ missed \subseteq Held
  /\ IF missed = {} THEN UNCHANGED events ELSE Event

Snapshot(missed) ==
  /\ At("before")
  /\ Misses(missed)
  /\ worker' = [worker EXCEPT !.at = "start",
                  !.before = [f \in File |-> IF f \in missed THEN 0 ELSE disk[f].print]]
  /\ blur' = missed
  /\ UNCHANGED <<disk, due, rec, rows>> /\ Elsewhere

Start ==
  /\ At("start")
  /\ Go("running")
  /\ Directory /\ UNCHANGED <<rec, rows, events>> /\ Elsewhere

(* A file that is new, changed, or gone.  A change within the second that  *)
(* keeps the size keeps the fingerprint.                                   *)
Write(f, print) ==
  /\ Event
  /\ print \in {0, disk[f].print, events + 2} /\ (print = 0 => disk[f].print # 0)
  /\ \/ At("running") /\ disk' = [disk EXCEPT ![f] = [by |-> "run", print |-> print]]
                       /\ UNCHANGED blur
     \/ \* another run; once the listing is taken, nothing here looks again
        /\ worker.at \in {"waiting", "before", "start", "running", "exited", "collect"}
        /\ disk' = [disk EXCEPT ![f] = [by |-> "other", print |-> print]]
        /\ blur' = IF worker.at \in {"start", "running", "exited", "collect"}
                   THEN blur \cup {f} ELSE blur
  /\ UNCHANGED <<worker, due, rec, rows>> /\ Elsewhere

Exit ==
  /\ At("running")
  /\ Go("exited")
  /\ Directory /\ UNCHANGED <<rec, rows, events>> /\ Elsewhere

(* The terminal status, before anything is collected; a run that was given *)
(* up stays what it was made.                                              *)
End ==
  /\ At("exited")
  /\ Go("collect")
  /\ Ends(Ended)
  /\ aged' = (aged /\ rec.status # "live")
  /\ Directory /\ UNCHANGED <<claim, rows, doubtful, page, bounds>>

(* Whatever throws before the collection ends in fail, which ends a run    *)
(* that is still live, its collection with it.                             *)
Fail ==
  /\ worker.at \in {"before", "start", "running", "exited", "collect"} /\ Event
  /\ Leave("release")
  /\ Ends(GivenUp)
  /\ Directory /\ UNCHANGED rows /\ Elsewhere

OnlyNew ==       \* a slip: a file that was there before is not this run's
  {f \in Held : worker.before[f] = 0}

Produced == {f \in Held : worker.before[f] # disk[f].print}

ListOutput(missed) ==
  /\ At("collect")
  /\ Misses(missed)
  /\ worker' = [Idle EXCEPT !.at = "listed", !.found = Produced \ missed]
  /\ due' = {f \in Held : disk[f].by = "run"}
  /\ blur' = blur \cup missed \cup {f \in due' : worker.before[f] = disk[f].print}
  /\ UNCHANGED <<disk, rec, rows>> /\ Elsewhere

RecordResults ==
  /\ At("listed")
  /\ Go("recorded")
  /\ rows' = rows \cup worker.found
  /\ Directory /\ UNCHANGED <<rec, events>> /\ Elsewhere

MarkCollected ==
  /\ At("recorded")
  /\ Leave("release")
  /\ rec' = [rec EXCEPT !.collected = TRUE, !.count = Cardinality(worker.found)]
  /\ Directory /\ UNCHANGED <<rows, events>> /\ Elsewhere

CollectThrows ==
  /\ worker.at \in {"collect", "listed", "recorded"} /\ Event
  /\ Leave("failed")
  /\ Directory /\ UNCHANGED <<rec, rows>> /\ Elsewhere

MarkCollectionEnded ==
  /\ At("failed")
  /\ Leave("release")
  /\ \/ rec' = [rec EXCEPT !.collected = TRUE] /\ UNCHANGED events
     \/ Event /\ UNCHANGED rec
  /\ Directory /\ UNCHANGED rows /\ Elsewhere

Release ==
  /\ At("release")
  /\ Leave("gone")
  /\ claim' = FALSE
  /\ Directory /\ UNCHANGED <<aged, rec, rows, doubtful, page, bounds>>

Crash ==
  /\ worker.at \notin {"waiting", "gone"} /\ Event
  /\ Leave("gone")
  /\ Directory /\ UNCHANGED <<rec, rows>> /\ Elsewhere

ClaimExpires ==
  /\ claim /\ At("gone")
  /\ claim' = FALSE
  /\ UNCHANGED <<runner, aged, rec, rows, page, doubtful, bounds>>

ClaimLapses ==       \* under a worker that could not renew it
  /\ claim /\ ~At("gone") /\ lapses < MaxLapses
  /\ lapses' = lapses + 1
  /\ claim' = FALSE /\ doubtful' = TRUE
  /\ UNCHANGED <<runner, aged, rec, rows, page, events>>

GraceEnds ==
  /\ ~aged /\ rec.status # "queued"
  /\ aged' = TRUE
  /\ UNCHANGED <<runner, claim, rec, rows, page, doubtful, bounds>>

-----------------------------------------------------------------------------
\* The page: the run's record, asked for every 2 s

SettledAtTheEnd(row) == row.status \in Over   \* a slip: over is settled

(* collectionSettled.                                                      *)
Settled(row) ==
  /\ row.status \in Over
  /\ row.count # None \/ row.collected \/ ~row.finished

PollRun ==
  /\ page.asked = "idle" /\ ~(page.run # None /\ Settled(page.run))
  /\ page' = [page EXCEPT !.read = rec,
       !.asked = IF \/ rec.status = "queued"
                    \/ rec.status \in Over /\ (rec.count # None \/ rec.collected)
                 THEN "answer" ELSE "claim"]
  /\ PageOnly /\ UNCHANGED events

(* reapIfOrphaned, with the row it was given.                              *)
LookForClaim ==
  /\ page.asked = "claim"
  /\ page' = [page EXCEPT !.asked = IF claim \/ ~aged
                                    THEN "answer" ELSE "reap"]
  /\ PageOnly /\ UNCHANGED events

ReapLive ==          \* a slip: only a run that is not over is looked after
  /\ page.asked = "reap"
  /\ page' = [page EXCEPT !.asked = "answer",
                          !.read.status = IF @ \in Over THEN @ ELSE "failed"]
  /\ IF page.read.status \in Over THEN UNCHANGED rec ELSE Ends(GivenUp)
  /\ UNCHANGED <<runner, claim, aged, rows, doubtful, bounds>>

(* The answer is the row as it was read, with the end that was given to    *)
(* it, whether or not the statement found the run still live.              *)
Reap ==
  /\ page.asked = "reap"
  /\ IF page.read.status \in Over
     THEN /\ rec' = [rec EXCEPT !.collected = TRUE]
          /\ page' = [page EXCEPT !.asked = "answer", !.read.collected = TRUE]
     ELSE /\ Ends(GivenUp)
          /\ page' = [page EXCEPT !.asked = "answer", !.read.status = "failed"]
  /\ doubtful' = (doubtful \/ rec.collected
                           \/ (rec.status \in Over /\ page.read.status = "live"))
  /\ UNCHANGED <<runner, claim, aged, rows, bounds>>

ShowRun ==
  /\ page.asked = "answer"
  /\ page' = [page EXCEPT !.asked = "idle", !.run = page.read, !.read = None, !.error = FALSE]
  /\ PageOnly /\ UNCHANGED events

RunPollFails ==      \* the page is an error until the next poll
  /\ page.asked = "answer" /\ Event
  /\ page' = [page EXCEPT !.asked = "idle", !.read = None, !.error = TRUE]
  /\ PageOnly

-----------------------------------------------------------------------------
\* The result panel: the list, asked for every 5 s

AsksUntilSettled ==  \* a slip: the count is not compared
  page.files # None => page.partial \/ ~Settled(page.run)

(* resultsRefetchInterval.                                                 *)
AsksAgain ==
  page.files # None /\ ~page.partial /\ Settled(page.run) =>
    page.run.count # None /\ Cardinality(page.files) < page.run.count

(* listResults: the run first, then its files.                             *)
PollList ==
  /\ page.list = "idle" /\ page.run # None /\ ~page.error
  /\ AsksAgain
  /\ page' = [page EXCEPT !.list = "rows", !.nextPartial = rec.status \notin Over]
  /\ PageOnly /\ UNCHANGED events

ReadRows ==
  /\ page.list = "rows"
  /\ page' = [page EXCEPT !.list = "answer", !.nextFiles = rows]
  /\ PageOnly /\ UNCHANGED events

ShowList ==
  /\ page.list = "answer"
  /\ page' = [page EXCEPT !.list = "idle", !.partial = page.nextPartial, !.files = page.nextFiles,
                          !.nextPartial = FALSE, !.nextFiles = {}]
  /\ PageOnly /\ UNCHANGED events

ListPollFails ==     \* said as a failure; what is on screen stays
  /\ page.list \in {"rows", "answer"} /\ Event
  /\ page' = [page EXCEPT !.list = "idle", !.nextPartial = FALSE, !.nextFiles = {}]
  /\ PageOnly

-----------------------------------------------------------------------------
Init ==
  /\ disk = [f \in File |-> [by |-> "nobody", print |-> IF f \in There THEN 1 ELSE 0]]
  /\ worker = Idle
  /\ claim = FALSE /\ aged = FALSE
  /\ rec = [status |-> "queued", count |-> None, collected |-> FALSE, finished |-> FALSE]
  /\ rows = {}
  /\ page = [run |-> None, asked |-> "idle", read |-> None, error |-> FALSE,
             partial |-> FALSE, files |-> None, list |-> "idle",
             nextPartial |-> FALSE, nextFiles |-> {}]
  /\ due = {} /\ blur = {}
  /\ doubtful = FALSE
  /\ lapses = 0 /\ events = 0

Collect    == End \/ ListOutput({}) \/ RecordResults \/ MarkCollected \/ MarkCollectionEnded
              \/ Release
RunAnswer  == LookForClaim \/ Reap \/ ShowRun
ListAnswer == ReadRows \/ ShowList

Next ==
  \/ Claim \/ Start \/ Exit \/ Fail \/ CollectThrows \/ Collect \/ Crash
  \/ \E missed \in SUBSET File : Snapshot(missed) \/ ListOutput(missed)
  \/ \E f \in File, print \in 0..(MaxEvents + 1) : Write(f, print)
  \/ ClaimExpires \/ ClaimLapses \/ GraceEnds
  \/ PollRun \/ RunAnswer \/ RunPollFails
  \/ PollList \/ ListAnswer \/ ListPollFails

Spec == Init /\ [][Next]_vars

(* The worker goes on once the script has exited, a claim nobody renews    *)
(* runs out, and a page that is open and visible keeps its intervals.      *)
FairSpec ==
  /\ Spec
  /\ WF_vars(Collect) /\ WF_vars(ClaimExpires) /\ WF_vars(GraceEnds)
  /\ WF_vars(PollRun) /\ WF_vars(RunAnswer) /\ WF_vars(PollList) /\ WF_vars(ListAnswer)

-----------------------------------------------------------------------------
(* What the variables hold.                                                *)
TypeOK ==
  /\ disk \in [File -> Version] /\ worker \in Worker
  /\ claim \in BOOLEAN /\ aged \in BOOLEAN /\ doubtful \in BOOLEAN
  /\ rec \in Row /\ rows \subseteq File
  /\ page \in Page
  /\ due \subseteq File /\ blur \subseteq File
  /\ lapses \in 0..MaxLapses /\ events \in 0..MaxEvents

(* "Everything in the output directory that was not there before, or that  *)
(* changed while it ran" is what this run wrote: except for files another  *)
(* run touched between the two listings, files that were missing from one  *)
(* of them, and a change within the second that kept the size (collect,    *)
(* fingerprint).                                                           *)
CollectedIsWhatItWrote ==
  rows # {} \/ At("recorded") => rows \ blur = due \ blur

(* When a page has stopped asking.                                         *)
Stopped ==
  /\ page.run # None /\ ~page.error /\ page.files # None
  /\ page.asked = "idle" /\ page.list = "idle"
  /\ Settled(page.run) /\ ~AsksAgain

(* FA-09.5: a panel that has stopped asking, beside a status line that     *)
(* counts files, shows each of them; whichever of the two answers came     *)
(* first, and however old the list was ("No result files for ever beside a *)
(* status line that said four").                                           *)
StoppedShowsTheFiles ==
  Stopped /\ page.run.count # None => page.files = rows

(* "Once that has settled the run does not change again": what a page that *)
(* has stopped asking for the run shows is its record, for good.           *)
SettledIsFinal ==
  page.run # None /\ page.asked = "idle" /\ Settled(page.run) =>
    page.run.status = rec.status /\ page.run.count = rec.count

(* The same, unless the run was given up while its worker lived, or while  *)
(* the answer was being made up (reapIfOrphaned).                          *)
SettledStays == doubtful \/ SettledIsFinal

(* A page does not poll for ever: once the run is over, or its worker is   *)
(* gone, it comes to an end, whatever failed (reapIfOrphaned, collect).    *)
PollingEnds ==
  rec.status \in Over \/ (At("gone") /\ rec.status # "queued") ~> Stopped
================================================================================
