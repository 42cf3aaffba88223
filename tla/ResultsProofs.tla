----------------------------- MODULE ResultsProofs -----------------------------
(***************************************************************************)
(* What Results promises, for any number of files, writes, failures and    *)
(* lapses of the claim.                                                    *)
(***************************************************************************)
EXTENDS Results, FiniteSetTheorems, TLAPS

-----------------------------------------------------------------------------
\* The invariants

(* A page that waits for an answer has a row in hand.                      *)
InHand  == page.asked # "idle" => page.read \in Row
TypeInv == TypeOK /\ InHand

(* What the row says by the time the worker is where it is.                *)
Placed ==
  /\ At("waiting") <=> rec.status = "queued"
  /\ worker.at \in {"collect", "listed", "recorded", "failed", "release"} => rec.status \in Over
  /\ rec.status \in Over => rec.finished
  /\ rec.status \notin Over => rec.count = None /\ ~rec.collected
  /\ rec.count # None => rec.collected /\ worker.at \in {"release", "gone"}

(* Until the directory is listed again, a file that is not in doubt and    *)
(* that the run did not write is as it was in the first listing.           *)
Before == {"waiting", "before", "start", "running", "exited", "collect", "listed"}
Between == {"start", "running", "exited", "collect"}
Compared ==
  /\ worker.at \in Before => rows = {}
  /\ worker.at \in Between =>
       \A f \in File \ blur : disk[f].by # "run" => worker.before[f] = disk[f].print
  /\ At("listed") => worker.found \ blur = due \ blur
  /\ At("recorded") => worker.found = rows
  /\ rows # {} \/ At("recorded") => rows \ blur = due \ blur

(* A count is the number of the files, and a page has it from the row.     *)
Counted ==
  /\ rec.count # None => rec.count = Cardinality(rows)
  /\ page.run # None /\ page.run.count # None => rec.count = page.run.count
  /\ page.asked # "idle" /\ page.read.count # None => rec.count = page.read.count
  /\ page.files # None => page.files \subseteq rows
  /\ page.nextFiles \subseteq rows

(* A row that is looked after was taken, and has no end of its collection. *)
LookedAfter ==
  page.asked \in {"claim", "reap"} =>
    /\ page.read.status # "queued" /\ page.read.count = None
    /\ rec.status # "queued"
    /\ page.read.status \in Over =>
         page.read.finished /\ ~page.read.collected /\ page.read.status = rec.status

(* Without a lapse and without a race for the end, nobody drives a run     *)
(* whose claim is gone, and what looks settled is what the row says and    *)
(* will go on saying.                                                      *)
Final(shown) == shown.status = rec.status /\ shown.count = rec.count /\ rec.collected
Sure ==
  ~doubtful =>
    /\ claim \/ worker.at \in {"waiting", "gone"}
    /\ page.asked = "reap" => At("gone")
    /\ rec.collected => worker.at \in {"release", "gone"}
    /\ page.run # None /\ Settled(page.run) => Final(page.run)
    /\ page.asked = "answer" /\ Settled(page.read) => Final(page.read)

-----------------------------------------------------------------------------
\* Types

LEMMA Moves ==
  /\ \A w \in Worker, where \in Phase : [w EXCEPT !.at = where] \in Worker
  /\ Idle \in Worker /\ \A where \in Phase : [Idle EXCEPT !.at = where] \in Worker
  /\ \A files \in SUBSET File : [Idle EXCEPT !.at = "listed", !.found = files] \in Worker
<1>1. Idle \in Worker BY DEF Idle, Worker, Phase
<1> QED BY <1>1 DEF Worker, Phase

LEMMA CountsFiles == \A S \in SUBSET File : IsFiniteSet(S) /\ Cardinality(S) \in Nat
BY FileAssumption, FS_Subset, FS_CardinalityType

LEMMA EndedTyped == Ended \in Row /\ GivenUp \in Row
BY DEF Ended, GivenUp, Row, Over

LEMMA TypeInit == Init => TypeInv
<1> SUFFICES ASSUME Init PROVE TypeInv OBVIOUS
<1>1. disk \in [File -> Version] BY DEF Init, Version
<1>2. worker \in Worker BY Moves DEF Init
<1>3. rec \in Row BY DEF Init, Row
<1>4. page.asked = "idle" BY DEF Init
<1>5. {} \in SUBSET File OBVIOUS
<1>6. page \in Page
  <2>1. page = [run |-> None, asked |-> "idle", read |-> None, error |-> FALSE,
                partial |-> FALSE, files |-> None, list |-> "idle",
                nextPartial |-> FALSE, nextFiles |-> {}]
    BY DEF Init
  <2> QED BY <2>1, <1>5 DEF Page
<1>7. lapses \in 0..MaxLapses /\ events \in 0..MaxEvents BY BoundAssumption DEF Init
<1> QED BY <1>1, <1>2, <1>3, <1>4, <1>6, <1>7 DEF Init, TypeInv, TypeOK, InHand

(* The four parts of the type invariant, each of which has its own step.   *)
RunnerTyped == /\ disk \in [File -> Version] /\ worker \in Worker
               /\ due \in SUBSET File /\ blur \in SUBSET File
RecordTyped == /\ rec \in Row /\ rows \in SUBSET File
               /\ claim \in BOOLEAN /\ aged \in BOOLEAN /\ doubtful \in BOOLEAN
PageTyped   == page \in Page /\ (page.asked # "idle" => page.read \in Row)
BoundsTyped == lapses \in 0..MaxLapses /\ events \in 0..MaxEvents

LEMMA TypeParts == TypeInv <=> RunnerTyped /\ RecordTyped /\ PageTyped /\ BoundsTyped
BY DEF TypeInv, TypeOK, InHand, RunnerTyped, RecordTyped, PageTyped, BoundsTyped

LEMMA RunnerStep == TypeInv /\ [Next]_vars => RunnerTyped'
<1> SUFFICES ASSUME TypeInv, [Next]_vars PROVE RunnerTyped' OBVIOUS
<1> USE TypeParts, EndedTyped, BoundAssumption DEF RunnerTyped, RecordTyped, PageTyped, BoundsTyped
<1>1. ASSUME Claim PROVE RunnerTyped'
  BY <1>1 DEF Claim, bounds, Go, Directory, At, Phase, Worker
<1>2. ASSUME NEW missed \in SUBSET File, Snapshot(missed) PROVE RunnerTyped'
  <2>1. [f \in File |-> IF f \in missed THEN 0 ELSE disk[f].print] \in [File -> Nat]
    BY DEF Version
  <2> QED BY <1>2, <2>1 DEF Snapshot, At, Elsewhere, Worker, Phase
<1>3. ASSUME Start PROVE RunnerTyped'
  BY <1>3 DEF Start, Elsewhere, Go, Directory, At, Phase, Worker
<1>4. ASSUME NEW f \in File, NEW print \in Nat, Write(f, print) PROVE RunnerTyped'
  <2>1. \A who \in {"nobody", "run", "other"} :
          [disk EXCEPT ![f] = [by |-> who, print |-> print]] \in [File -> Version]
    BY DEF Version
  <2>2. disk' \in [File -> Version] /\ blur' \in SUBSET File
    BY <1>4, <2>1 DEF Write
  <2> QED BY <1>4, <2>2 DEF Write, Elsewhere
<1>5. ASSUME Exit PROVE RunnerTyped'
  BY <1>5 DEF Exit, Elsewhere, Go, Directory, At, Phase, Worker
<1>6. ASSUME End PROVE RunnerTyped'
  BY <1>6 DEF End, bounds, Go, Directory, At, Phase, Worker
<1>7. ASSUME Fail PROVE RunnerTyped'
  BY <1>7, Moves DEF Fail, Elsewhere, Leave, Directory, Phase, Worker
<1>8. ASSUME NEW missed \in SUBSET File, ListOutput(missed) PROVE RunnerTyped'
  <2>1. Produced \ missed \in SUBSET File /\ Held \in SUBSET File BY DEF Produced, Held
  <2>2. [Idle EXCEPT !.at = "listed", !.found = Produced \ missed] \in Worker
    BY <2>1, Moves
  <2>3. due' \in SUBSET File /\ blur' \in SUBSET File BY <1>8, <2>1 DEF ListOutput
  <2> QED BY <1>8, <2>2, <2>3 DEF ListOutput
<1>9. ASSUME RecordResults PROVE RunnerTyped'
  BY <1>9 DEF RecordResults, Elsewhere, Go, Directory, At, Phase, Worker
<1>10. ASSUME MarkCollected PROVE RunnerTyped'
  BY <1>10, Moves DEF MarkCollected, Elsewhere, Leave, Directory, At, Phase, Worker
<1>11. ASSUME CollectThrows PROVE RunnerTyped'
  BY <1>11, Moves DEF CollectThrows, Elsewhere, Leave, Directory, Phase, Worker
<1>12. ASSUME MarkCollectionEnded PROVE RunnerTyped'
  BY <1>12, Moves DEF MarkCollectionEnded, Elsewhere, Leave, Directory, At, Phase, Worker
<1>13. ASSUME Release PROVE RunnerTyped'
  BY <1>13, Moves DEF Release, bounds, Leave, Directory, At, Phase, Worker
<1>14. ASSUME Crash PROVE RunnerTyped'
  BY <1>14, Moves DEF Crash, Elsewhere, Leave, Directory, Phase, Worker
<1>15. ASSUME ClaimExpires PROVE RunnerTyped'
  BY <1>15 DEF ClaimExpires, runner, bounds, At
<1>16. ASSUME ClaimLapses PROVE RunnerTyped'
  BY <1>16 DEF ClaimLapses, runner, At
<1>17. ASSUME GraceEnds PROVE RunnerTyped'
  BY <1>17 DEF GraceEnds, runner, bounds
<1>18. ASSUME PollRun PROVE RunnerTyped'
  BY <1>18 DEF PollRun, PageOnly, runner, record
<1>19. ASSUME LookForClaim PROVE RunnerTyped'
  BY <1>19 DEF LookForClaim, PageOnly, runner, record
<1>20. ASSUME Reap PROVE RunnerTyped'
  BY <1>20 DEF Reap, runner, bounds
<1>21. ASSUME ShowRun PROVE RunnerTyped'
  BY <1>21 DEF ShowRun, PageOnly, runner, record
<1>22. ASSUME RunPollFails PROVE RunnerTyped'
  BY <1>22 DEF RunPollFails, PageOnly, runner, record
<1>23. ASSUME PollList PROVE RunnerTyped'
  BY <1>23 DEF PollList, PageOnly, runner, record
<1>24. ASSUME ReadRows PROVE RunnerTyped'
  BY <1>24 DEF ReadRows, PageOnly, runner, record
<1>25. ASSUME ShowList PROVE RunnerTyped'
  BY <1>25 DEF ShowList, PageOnly, runner, record
<1>26. ASSUME ListPollFails PROVE RunnerTyped'
  BY <1>26 DEF ListPollFails, PageOnly, runner, record
<1>27. CASE UNCHANGED vars
  BY <1>27 DEF vars, runner, record, bounds
<1> QED BY <1>1, <1>2, <1>3, <1>4, <1>5, <1>6, <1>7, <1>8, <1>9, <1>10, <1>11, <1>12,
    <1>13, <1>14, <1>15, <1>16, <1>17, <1>18, <1>19, <1>20, <1>21, <1>22, <1>23, <1>24,
    <1>25, <1>26, <1>27 DEF Next, Collect, RunAnswer, ListAnswer

LEMMA RecordStep == TypeInv /\ [Next]_vars => RecordTyped'
<1> SUFFICES ASSUME TypeInv, [Next]_vars PROVE RecordTyped' OBVIOUS
<1> USE TypeParts, EndedTyped, BoundAssumption DEF RunnerTyped, RecordTyped, PageTyped, BoundsTyped
<1>1. ASSUME Claim PROVE RecordTyped'
  BY <1>1 DEF Claim, bounds, Row, Directory, Go
<1>2. ASSUME NEW missed \in SUBSET File, Snapshot(missed) PROVE RecordTyped'
  BY <1>2 DEF Snapshot, Elsewhere
<1>3. ASSUME Start PROVE RecordTyped'
  BY <1>3 DEF Start, Elsewhere, Directory, Go
<1>4. ASSUME NEW f \in File, NEW print \in Nat, Write(f, print) PROVE RecordTyped'
  BY <1>4 DEF Write, Elsewhere
<1>5. ASSUME Exit PROVE RecordTyped'
  BY <1>5 DEF Exit, Elsewhere, Directory, Go
<1>6. ASSUME End PROVE RecordTyped'
  BY <1>6 DEF End, bounds, Ends, Row, Directory, Go
<1>7. ASSUME Fail PROVE RecordTyped'
  BY <1>7 DEF Fail, Elsewhere, Ends, Row, Directory, Leave
<1>8. ASSUME NEW missed \in SUBSET File, ListOutput(missed) PROVE RecordTyped'
  BY <1>8 DEF ListOutput, Elsewhere
<1>9. ASSUME RecordResults PROVE RecordTyped'
  <2>1. worker.found \in SUBSET File BY DEF Worker
  <2> QED BY <1>9, <2>1 DEF RecordResults, Elsewhere
<1>10. ASSUME MarkCollected PROVE RecordTyped'
  <2>1. Cardinality(worker.found) \in Nat BY CountsFiles DEF Worker
  <2>2. rec' = [rec EXCEPT !.collected = TRUE, !.count = Cardinality(worker.found)]
    BY <1>10 DEF MarkCollected
  <2>3. rec' \in Row BY <2>1, <2>2 DEF Row
  <2> QED BY <1>10, <2>3 DEF MarkCollected, Elsewhere
<1>11. ASSUME CollectThrows PROVE RecordTyped'
  BY <1>11 DEF CollectThrows, Elsewhere, Directory, Leave
<1>12. ASSUME MarkCollectionEnded PROVE RecordTyped'
  BY <1>12 DEF MarkCollectionEnded, Elsewhere, Row, Directory, Leave
<1>13. ASSUME Release PROVE RecordTyped'
  BY <1>13 DEF Release, bounds, Directory, Leave
<1>14. ASSUME Crash PROVE RecordTyped'
  BY <1>14 DEF Crash, Elsewhere, Directory, Leave
<1>15. ASSUME ClaimExpires PROVE RecordTyped'
  BY <1>15 DEF ClaimExpires, runner, bounds
<1>16. ASSUME ClaimLapses PROVE RecordTyped'
  BY <1>16 DEF ClaimLapses, runner
<1>17. ASSUME GraceEnds PROVE RecordTyped'
  BY <1>17 DEF GraceEnds, runner, bounds
<1>18. ASSUME PollRun PROVE RecordTyped'
  BY <1>18 DEF PollRun, PageOnly, runner, record, Row, Over
<1>19. ASSUME LookForClaim PROVE RecordTyped'
  BY <1>19 DEF LookForClaim, PageOnly, runner, record, Row
<1>20. ASSUME Reap PROVE RecordTyped'
  BY <1>20 DEF Reap, runner, bounds, Ends, Row, Over
<1>21. ASSUME ShowRun PROVE RecordTyped'
  BY <1>21 DEF ShowRun, PageOnly, runner, record, Row
<1>22. ASSUME RunPollFails PROVE RecordTyped'
  BY <1>22 DEF RunPollFails, PageOnly, runner, record, Row
<1>23. ASSUME PollList PROVE RecordTyped'
  BY <1>23 DEF PollList, PageOnly, runner, record, Row, Over
<1>24. ASSUME ReadRows PROVE RecordTyped'
  BY <1>24 DEF ReadRows, PageOnly, runner, record, Row
<1>25. ASSUME ShowList PROVE RecordTyped'
  BY <1>25 DEF ShowList, PageOnly, runner, record, Row
<1>26. ASSUME ListPollFails PROVE RecordTyped'
  BY <1>26 DEF ListPollFails, PageOnly, runner, record, Row
<1>27. CASE UNCHANGED vars
  BY <1>27 DEF vars, runner, record, bounds
<1> QED BY <1>1, <1>2, <1>3, <1>4, <1>5, <1>6, <1>7, <1>8, <1>9, <1>10, <1>11, <1>12,
    <1>13, <1>14, <1>15, <1>16, <1>17, <1>18, <1>19, <1>20, <1>21, <1>22, <1>23, <1>24,
    <1>25, <1>26, <1>27 DEF Next, Collect, RunAnswer, ListAnswer

LEMMA PageStep == TypeInv /\ [Next]_vars => PageTyped'
<1> SUFFICES ASSUME TypeInv, [Next]_vars PROVE PageTyped' OBVIOUS
<1> USE TypeParts, EndedTyped, BoundAssumption DEF RunnerTyped, RecordTyped, PageTyped, BoundsTyped
<1>1. ASSUME Claim PROVE PageTyped'
  BY <1>1 DEF Claim, bounds, Row, Directory
<1>2. ASSUME NEW missed \in SUBSET File, Snapshot(missed) PROVE PageTyped'
  BY <1>2 DEF Snapshot, Elsewhere
<1>3. ASSUME Start PROVE PageTyped'
  BY <1>3 DEF Start, Elsewhere, Directory
<1>4. ASSUME NEW f \in File, NEW print \in Nat, Write(f, print) PROVE PageTyped'
  BY <1>4 DEF Write, Elsewhere
<1>5. ASSUME Exit PROVE PageTyped'
  BY <1>5 DEF Exit, Elsewhere, Directory
<1>6. ASSUME End PROVE PageTyped'
  BY <1>6 DEF End, bounds, Directory
<1>7. ASSUME Fail PROVE PageTyped'
  BY <1>7 DEF Fail, Elsewhere, Directory
<1>8. ASSUME NEW missed \in SUBSET File, ListOutput(missed) PROVE PageTyped'
  BY <1>8 DEF ListOutput, Elsewhere
<1>9. ASSUME RecordResults PROVE PageTyped'
  BY <1>9 DEF RecordResults, Elsewhere, Directory
<1>10. ASSUME MarkCollected PROVE PageTyped'
  BY <1>10 DEF MarkCollected, Elsewhere, Row, Directory
<1>11. ASSUME CollectThrows PROVE PageTyped'
  BY <1>11 DEF CollectThrows, Elsewhere, Directory
<1>12. ASSUME MarkCollectionEnded PROVE PageTyped'
  BY <1>12 DEF MarkCollectionEnded, Elsewhere, Row, Directory
<1>13. ASSUME Release PROVE PageTyped'
  BY <1>13 DEF Release, bounds, Directory
<1>14. ASSUME Crash PROVE PageTyped'
  BY <1>14 DEF Crash, Elsewhere, Directory
<1>15. ASSUME ClaimExpires PROVE PageTyped'
  BY <1>15 DEF ClaimExpires, runner, bounds
<1>16. ASSUME ClaimLapses PROVE PageTyped'
  BY <1>16 DEF ClaimLapses, runner
<1>17. ASSUME GraceEnds PROVE PageTyped'
  BY <1>17 DEF GraceEnds, runner, bounds
<1>18. ASSUME PollRun PROVE PageTyped'
  BY <1>18 DEF PollRun, PageOnly, runner, record, Page, Row
<1>19. ASSUME LookForClaim PROVE PageTyped'
  BY <1>19 DEF LookForClaim, PageOnly, runner, record, Page, Row
<1>20. ASSUME Reap PROVE PageTyped'
  <2>1. page.read \in Row BY <1>20 DEF Reap
  <2>2. [page.read EXCEPT !.collected = TRUE] \in Row BY <2>1 DEF Row
  <2>3. [page.read EXCEPT !.status = "failed"] \in Row BY <2>1 DEF Row, Over
  <2>4. \/ page' = [page EXCEPT !.asked = "answer", !.read = [page.read EXCEPT !.collected = TRUE]]
        \/ page' = [page EXCEPT !.asked = "answer", !.read = [page.read EXCEPT !.status = "failed"]]
    BY <1>20 DEF Reap, Page
  <2>5. \A r \in Row : LET p == [page EXCEPT !.asked = "answer", !.read = r] IN
          p \in Page /\ p.read = r
    BY DEF Page
  <2> QED BY <2>2, <2>3, <2>4, <2>5
<1>21. ASSUME ShowRun PROVE PageTyped'
  BY <1>21 DEF ShowRun, PageOnly, runner, record, Page, Row
<1>22. ASSUME RunPollFails PROVE PageTyped'
  BY <1>22 DEF RunPollFails, PageOnly, runner, record, Page, Row
<1>23. ASSUME PollList PROVE PageTyped'
  <2>1. \A b \in BOOLEAN : LET p == [page EXCEPT !.list = "rows", !.nextPartial = b] IN
          p \in Page /\ p.asked = page.asked /\ p.read = page.read
    BY DEF Page
  <2>2. PICK b \in BOOLEAN : page' = [page EXCEPT !.list = "rows", !.nextPartial = b]
    BY <1>23 DEF PollList
  <2> QED BY <2>1, <2>2
<1>24. ASSUME ReadRows PROVE PageTyped'
  BY <1>24 DEF ReadRows, PageOnly, runner, record, Page, Row
<1>25. ASSUME ShowList PROVE PageTyped'
  BY <1>25 DEF ShowList, PageOnly, runner, record, Page, Row
<1>26. ASSUME ListPollFails PROVE PageTyped'
  BY <1>26 DEF ListPollFails, PageOnly, runner, record, Page, Row
<1>27. CASE UNCHANGED vars
  BY <1>27 DEF vars, runner, record, bounds
<1> QED BY <1>1, <1>2, <1>3, <1>4, <1>5, <1>6, <1>7, <1>8, <1>9, <1>10, <1>11, <1>12,
    <1>13, <1>14, <1>15, <1>16, <1>17, <1>18, <1>19, <1>20, <1>21, <1>22, <1>23, <1>24,
    <1>25, <1>26, <1>27 DEF Next, Collect, RunAnswer, ListAnswer

LEMMA BoundsStep == TypeInv /\ [Next]_vars => BoundsTyped'
<1> SUFFICES ASSUME TypeInv, [Next]_vars PROVE BoundsTyped' OBVIOUS
<1> USE TypeParts, EndedTyped, BoundAssumption DEF RunnerTyped, RecordTyped, PageTyped, BoundsTyped
<1>1. ASSUME Claim PROVE BoundsTyped'
  BY <1>1 DEF Claim, bounds, Directory
<1>2. ASSUME NEW missed \in SUBSET File, Snapshot(missed) PROVE BoundsTyped'
  BY <1>2 DEF Snapshot, Elsewhere, Event, Misses
<1>3. ASSUME Start PROVE BoundsTyped'
  BY <1>3 DEF Start, Elsewhere, Directory
<1>4. ASSUME NEW f \in File, NEW print \in Nat, Write(f, print) PROVE BoundsTyped'
  BY <1>4 DEF Write, Elsewhere, Event
<1>5. ASSUME Exit PROVE BoundsTyped'
  BY <1>5 DEF Exit, Elsewhere, Directory
<1>6. ASSUME End PROVE BoundsTyped'
  BY <1>6 DEF End, bounds, Directory
<1>7. ASSUME Fail PROVE BoundsTyped'
  BY <1>7 DEF Fail, Elsewhere, Event, Directory
<1>8. ASSUME NEW missed \in SUBSET File, ListOutput(missed) PROVE BoundsTyped'
  BY <1>8 DEF ListOutput, Elsewhere, Event, Misses
<1>9. ASSUME RecordResults PROVE BoundsTyped'
  BY <1>9 DEF RecordResults, Elsewhere, Directory
<1>10. ASSUME MarkCollected PROVE BoundsTyped'
  BY <1>10 DEF MarkCollected, Elsewhere, Directory
<1>11. ASSUME CollectThrows PROVE BoundsTyped'
  BY <1>11 DEF CollectThrows, Elsewhere, Event, Directory
<1>12. ASSUME MarkCollectionEnded PROVE BoundsTyped'
  BY <1>12 DEF MarkCollectionEnded, Elsewhere, Event, Directory
<1>13. ASSUME Release PROVE BoundsTyped'
  BY <1>13 DEF Release, bounds, Directory
<1>14. ASSUME Crash PROVE BoundsTyped'
  BY <1>14 DEF Crash, Elsewhere, Event, Directory
<1>15. ASSUME ClaimExpires PROVE BoundsTyped'
  BY <1>15 DEF ClaimExpires, runner, bounds
<1>16. ASSUME ClaimLapses PROVE BoundsTyped'
  BY <1>16 DEF ClaimLapses, runner
<1>17. ASSUME GraceEnds PROVE BoundsTyped'
  BY <1>17 DEF GraceEnds, runner, bounds
<1>18. ASSUME PollRun PROVE BoundsTyped'
  BY <1>18 DEF PollRun, PageOnly, runner, record
<1>19. ASSUME LookForClaim PROVE BoundsTyped'
  BY <1>19 DEF LookForClaim, PageOnly, runner, record
<1>20. ASSUME Reap PROVE BoundsTyped'
  BY <1>20 DEF Reap, runner, bounds
<1>21. ASSUME ShowRun PROVE BoundsTyped'
  BY <1>21 DEF ShowRun, PageOnly, runner, record
<1>22. ASSUME RunPollFails PROVE BoundsTyped'
  BY <1>22 DEF RunPollFails, PageOnly, runner, record, Event
<1>23. ASSUME PollList PROVE BoundsTyped'
  BY <1>23 DEF PollList, PageOnly, runner, record
<1>24. ASSUME ReadRows PROVE BoundsTyped'
  BY <1>24 DEF ReadRows, PageOnly, runner, record
<1>25. ASSUME ShowList PROVE BoundsTyped'
  BY <1>25 DEF ShowList, PageOnly, runner, record
<1>26. ASSUME ListPollFails PROVE BoundsTyped'
  BY <1>26 DEF ListPollFails, PageOnly, runner, record, Event
<1>27. CASE UNCHANGED vars
  BY <1>27 DEF vars, runner, record, bounds
<1> QED BY <1>1, <1>2, <1>3, <1>4, <1>5, <1>6, <1>7, <1>8, <1>9, <1>10, <1>11, <1>12,
    <1>13, <1>14, <1>15, <1>16, <1>17, <1>18, <1>19, <1>20, <1>21, <1>22, <1>23, <1>24,
    <1>25, <1>26, <1>27 DEF Next, Collect, RunAnswer, ListAnswer

LEMMA TypeStep == TypeInv /\ [Next]_vars => TypeInv'
BY RunnerStep, RecordStep, PageStep, BoundsStep, TypeParts DEF RunnerTyped, RecordTyped,
    PageTyped, BoundsTyped, TypeInv, TypeOK, InHand

-----------------------------------------------------------------------------
\* The row, the listings, the page: one step per action each

LEMMA Typed == TypeInv => worker \in Worker /\ rec \in Row /\ page \in Page
                          /\ (page.asked # "idle" => page.read \in Row)
BY DEF TypeInv, TypeOK, InHand

LEMMA DiskTyped == TypeInv => disk \in [File -> Version]
BY DEF TypeInv, TypeOK

LEMMA InitInvs == Init => Placed /\ Compared /\ Counted /\ LookedAfter /\ Sure
BY DEF Init, Placed, Compared, Counted, LookedAfter, Sure, At, Idle, Over, Between

LEMMA AfterReap ==
  ASSUME TypeInv, Reap
  PROVE  /\ page.asked = "reap" /\ page'.asked = "answer"
         /\ page'.run = page.run /\ page'.files = page.files
         /\ page'.nextFiles = page.nextFiles
         /\ page'.read.count = page.read.count /\ page'.read.finished = page.read.finished
         /\ \/ /\ page.read.status \in Over
               /\ rec'.collected /\ rec'.status = rec.status /\ rec'.count = rec.count
               /\ page'.read.collected /\ page'.read.status = page.read.status
            \/ /\ page.read.status \notin Over
               /\ rec' = IF rec.status = "live" THEN GivenUp ELSE rec
               /\ page'.read.collected = page.read.collected /\ page'.read.status = "failed"
<1>1. page \in Page /\ rec \in Row /\ page.read \in Row BY Typed DEF Reap
<1>2. CASE page.read.status \in Over
  <2>1. rec' = [rec EXCEPT !.collected = TRUE] BY <1>2 DEF Reap
  <2>2. page' = [page EXCEPT !.asked = "answer", !.read = [page.read EXCEPT !.collected = TRUE]]
    BY <1>1, <1>2 DEF Reap, Page
  <2>3. page'.read = [page.read EXCEPT !.collected = TRUE] BY <1>1, <2>2 DEF Page
  <2> QED BY <1>1, <1>2, <2>1, <2>2, <2>3 DEF Reap, Page, Row
<1>3. CASE page.read.status \notin Over
  <2>1. rec' = IF rec.status = "live" THEN GivenUp ELSE rec BY <1>3 DEF Reap, Ends
  <2>2. page' = [page EXCEPT !.asked = "answer", !.read = [page.read EXCEPT !.status = "failed"]]
    BY <1>1, <1>3 DEF Reap, Page
  <2>3. page'.read = [page.read EXCEPT !.status = "failed"] BY <1>1, <2>2 DEF Page
  <2> QED BY <1>1, <1>3, <2>1, <2>2, <2>3 DEF Reap, Page, Row
<1> QED BY <1>2, <1>3

LEMMA PlacedStep == TypeInv /\ Placed /\ LookedAfter /\ [Next]_vars => Placed'
<1> SUFFICES ASSUME TypeInv, Placed, LookedAfter, [Next]_vars PROVE Placed' OBVIOUS
<1> USE DEF Placed
<1>1. ASSUME Claim PROVE Placed'
  BY <1>1, Typed DEF Claim, bounds, Directory, Go, At, Over, Worker, Row, Phase,
      LookedAfter
<1>2. ASSUME NEW missed \in SUBSET File, Snapshot(missed) PROVE Placed'
  BY <1>2, Typed DEF Snapshot, Elsewhere, At, Over, Worker, Phase, LookedAfter
<1>3. ASSUME Start PROVE Placed'
  BY <1>3, Typed DEF Start, Elsewhere, Directory, Go, At, Over, Worker, Phase, LookedAfter
<1>4. ASSUME NEW f \in File, NEW print \in Nat, Write(f, print) PROVE Placed'
  BY <1>4, Typed DEF Write, Elsewhere, At, Over, LookedAfter
<1>5. ASSUME Exit PROVE Placed'
  BY <1>5, Typed DEF Exit, Elsewhere, Directory, Go, At, Over, Worker, Phase, LookedAfter
<1>6. ASSUME End PROVE Placed'
  BY <1>6, Typed DEF End, bounds, Directory, Go, At, Ends, Ended, Over, Worker, Row,
      Phase, LookedAfter
<1>7. ASSUME Fail PROVE Placed'
  BY <1>7, Typed DEF Fail, Elsewhere, Directory, Leave, At, Ends, GivenUp, Over, Idle,
      Worker, Row, Phase, LookedAfter
<1>8. ASSUME NEW missed \in SUBSET File, ListOutput(missed) PROVE Placed'
  BY <1>8, Typed DEF ListOutput, Elsewhere, At, Over, Idle, Worker, Phase, LookedAfter
<1>9. ASSUME RecordResults PROVE Placed'
  BY <1>9, Typed DEF RecordResults, Elsewhere, Directory, Go, At, Over, Worker, Phase,
      LookedAfter
<1>10. ASSUME MarkCollected PROVE Placed'
  BY <1>10, Typed DEF MarkCollected, Elsewhere, Directory, Leave, At, Over, Idle, Worker,
      Row, Phase, LookedAfter
<1>11. ASSUME CollectThrows PROVE Placed'
  BY <1>11, Typed DEF CollectThrows, Elsewhere, Directory, Leave, At, Over, Idle, Worker,
      Phase, LookedAfter
<1>12. ASSUME MarkCollectionEnded PROVE Placed'
  BY <1>12, Typed DEF MarkCollectionEnded, Elsewhere, Directory, Leave, At, Over, Idle,
      Worker, Row, Phase, LookedAfter
<1>13. ASSUME Release PROVE Placed'
  BY <1>13, Typed DEF Release, bounds, Directory, Leave, At, Over, Idle, Worker, Phase,
      LookedAfter
<1>14. ASSUME Crash PROVE Placed'
  BY <1>14, Typed DEF Crash, Elsewhere, Directory, Leave, At, Over, Idle, Worker, Phase,
      LookedAfter
<1>15. ASSUME ClaimExpires PROVE Placed'
  BY <1>15, Typed DEF ClaimExpires, runner, bounds, At, Over, LookedAfter
<1>16. ASSUME ClaimLapses PROVE Placed'
  BY <1>16, Typed DEF ClaimLapses, runner, At, Over, LookedAfter
<1>17. ASSUME GraceEnds PROVE Placed'
  BY <1>17, Typed DEF GraceEnds, runner, bounds, At, Over, LookedAfter
<1>18. ASSUME PollRun PROVE Placed'
  BY <1>18, Typed DEF PollRun, PageOnly, runner, record, At, Over, Row, LookedAfter
<1>19. ASSUME LookForClaim PROVE Placed'
  BY <1>19, Typed DEF LookForClaim, PageOnly, runner, record, At, Over, Row, LookedAfter
<1>20. ASSUME Reap PROVE Placed'
  BY <1>20, Typed DEF Reap, runner, bounds, At, Ends, GivenUp, Over, Row, LookedAfter
<1>21. ASSUME ShowRun PROVE Placed'
  BY <1>21, Typed DEF ShowRun, PageOnly, runner, record, At, Over, Row, LookedAfter
<1>22. ASSUME RunPollFails PROVE Placed'
  BY <1>22, Typed DEF RunPollFails, PageOnly, runner, record, At, Over, Row, LookedAfter
<1>23. ASSUME PollList PROVE Placed'
  BY <1>23, Typed DEF PollList, PageOnly, runner, record, At, Over, Row, LookedAfter
<1>24. ASSUME ReadRows PROVE Placed'
  BY <1>24, Typed DEF ReadRows, PageOnly, runner, record, At, Over, Row, LookedAfter
<1>25. ASSUME ShowList PROVE Placed'
  BY <1>25, Typed DEF ShowList, PageOnly, runner, record, At, Over, Row, LookedAfter
<1>26. ASSUME ListPollFails PROVE Placed'
  BY <1>26, Typed DEF ListPollFails, PageOnly, runner, record, At, Over, Row, LookedAfter
<1>27. CASE UNCHANGED vars
  BY <1>27 DEF vars, runner, record, bounds, At, Worker, Row, Phase, LookedAfter
<1> QED BY <1>1, <1>2, <1>3, <1>4, <1>5, <1>6, <1>7, <1>8, <1>9, <1>10, <1>11, <1>12,
    <1>13, <1>14, <1>15, <1>16, <1>17, <1>18, <1>19, <1>20, <1>21, <1>22, <1>23, <1>24,
    <1>25, <1>26, <1>27 DEF Next, Collect, RunAnswer, ListAnswer

LEMMA LookedAfterStep == TypeInv /\ Placed /\ LookedAfter /\ [Next]_vars => LookedAfter'
<1> SUFFICES ASSUME TypeInv, Placed, LookedAfter, [Next]_vars PROVE LookedAfter' OBVIOUS
<1> USE DEF LookedAfter
<1>1. ASSUME Claim PROVE LookedAfter'
  BY <1>1, Typed DEF Claim, bounds, Directory, Go, At, Over, Row, Phase, Placed
<1>2. ASSUME NEW missed \in SUBSET File, Snapshot(missed) PROVE LookedAfter'
  BY <1>2, Typed DEF Snapshot, Elsewhere, At, Over, Phase, Placed
<1>3. ASSUME Start PROVE LookedAfter'
  BY <1>3, Typed DEF Start, Elsewhere, Directory, Go, At, Over, Phase, Placed
<1>4. ASSUME NEW f \in File, NEW print \in Nat, Write(f, print) PROVE LookedAfter'
  BY <1>4, Typed DEF Write, Elsewhere, At, Over, Placed
<1>5. ASSUME Exit PROVE LookedAfter'
  BY <1>5, Typed DEF Exit, Elsewhere, Directory, Go, At, Over, Phase, Placed
<1>6. ASSUME End PROVE LookedAfter'
  BY <1>6, Typed DEF End, bounds, Directory, Go, At, Ends, Ended, Over, Row, Phase, Placed
<1>7. ASSUME Fail PROVE LookedAfter'
  BY <1>7, Typed DEF Fail, Elsewhere, Directory, Leave, At, Ends, GivenUp, Over, Idle,
      Row, Phase, Placed
<1>8. ASSUME NEW missed \in SUBSET File, ListOutput(missed) PROVE LookedAfter'
  BY <1>8, Typed DEF ListOutput, Elsewhere, At, Over, Idle, Phase, Placed
<1>9. ASSUME RecordResults PROVE LookedAfter'
  BY <1>9, Typed DEF RecordResults, Elsewhere, Directory, Go, At, Over, Phase, Placed
<1>10. ASSUME MarkCollected PROVE LookedAfter'
  BY <1>10, Typed DEF MarkCollected, Elsewhere, Directory, Leave, At, Over, Idle, Row,
      Phase, Placed
<1>11. ASSUME CollectThrows PROVE LookedAfter'
  BY <1>11, Typed DEF CollectThrows, Elsewhere, Directory, Leave, At, Over, Idle, Phase,
      Placed
<1>12. ASSUME MarkCollectionEnded PROVE LookedAfter'
  BY <1>12, Typed DEF MarkCollectionEnded, Elsewhere, Directory, Leave, At, Over, Idle,
      Row, Phase, Placed
<1>13. ASSUME Release PROVE LookedAfter'
  BY <1>13, Typed DEF Release, bounds, Directory, Leave, At, Over, Idle, Phase, Placed
<1>14. ASSUME Crash PROVE LookedAfter'
  BY <1>14, Typed DEF Crash, Elsewhere, Directory, Leave, At, Over, Idle, Phase, Placed
<1>15. ASSUME ClaimExpires PROVE LookedAfter'
  BY <1>15, Typed DEF ClaimExpires, runner, bounds, At, Over, Placed
<1>16. ASSUME ClaimLapses PROVE LookedAfter'
  BY <1>16, Typed DEF ClaimLapses, runner, At, Over, Placed
<1>17. ASSUME GraceEnds PROVE LookedAfter'
  BY <1>17, Typed DEF GraceEnds, runner, bounds, At, Over, Placed
<1>18. ASSUME PollRun PROVE LookedAfter'
  BY <1>18, Typed DEF PollRun, PageOnly, runner, record, At, Over, Page, Row, Placed
<1>19. ASSUME LookForClaim PROVE LookedAfter'
  BY <1>19, Typed DEF LookForClaim, PageOnly, runner, record, At, Over, Page, Row, Placed
<1>20. ASSUME Reap PROVE LookedAfter'
  BY <1>20, Typed DEF Reap, runner, bounds, At, Ends, GivenUp, Over, Page, Row, Placed
<1>21. ASSUME ShowRun PROVE LookedAfter'
  BY <1>21, Typed DEF ShowRun, PageOnly, runner, record, At, Over, Page, Row, Placed
<1>22. ASSUME RunPollFails PROVE LookedAfter'
  BY <1>22, Typed DEF RunPollFails, PageOnly, runner, record, At, Over, Page, Row, Placed
<1>23. ASSUME PollList PROVE LookedAfter'
  BY <1>23, Typed DEF PollList, PageOnly, runner, record, At, Over, Page, Row, Placed
<1>24. ASSUME ReadRows PROVE LookedAfter'
  BY <1>24, Typed DEF ReadRows, PageOnly, runner, record, At, Over, Page, Row, Placed
<1>25. ASSUME ShowList PROVE LookedAfter'
  BY <1>25, Typed DEF ShowList, PageOnly, runner, record, At, Over, Page, Row, Placed
<1>26. ASSUME ListPollFails PROVE LookedAfter'
  BY <1>26, Typed DEF ListPollFails, PageOnly, runner, record, At, Over, Page, Row, Placed
<1>27. CASE UNCHANGED vars
  BY <1>27 DEF vars, runner, record, bounds, At, Page, Row, Phase, Placed
<1> QED BY <1>1, <1>2, <1>3, <1>4, <1>5, <1>6, <1>7, <1>8, <1>9, <1>10, <1>11, <1>12,
    <1>13, <1>14, <1>15, <1>16, <1>17, <1>18, <1>19, <1>20, <1>21, <1>22, <1>23, <1>24,
    <1>25, <1>26, <1>27 DEF Next, Collect, RunAnswer, ListAnswer

LEMMA ComparedStep == TypeInv /\ Compared /\ [Next]_vars => Compared'
<1> SUFFICES ASSUME TypeInv, Compared, [Next]_vars PROVE Compared' OBVIOUS
<1> USE DEF Compared
<1>1. ASSUME Claim PROVE Compared'
  BY <1>1, Typed DEF Claim, bounds, Directory, Go, At, Worker, Phase, Before, Between
<1>2. ASSUME NEW missed \in SUBSET File, Snapshot(missed) PROVE Compared'
  BY <1>2, Typed DEF Snapshot, Elsewhere, At, Worker, Phase, Before, Between
<1>3. ASSUME Start PROVE Compared'
  BY <1>3, Typed DEF Start, Elsewhere, Directory, Go, At, Worker, Phase, Before, Between
<1>4. ASSUME NEW f \in File, NEW print \in Nat, Write(f, print) PROVE Compared'
  <2>1. /\ worker' = worker /\ rows' = rows /\ due' = due
        /\ worker.at \in {"waiting", "before"} \cup Between
    BY <1>4 DEF Write, Between, At
  <2>2. CASE At("running") /\ disk' = [disk EXCEPT ![f] = [by |-> "run", print |-> print]]
             /\ blur' = blur
    <3>1. \A g \in File : g # f => disk'[g] = disk[g] BY <2>2
    <3>2. disk'[f].by = "run" BY <2>2, DiskTyped
    <3> QED BY <2>1, <2>2, <3>1, <3>2 DEF At, Before, Between
  <2>3. CASE /\ disk' = [disk EXCEPT ![f] = [by |-> "other", print |-> print]]
             /\ blur' = IF worker.at \in Between THEN blur \cup {f} ELSE blur
    <3>1. \A g \in File : g # f => disk'[g] = disk[g] BY <2>3
    <3> QED BY <2>1, <2>3, <3>1 DEF At, Before, Between
  <2> QED BY <1>4, <2>2, <2>3 DEF Write, Between, At
<1>5. ASSUME Exit PROVE Compared'
  BY <1>5, Typed DEF Exit, Elsewhere, Directory, Go, At, Worker, Phase, Before, Between
<1>6. ASSUME End PROVE Compared'
  BY <1>6, Typed DEF End, bounds, Directory, Go, At, Ends, Ended, Worker, Phase, Before,
      Between
<1>7. ASSUME Fail PROVE Compared'
  BY <1>7, Typed DEF Fail, Elsewhere, Directory, Leave, At, Ends, GivenUp, Idle, Worker,
      Phase, Before, Between
<1>8. ASSUME NEW missed \in SUBSET File, ListOutput(missed) PROVE Compared'
  BY <1>8, Typed DEF ListOutput, Elsewhere, At, Idle, Worker, Phase, Before, Between,
      Held, Produced
<1>9. ASSUME RecordResults PROVE Compared'
  BY <1>9, Typed DEF RecordResults, Elsewhere, Directory, Go, At, Worker, Phase, Before,
      Between
<1>10. ASSUME MarkCollected PROVE Compared'
  BY <1>10, Typed DEF MarkCollected, Elsewhere, Directory, Leave, At, Idle, Worker, Phase,
      Before, Between
<1>11. ASSUME CollectThrows PROVE Compared'
  BY <1>11, Typed DEF CollectThrows, Elsewhere, Directory, Leave, At, Idle, Worker, Phase,
      Before, Between
<1>12. ASSUME MarkCollectionEnded PROVE Compared'
  BY <1>12, Typed DEF MarkCollectionEnded, Elsewhere, Directory, Leave, At, Idle, Worker,
      Phase, Before, Between
<1>13. ASSUME Release PROVE Compared'
  BY <1>13, Typed DEF Release, bounds, Directory, Leave, At, Idle, Worker, Phase, Before,
      Between
<1>14. ASSUME Crash PROVE Compared'
  BY <1>14, Typed DEF Crash, Elsewhere, Directory, Leave, At, Idle, Worker, Phase, Before,
      Between
<1>15. ASSUME ClaimExpires PROVE Compared'
  BY <1>15, Typed DEF ClaimExpires, runner, bounds, At, Before, Between
<1>16. ASSUME ClaimLapses PROVE Compared'
  BY <1>16, Typed DEF ClaimLapses, runner, At, Before, Between
<1>17. ASSUME GraceEnds PROVE Compared'
  BY <1>17, Typed DEF GraceEnds, runner, bounds, At, Before, Between
<1>18. ASSUME PollRun PROVE Compared'
  BY <1>18, Typed DEF PollRun, PageOnly, runner, record, At, Over, Before, Between
<1>19. ASSUME LookForClaim PROVE Compared'
  BY <1>19, Typed DEF LookForClaim, PageOnly, runner, record, At, Before, Between
<1>20. ASSUME Reap PROVE Compared'
  BY <1>20, Typed DEF Reap, runner, bounds, At, Ends, GivenUp, Over, Before, Between
<1>21. ASSUME ShowRun PROVE Compared'
  BY <1>21, Typed DEF ShowRun, PageOnly, runner, record, At, Before, Between
<1>22. ASSUME RunPollFails PROVE Compared'
  BY <1>22, Typed DEF RunPollFails, PageOnly, runner, record, At, Before, Between
<1>23. ASSUME PollList PROVE Compared'
  BY <1>23, Typed DEF PollList, PageOnly, runner, record, At, Over, Before, Between
<1>24. ASSUME ReadRows PROVE Compared'
  BY <1>24, Typed DEF ReadRows, PageOnly, runner, record, At, Before, Between
<1>25. ASSUME ShowList PROVE Compared'
  BY <1>25, Typed DEF ShowList, PageOnly, runner, record, At, Before, Between
<1>26. ASSUME ListPollFails PROVE Compared'
  BY <1>26, Typed DEF ListPollFails, PageOnly, runner, record, At, Before, Between
<1>27. CASE UNCHANGED vars
  BY <1>27 DEF vars, runner, record, bounds, At, Worker, Phase, Before, Between, Held,
      Produced
<1> QED BY <1>1, <1>2, <1>3, <1>4, <1>5, <1>6, <1>7, <1>8, <1>9, <1>10, <1>11, <1>12,
    <1>13, <1>14, <1>15, <1>16, <1>17, <1>18, <1>19, <1>20, <1>21, <1>22, <1>23, <1>24,
    <1>25, <1>26, <1>27 DEF Next, Collect, RunAnswer, ListAnswer

LEMMA CountedStep == TypeInv /\ Placed /\ Compared /\ Counted /\ [Next]_vars => Counted'
<1> SUFFICES ASSUME TypeInv, Placed, Compared, Counted, [Next]_vars PROVE Counted' OBVIOUS
<1> USE DEF Counted
<1>1. ASSUME Claim PROVE Counted'
  BY <1>1, Typed DEF Claim, bounds, Directory, Go, At, Over, Worker, Phase, Row, Before,
      Compared, Placed
<1>2. ASSUME NEW missed \in SUBSET File, Snapshot(missed) PROVE Counted'
  BY <1>2, Typed DEF Snapshot, Elsewhere, At, Over, Worker, Phase, Before, Compared,
      Placed
<1>3. ASSUME Start PROVE Counted'
  BY <1>3, Typed DEF Start, Elsewhere, Directory, Go, At, Over, Worker, Phase, Before,
      Compared, Placed
<1>4. ASSUME NEW f \in File, NEW print \in Nat, Write(f, print) PROVE Counted'
  BY <1>4, Typed DEF Write, Elsewhere, At, Over, Before, Compared, Placed
<1>5. ASSUME Exit PROVE Counted'
  BY <1>5, Typed DEF Exit, Elsewhere, Directory, Go, At, Over, Worker, Phase, Before,
      Compared, Placed
<1>6. ASSUME End PROVE Counted'
  BY <1>6, Typed DEF End, bounds, Directory, Go, At, Ends, Ended, Over, Worker, Phase,
      Row, Before, Compared, Placed
<1>7. ASSUME Fail PROVE Counted'
  BY <1>7, Typed DEF Fail, Elsewhere, Directory, Leave, At, Ends, GivenUp, Over, Idle,
      Worker, Phase, Row, Before, Compared, Placed
<1>8. ASSUME NEW missed \in SUBSET File, ListOutput(missed) PROVE Counted'
  BY <1>8, Typed DEF ListOutput, Elsewhere, At, Over, Idle, Worker, Phase, Before,
      Compared, Placed
<1>9. ASSUME RecordResults PROVE Counted'
  BY <1>9, Typed DEF RecordResults, Elsewhere, Directory, Go, At, Over, Worker, Phase,
      Before, Compared, Placed
<1>10. ASSUME MarkCollected PROVE Counted'
  BY <1>10, Typed DEF MarkCollected, Elsewhere, Directory, Leave, At, Over, Idle, Worker,
      Phase, Row, Before, Compared, Placed
<1>11. ASSUME CollectThrows PROVE Counted'
  BY <1>11, Typed DEF CollectThrows, Elsewhere, Directory, Leave, At, Over, Idle, Worker,
      Phase, Before, Compared, Placed
<1>12. ASSUME MarkCollectionEnded PROVE Counted'
  BY <1>12, Typed DEF MarkCollectionEnded, Elsewhere, Directory, Leave, At, Over, Idle,
      Worker, Phase, Row, Before, Compared, Placed
<1>13. ASSUME Release PROVE Counted'
  BY <1>13, Typed DEF Release, bounds, Directory, Leave, At, Over, Idle, Worker, Phase,
      Before, Compared, Placed
<1>14. ASSUME Crash PROVE Counted'
  BY <1>14, Typed DEF Crash, Elsewhere, Directory, Leave, At, Over, Idle, Worker, Phase,
      Before, Compared, Placed
<1>15. ASSUME ClaimExpires PROVE Counted'
  BY <1>15, Typed DEF ClaimExpires, runner, bounds, At, Over, Before, Compared, Placed
<1>16. ASSUME ClaimLapses PROVE Counted'
  BY <1>16, Typed DEF ClaimLapses, runner, At, Over, Before, Compared, Placed
<1>17. ASSUME GraceEnds PROVE Counted'
  BY <1>17, Typed DEF GraceEnds, runner, bounds, At, Over, Before, Compared, Placed
<1>18. ASSUME PollRun PROVE Counted'
  BY <1>18, Typed DEF PollRun, PageOnly, runner, record, At, Over, Page, Row, Before,
      Compared, Placed
<1>19. ASSUME LookForClaim PROVE Counted'
  BY <1>19, Typed DEF LookForClaim, PageOnly, runner, record, At, Over, Page, Row, Before,
      Compared, Placed
<1>20. ASSUME Reap PROVE Counted'
  <2>1. rows' = rows BY <1>20 DEF Reap
  <2>2. rec.count # None => rec'.count = rec.count
    BY <1>20, AfterReap DEF Placed, GivenUp, Over
  <2>3. rec'.count # None => rec.count = rec'.count
    BY <1>20, AfterReap DEF GivenUp
  <2> QED BY <1>20, <2>1, <2>2, <2>3, AfterReap
<1>21. ASSUME ShowRun PROVE Counted'
  BY <1>21, Typed DEF ShowRun, PageOnly, runner, record, At, Over, Page, Row, Before,
      Compared, Placed
<1>22. ASSUME RunPollFails PROVE Counted'
  BY <1>22, Typed DEF RunPollFails, PageOnly, runner, record, At, Over, Page, Row, Before,
      Compared, Placed
<1>23. ASSUME PollList PROVE Counted'
  BY <1>23, Typed DEF PollList, PageOnly, runner, record, At, Over, Page, Row, Before,
      Compared, Placed
<1>24. ASSUME ReadRows PROVE Counted'
  BY <1>24, Typed DEF ReadRows, PageOnly, runner, record, At, Over, Page, Row, Before,
      Compared, Placed
<1>25. ASSUME ShowList PROVE Counted'
  BY <1>25, Typed DEF ShowList, PageOnly, runner, record, At, Over, Page, Row, Before,
      Compared, Placed
<1>26. ASSUME ListPollFails PROVE Counted'
  BY <1>26, Typed DEF ListPollFails, PageOnly, runner, record, At, Over, Page, Row,
      Before, Compared, Placed
<1>27. CASE UNCHANGED vars
  BY <1>27 DEF vars, runner, record, bounds, At, Worker, Phase, Page, Row, Before,
      Compared, Placed
<1> QED BY <1>1, <1>2, <1>3, <1>4, <1>5, <1>6, <1>7, <1>8, <1>9, <1>10, <1>11, <1>12,
    <1>13, <1>14, <1>15, <1>16, <1>17, <1>18, <1>19, <1>20, <1>21, <1>22, <1>23, <1>24,
    <1>25, <1>26, <1>27 DEF Next, Collect, RunAnswer, ListAnswer

LEMMA SureStep == TypeInv /\ Placed /\ Counted /\ LookedAfter /\ Sure /\ [Next]_vars => Sure'
<1> SUFFICES ASSUME TypeInv, Placed, Counted, LookedAfter, Sure, [Next]_vars PROVE Sure' OBVIOUS
<1> USE DEF Sure
<1>1. ASSUME Claim PROVE Sure'
  BY <1>1, Typed DEF Claim, bounds, Directory, Go, At, Over, Worker, Phase, Row, Placed,
      Counted, LookedAfter, Settled, Final
<1>2. ASSUME NEW missed \in SUBSET File, Snapshot(missed) PROVE Sure'
  BY <1>2, Typed DEF Snapshot, Elsewhere, At, Over, Worker, Phase, Placed, Counted,
      LookedAfter, Settled, Final
<1>3. ASSUME Start PROVE Sure'
  BY <1>3, Typed DEF Start, Elsewhere, Directory, Go, At, Over, Worker, Phase, Placed,
      Counted, LookedAfter, Settled, Final
<1>4. ASSUME NEW f \in File, NEW print \in Nat, Write(f, print) PROVE Sure'
  BY <1>4, Typed DEF Write, Elsewhere, At, Over, Placed, Counted, LookedAfter, Settled,
      Final
<1>5. ASSUME Exit PROVE Sure'
  BY <1>5, Typed DEF Exit, Elsewhere, Directory, Go, At, Over, Worker, Phase, Placed,
      Counted, LookedAfter, Settled, Final
<1>6. ASSUME End PROVE Sure'
  BY <1>6, Typed DEF End, bounds, Directory, Go, At, Ends, Ended, Over, Worker, Phase,
      Row, Placed, Counted, LookedAfter, Settled, Final
<1>7. ASSUME Fail PROVE Sure'
  BY <1>7, Typed DEF Fail, Elsewhere, Directory, Leave, At, Ends, GivenUp, Over, Idle,
      Worker, Phase, Row, Placed, Counted, LookedAfter, Settled, Final
<1>8. ASSUME NEW missed \in SUBSET File, ListOutput(missed) PROVE Sure'
  BY <1>8, Typed DEF ListOutput, Elsewhere, At, Over, Idle, Worker, Phase, Placed,
      Counted, LookedAfter, Settled, Final
<1>9. ASSUME RecordResults PROVE Sure'
  BY <1>9, Typed DEF RecordResults, Elsewhere, Directory, Go, At, Over, Worker, Phase,
      Placed, Counted, LookedAfter, Settled, Final
<1>10. ASSUME MarkCollected PROVE Sure'
  BY <1>10, Typed DEF MarkCollected, Elsewhere, Directory, Leave, At, Over, Idle, Worker,
      Phase, Row, Placed, Counted, LookedAfter, Settled, Final
<1>11. ASSUME CollectThrows PROVE Sure'
  BY <1>11, Typed DEF CollectThrows, Elsewhere, Directory, Leave, At, Over, Idle, Worker,
      Phase, Placed, Counted, LookedAfter, Settled, Final
<1>12. ASSUME MarkCollectionEnded PROVE Sure'
  BY <1>12, Typed DEF MarkCollectionEnded, Elsewhere, Directory, Leave, At, Over, Idle,
      Worker, Phase, Row, Placed, Counted, LookedAfter, Settled, Final
<1>13. ASSUME Release PROVE Sure'
  BY <1>13, Typed DEF Release, bounds, Directory, Leave, At, Over, Idle, Worker, Phase,
      Placed, Counted, LookedAfter, Settled, Final
<1>14. ASSUME Crash PROVE Sure'
  BY <1>14, Typed DEF Crash, Elsewhere, Directory, Leave, At, Over, Idle, Worker, Phase,
      Placed, Counted, LookedAfter, Settled, Final
<1>15. ASSUME ClaimExpires PROVE Sure'
  BY <1>15, Typed DEF ClaimExpires, runner, bounds, At, Over, Placed, Counted,
      LookedAfter, Settled, Final
<1>16. ASSUME ClaimLapses PROVE Sure'
  BY <1>16, Typed DEF ClaimLapses, runner, At, Over, Placed, Counted, LookedAfter,
      Settled, Final
<1>17. ASSUME GraceEnds PROVE Sure'
  BY <1>17, Typed DEF GraceEnds, runner, bounds, At, Over, Placed, Counted, LookedAfter,
      Settled, Final
<1>18. ASSUME PollRun PROVE Sure'
  BY <1>18, Typed DEF PollRun, PageOnly, runner, record, At, Over, Page, Row, Placed,
      Counted, LookedAfter, Settled, Final
<1>19. ASSUME LookForClaim PROVE Sure'
  BY <1>19, Typed DEF LookForClaim, PageOnly, runner, record, At, Over, Page, Row, Placed,
      Counted, LookedAfter, Settled, Final
<1>20. ASSUME Reap PROVE Sure'
  <2> SUFFICES ASSUME ~doubtful' PROVE Sure' BY DEF Sure
  <2>1. /\ ~doubtful /\ ~rec.collected
        /\ ~(rec.status \in Over /\ page.read.status = "live")
    BY <1>20 DEF Reap
  <2>2. worker' = worker /\ claim' = claim BY <1>20 DEF Reap, runner
  <2>3. At("gone") BY <1>20, <2>1, AfterReap
  <2>4. ~(page.run # None /\ Settled(page.run)) BY <2>1 DEF Final
  <2>5. rec.count = None /\ page.read.count = None /\ page.read.status # "queued"
        /\ rec.status # "queued"
    BY <1>20, <2>1, AfterReap DEF Placed, LookedAfter
  <2>6. rec'.count = None /\ rec'.collected /\ page'.read.count = None
        /\ page'.read.status = rec'.status
    BY <1>20, <2>1, <2>5, AfterReap, Typed DEF LookedAfter, GivenUp, Over, Row
  <2>7. ~(page'.run # None /\ Settled(page'.run)) BY <1>20, <2>4, AfterReap
  <2>8. Final(page.read)' BY <2>6 DEF Final
  <2> QED BY <1>20, <2>1, <2>2, <2>3, <2>7, <2>8, AfterReap DEF At
<1>21. ASSUME ShowRun PROVE Sure'
  BY <1>21, Typed DEF ShowRun, PageOnly, runner, record, At, Over, Page, Row, Placed,
      Counted, LookedAfter, Settled, Final
<1>22. ASSUME RunPollFails PROVE Sure'
  BY <1>22, Typed DEF RunPollFails, PageOnly, runner, record, At, Over, Page, Row, Placed,
      Counted, LookedAfter, Settled, Final
<1>23. ASSUME PollList PROVE Sure'
  BY <1>23, Typed DEF PollList, PageOnly, runner, record, At, Over, Page, Row, Placed,
      Counted, LookedAfter, Settled, Final
<1>24. ASSUME ReadRows PROVE Sure'
  BY <1>24, Typed DEF ReadRows, PageOnly, runner, record, At, Over, Page, Row, Placed,
      Counted, LookedAfter, Settled, Final
<1>25. ASSUME ShowList PROVE Sure'
  BY <1>25, Typed DEF ShowList, PageOnly, runner, record, At, Over, Page, Row, Placed,
      Counted, LookedAfter, Settled, Final
<1>26. ASSUME ListPollFails PROVE Sure'
  BY <1>26, Typed DEF ListPollFails, PageOnly, runner, record, At, Over, Page, Row,
      Placed, Counted, LookedAfter, Settled, Final
<1>27. CASE UNCHANGED vars
  BY <1>27 DEF vars, runner, record, bounds, At, Worker, Phase, Page, Row, Placed,
      Counted, LookedAfter, Settled, Final
<1> QED BY <1>1, <1>2, <1>3, <1>4, <1>5, <1>6, <1>7, <1>8, <1>9, <1>10, <1>11, <1>12,
    <1>13, <1>14, <1>15, <1>16, <1>17, <1>18, <1>19, <1>20, <1>21, <1>22, <1>23, <1>24,
    <1>25, <1>26, <1>27 DEF Next, Collect, RunAnswer, ListAnswer
-----------------------------------------------------------------------------
\* Theorems

Inv == TypeInv /\ Placed /\ Compared /\ Counted /\ LookedAfter /\ Sure

LEMMA Always == Spec => []Inv
<1>1. Init => Inv BY TypeInit, InitInvs DEF Inv
<1>2. Inv /\ [Next]_vars => Inv'
  BY TypeStep, PlacedStep, LookedAfterStep, ComparedStep, CountedStep, SureStep DEF Inv
<1> QED BY <1>1, <1>2, PTL DEF Spec

(* Every reachable state is well typed, whatever fails or lapses.          *)
THEOREM TypeCorrect == Spec => []TypeOK
<1>1. Inv => TypeOK BY DEF Inv, TypeInv
<1> QED BY <1>1, Always, PTL

(* What is recorded as produced by a run is what the run wrote, except for *)
(* files that its two listings cannot tell (collect, fingerprint).         *)
THEOREM AttributedRight == Spec => []CollectedIsWhatItWrote
<1>1. Inv => CollectedIsWhatItWrote BY DEF Inv, Compared, CollectedIsWhatItWrote
<1> QED BY <1>1, Always, PTL

(* A panel that stopped asking beside a count shows every file: what it    *)
(* shows is recorded, and there is as much of it as there was to record    *)
(* (resultsRefetchInterval).                                               *)
THEOREM PanelIsComplete == Spec => []StoppedShowsTheFiles
<1>1. ASSUME Inv, Stopped, page.run.count # None PROVE page.files = rows
  <2>1. page \in Page /\ page.run \in Row /\ page.files \in SUBSET File
    BY <1>1, Typed DEF Inv, Page, Stopped
  <2>2. page.run.count \in Nat /\ rows \in SUBSET File
    BY <1>1, <2>1 DEF Row, Inv, TypeInv, TypeOK
  <2>3. page.files \subseteq rows /\ page.run.count = Cardinality(rows)
    BY <1>1 DEF Inv, Counted, Stopped
  <2>4. ~(Cardinality(page.files) < page.run.count)
    BY <1>1 DEF Stopped, AsksAgain
  <2>5. IsFiniteSet(rows) /\ Cardinality(rows) \in Nat /\ Cardinality(page.files) \in Nat
    BY <2>1, <2>2, CountsFiles
  <2>6. Cardinality(page.files) <= Cardinality(rows)
        /\ (Cardinality(rows) = Cardinality(page.files) => rows = page.files)
    BY <2>3, <2>5, FS_Subset
  <2> QED BY <2>2, <2>3, <2>4, <2>5, <2>6
<1>2. Inv => StoppedShowsTheFiles BY <1>1 DEF StoppedShowsTheFiles
<1> QED BY <1>2, Always, PTL

(* What a page has taken for settled is what the row says, and goes on     *)
(* saying, unless the run was given up while its worker lived or while it  *)
(* came to its end (collectionSettled, reapIfOrphaned).                    *)
THEOREM SettledForGood == Spec => []SettledStays
<1>1. Inv => SettledStays BY DEF Inv, Sure, Final, SettledStays, SettledIsFinal
<1> QED BY <1>1, Always, PTL

-----------------------------------------------------------------------------
\* What a page shows never goes back

(* A later look at a row: it was taken, is over, has its stamps or its     *)
(* count if it had them before.                                            *)
Ahead(old, new) ==
  /\ old.status # "queued" => new.status # "queued"
  /\ old.status \in Over => new.status \in Over
  /\ old.finished => new.finished
  /\ old.collected => new.collected
  /\ old.count # None => new.count = old.count

(* Two answers are in play, the one on screen and the one in hand, and the *)
(* second is no copy of the row once the reaper has put its own end in it. *)
Behind ==
  /\ page.run # None => Ahead(page.run, rec)
  /\ page.asked # "idle" => Ahead(page.read, rec)
  /\ page.run # None /\ page.asked # "idle" => Ahead(page.run, page.read)

PageNeverGoesBack ==
  [][page.run # None => page'.run \in Row /\ Ahead(page.run, page'.run)]_vars

LEMMA AheadIsAnOrder ==
  ASSUME NEW a, NEW b, NEW c
  PROVE  Ahead(a, a) /\ (Ahead(a, b) /\ Ahead(b, c) => Ahead(a, c))
BY DEF Ahead

LEMMA RowGoesAhead == TypeInv /\ Placed /\ LookedAfter /\ [Next]_vars => Ahead(rec, rec')
<1> SUFFICES ASSUME TypeInv, Placed, LookedAfter, [Next]_vars PROVE Ahead(rec, rec') OBVIOUS
<1>1. ASSUME Claim PROVE Ahead(rec, rec')
  BY <1>1, Typed DEF Claim, Placed, Row, Over, Ahead
<1>2. ASSUME End PROVE Ahead(rec, rec')
  BY <1>2, Typed DEF End, Ends, Ended, Placed, Row, Over, Ahead
<1>3. ASSUME Fail PROVE Ahead(rec, rec')
  BY <1>3, Typed DEF Fail, Ends, GivenUp, Placed, Row, Over, Ahead
<1>4. ASSUME MarkCollected PROVE Ahead(rec, rec')
  BY <1>4, Typed DEF MarkCollected, At, Placed, Row, Over, Ahead
<1>5. ASSUME MarkCollectionEnded PROVE Ahead(rec, rec')
  BY <1>5, Typed DEF MarkCollectionEnded, Placed, Row, Over, Ahead
<1>6. ASSUME Reap PROVE Ahead(rec, rec')
  <2>1. \/ rec'.collected /\ rec'.status = rec.status /\ rec'.count = rec.count
           /\ rec' = [rec EXCEPT !.collected = TRUE]
        \/ rec' = IF rec.status = "live" THEN GivenUp ELSE rec
    BY <1>6, Typed DEF Reap, Ends, Row
  <2> QED BY <2>1, Typed DEF GivenUp, Placed, Row, Over, Ahead
<1>7. ASSUME UNCHANGED rec PROVE Ahead(rec, rec') BY <1>7, AheadIsAnOrder
<1>8. CASE \/ Start \/ Exit \/ CollectThrows \/ RecordResults \/ Release \/ Crash
           \/ ClaimExpires \/ ClaimLapses \/ GraceEnds
  BY <1>7, <1>8 DEF Start, Exit, CollectThrows, RecordResults, Release, Crash,
     ClaimExpires, ClaimLapses, GraceEnds
<1>9. ASSUME NEW missed, Snapshot(missed) \/ ListOutput(missed) PROVE Ahead(rec, rec')
  BY <1>7, <1>9 DEF Snapshot, ListOutput
<1>10. ASSUME NEW f, NEW print, Write(f, print) PROVE Ahead(rec, rec')
  BY <1>7, <1>10 DEF Write
<1>11. CASE \/ PollRun \/ LookForClaim \/ ShowRun \/ RunPollFails
            \/ PollList \/ ListAnswer \/ ListPollFails
  BY <1>7, <1>11 DEF PollRun, LookForClaim, ShowRun, RunPollFails, PollList, ListAnswer,
     ReadRows, ShowList, ListPollFails, PageOnly, record
<1>12. CASE UNCHANGED vars BY <1>7, <1>12 DEF vars, record
<1> QED BY <1>1, <1>2, <1>3, <1>4, <1>5, <1>6, <1>8, <1>9, <1>10, <1>11, <1>12
    DEF Next, Collect, RunAnswer

(* What a step may do to the two answers: nothing, ask, have the answer    *)
(* changed by the reaper, show it, or drop it.                             *)
SameRun == page'.run = page.run
Moved ==
  \/ SameRun /\ page'.asked = page.asked /\ page'.read = page.read
  \/ SameRun /\ page'.read = rec /\ rec' = rec
  \/ SameRun /\ page'.read = page.read /\ page.asked # "idle"
  \/ Reap
  \/ page.asked = "answer" /\ page'.run = page.read /\ page'.asked = "idle"
  \/ SameRun /\ page'.asked = "idle"

LEMMA PageMoved == TypeInv /\ [Next]_vars => Moved
<1> SUFFICES ASSUME TypeInv, [Next]_vars PROVE Moved OBVIOUS
<1>1. ASSUME UNCHANGED page PROVE Moved BY <1>1 DEF Moved, SameRun
<1>2. CASE PollRun
  BY <1>2, Typed DEF PollRun, PageOnly, record, Page, Moved, SameRun
<1>3. CASE LookForClaim BY <1>3, Typed DEF LookForClaim, Page, Moved, SameRun
<1>4. CASE Reap BY <1>4 DEF Moved
<1>5. CASE ShowRun BY <1>5, Typed DEF ShowRun, Page, Moved
<1>6. CASE RunPollFails BY <1>6, Typed DEF RunPollFails, Page, Moved, SameRun
<1>7. CASE PollList \/ ListAnswer \/ ListPollFails
  BY <1>7, Typed DEF PollList, ListAnswer, ReadRows, ShowList, ListPollFails, Page,
     Moved, SameRun
<1>8. CASE \/ Claim \/ End \/ MarkCollected \/ MarkCollectionEnded \/ Fail \/ Start \/ Exit
           \/ CollectThrows \/ RecordResults \/ Release \/ Crash
           \/ ClaimExpires \/ ClaimLapses \/ GraceEnds
  BY <1>1, <1>8 DEF Claim, End, MarkCollected, MarkCollectionEnded, Fail, Start, Exit,
     CollectThrows, RecordResults, Release, Crash, ClaimExpires, ClaimLapses, GraceEnds,
     Elsewhere
<1>9. ASSUME NEW missed, Snapshot(missed) \/ ListOutput(missed) PROVE Moved
  BY <1>1, <1>9 DEF Snapshot, ListOutput, Elsewhere
<1>10. ASSUME NEW f, NEW print, Write(f, print) PROVE Moved
  BY <1>1, <1>10 DEF Write, Elsewhere
<1>11. CASE UNCHANGED vars BY <1>1, <1>11 DEF vars
<1> QED BY <1>2, <1>3, <1>4, <1>5, <1>6, <1>7, <1>8, <1>9, <1>10, <1>11
    DEF Next, Collect, RunAnswer

(* The end that the reaper puts into the answer is never behind what was   *)
(* read, nor ahead of what the row says by then.                           *)
LEMMA ReapedAnswer ==
  ASSUME TypeInv, Placed, LookedAfter, Reap, Ahead(page.read, rec)
  PROVE  Ahead(page.read, page'.read) /\ Ahead(page'.read, rec')
<1>1. page.read \in Row /\ rec \in Row /\ page'.read.count = page.read.count
      /\ page'.read.finished = page.read.finished
  BY AfterReap, Typed DEF TypeInv, InHand
<1>2. rec.status # "queued" /\ page.read.count = None
  BY AfterReap DEF LookedAfter
<1>3. CASE page.read.status \in Over
  <2>1. /\ page'.read.collected /\ page'.read.status = page.read.status
        /\ rec' = [rec EXCEPT !.collected = TRUE]
    BY <1>3, AfterReap DEF Reap
  <2> QED BY <1>1, <2>1 DEF Ahead, Row
<1>4. CASE page.read.status \notin Over
  <2>1. /\ page'.read.collected = page.read.collected /\ page'.read.status = "failed"
        /\ rec' = IF rec.status = "live" THEN GivenUp ELSE rec
    BY <1>4, AfterReap
  <2> QED BY <1>1, <1>2, <2>1 DEF Ahead, Row, Over, GivenUp
<1> QED BY <1>3, <1>4

Onward == page.run # None => page'.run \in Row /\ Ahead(page.run, page'.run)

LEMMA BehindStep ==
  TypeInv /\ Placed /\ LookedAfter /\ Behind /\ [Next]_vars => Behind' /\ Onward
<1> SUFFICES ASSUME TypeInv, Placed, LookedAfter, Behind, [Next]_vars PROVE Behind' /\ Onward
  OBVIOUS
<1>1. Ahead(rec, rec') BY RowGoesAhead
<1>2. /\ page.run # None => page.run \in Row
      /\ page.asked # "idle" => page.read \in Row
  BY Typed DEF Page, TypeInv, InHand
<1>3. CASE SameRun /\ page'.asked = page.asked /\ page'.read = page.read
  BY <1>1, <1>2, <1>3, AheadIsAnOrder DEF Behind, SameRun, Onward
<1>4. CASE SameRun /\ page'.read = rec /\ rec' = rec
  BY <1>2, <1>4, AheadIsAnOrder DEF Behind, SameRun, Onward
<1>5. CASE SameRun /\ page'.read = page.read /\ page.asked # "idle"
  BY <1>1, <1>2, <1>5, AheadIsAnOrder DEF Behind, SameRun, Onward
<1>6. CASE Reap
  <2>1. page.asked # "idle" /\ page'.run = page.run BY <1>6, AfterReap
  <2>2. Ahead(page.read, page'.read) /\ Ahead(page'.read, rec')
    BY <1>6, <2>1, ReapedAnswer DEF Behind
  <2> QED BY <1>1, <1>2, <2>1, <2>2, AheadIsAnOrder DEF Behind, Onward
<1>7. CASE page.asked = "answer" /\ page'.run = page.read /\ page'.asked = "idle"
  BY <1>1, <1>2, <1>7, AheadIsAnOrder DEF Behind, Onward
<1>8. CASE SameRun /\ page'.asked = "idle"
  BY <1>1, <1>2, <1>8, AheadIsAnOrder DEF Behind, SameRun, Onward
<1> QED BY <1>3, <1>4, <1>5, <1>6, <1>7, <1>8, PageMoved DEF Moved

(* What a page shows never goes back, neither from over to live nor from a *)
(* count to another or to none: the answer in which reapIfOrphaned puts an *)
(* end of its own is followed by rows that are over as well (runService.ts *)
(* 278-318).                                                               *)
THEOREM NeverGoesBack == Spec => PageNeverGoesBack
<1>1. Init => Behind BY DEF Init, Behind
<1>2. Inv /\ [Next]_vars /\ Behind => Behind' BY BehindStep DEF Inv
<1>3. Inv /\ Behind /\ [Next]_vars => [page.run # None => page'.run \in Row /\ Ahead(page.run, page'.run)]_vars
  BY BehindStep DEF Inv, Onward
<1> QED BY <1>1, <1>2, <1>3, Always, PTL DEF Spec, PageNeverGoesBack
================================================================================
