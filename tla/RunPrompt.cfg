\* Nothing is slower than the timeouts allow for and no statement throws; one
\* process may die anywhere.  What must hold then, and what must happen.
SPECIFICATION FairSpec
CONSTANTS
  r1 = r1
  w1 = w1
  w2 = w2
  q1 = q1
  Run = {r1}
  Worker = {w1, w2}
  Request = {q1}
  NoRun = NoRun
  NoWorker = NoWorker
  PromptStart = TRUE
  PromptSubscribe = TRUE
  MaxFaults = 0
  MaxCrashes = 1
  MaxRequeues = 0
INVARIANTS ReapedHasNoDriver AuditAgrees StopIsHeard
PROPERTIES StopEndsTheRun OrphanIsEnded CollectionSettles
\* The system rests once its run is over and nobody asks for anything.
CHECK_DEADLOCK FALSE
