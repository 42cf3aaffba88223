\* Everything may go wrong once: a statement throws, a process dies, a job is
\* delivered twice, a claim lapses under a slow slot, a stop races SUBSCRIBE.
SPECIFICATION Spec
CONSTANTS
  r1 = r1
  w1 = w1
  w2 = w2
  q1 = q1
  Run = {r1}
  Worker = {w1, w2}
  Request = {q1}
  NoRun = NoRun
  NoWorker = NoWorker
  PromptStart = FALSE
  PromptSubscribe = FALSE
  MaxFaults = 1
  MaxCrashes = 1
  MaxRequeues = 1
SYMMETRY Interchangeable
INVARIANTS StartedOnce WithdrawnNeverStarts
PROPERTY FollowsTheRecord
\* The system rests once its run is over and nobody asks for anything.
CHECK_DEADLOCK FALSE
