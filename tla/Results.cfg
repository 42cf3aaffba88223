\* A file that was there and one that was not; a claim may lapse once, and two
\* writes or failures happen anywhere.
SPECIFICATION FairSpec
CONSTANTS
  f1 = f1
  f2 = f2
  None = None
  File <- MCFile
  There <- MCThere
  MaxLapses = 1
  MaxEvents = 2
INVARIANTS CollectedIsWhatItWrote StoppedShowsTheFiles SettledStays
PROPERTY PollingEnds
\* The page stops asking once the run has settled.
CHECK_DEADLOCK FALSE
