\* A browser that takes its time.  Nothing fails.
SPECIFICATION Spec
CONSTANTS
  f1 = f1
  f2 = f2
  File <- MCFile
  Initial <- MCInitial
  Client = {c1}
  Slot = {s1, s2}
  MaxLength = 3
  DownloadCap = 2
  PreviewCap = 1
  MaxRequests = 2
  MaxEvents = 0
INVARIANT SlowIsServed
\* The browser may be done, and the runner with it.
CHECK_DEADLOCK FALSE
