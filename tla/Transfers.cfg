\* One browser, two slots, files of two chunks and of one; two failures or changes
\* of a file anywhere.
SPECIFICATION FairSpec
CONSTANTS
  f1 = f1
  f2 = f2
  File <- MCFile
  Initial <- MCInitial
  Client = {c1}
  Slot = {s1, s2}
  MaxLength = 3
  DownloadCap = 2
  PreviewCap = 1
  MaxRequests = 2
  MaxEvents = 2
INVARIANT CompleteIsWhole
PROPERTIES TransferEnds RepliesGoAway
\* The browser may be done, and the runner with it.
CHECK_DEADLOCK FALSE
