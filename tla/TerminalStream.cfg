\* Three chunks through a stream that keeps one entry, with two lost connections
\* or reloads and one failure anywhere.
SPECIFICATION FairSpec
CONSTANTS
  Cap = 1
  MaxReconnects = 1
  MaxChunks = 3
  MaxDrops = 2
  MaxFaults = 1
INVARIANTS InOrderOnce HolesAreAnnounced HistoryOutlivesTheStream
PROPERTY WatcherCatchesUp
\* The system rests when the run is over and nobody watches it.
CHECK_DEADLOCK FALSE
