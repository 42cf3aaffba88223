\* One stop of a script, nothing fails: the two channels close in either order.
SPECIFICATION FairSpec
CONSTANTS
  Patient = {1, 2}
  MaxClicks = 1
  MaxLost = 0
INVARIANT SignalledIsAborted
\* The system rests once the run is wound up.
CHECK_DEADLOCK FALSE
