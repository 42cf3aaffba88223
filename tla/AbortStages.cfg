\* A stop of a script that may ignore all it can ignore, clicked twice, with one
\* failure anywhere.
SPECIFICATION FairSpec
CONSTANTS
  Patient = {1, 2}
  MaxClicks = 2
  MaxLost = 1
INVARIANTS StoppedIsAborted StagesInOrder
PROPERTIES NothingIsSentAfterTheEnd StopTakesEffect
\* The system rests once the run is wound up.
CHECK_DEADLOCK FALSE
