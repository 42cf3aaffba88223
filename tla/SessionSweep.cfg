\* Two changes of the mapping, from any mapping, against a session that is used,
\* logged out, expires and is swept over, with one operation cut short.
SPECIFICATION FairSpec
CONSTANTS
  Session = {s1}
  Op = {q1, q2}
  Group = {g1}
  Area = {a1, a2}
  Gone = Gone
  MaxChanges = 2
  MaxFaults = 1
INVARIANTS AreasWereGranted StaleOnlyByOverlap LoggedOutStaysOut
PROPERTY RevocationTakesEffect
\* The system rests when every session is gone and nobody logs in.
CHECK_DEADLOCK FALSE
