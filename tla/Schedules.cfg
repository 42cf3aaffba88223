SPECIFICATION Spec
CONSTANTS
  a = a
  b = b
  Daily = Daily
  Weekly = Weekly
  LastDay = LastDay
  u1 = u1
  u2 = u2
  Keep = Keep
  Command <- MCCommand
  Plain <- MCPlain
  Extended <- MCExtended
  Alias <- MCAlias
  Update <- MCUpdate
  Files <- MCFiles
  HandLine <- MCHandLine
  HandPlace = {0}
  Slots = 2
  MaxEvents = 1
\* The page rests when every click is answered.
CHECK_DEADLOCK FALSE
INVARIANT AuditAgrees
PROPERTIES ForeignLinesStay OneJobChanges ClickIsAnswered
