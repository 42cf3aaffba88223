\* Two screens and two areas, three clicks, edits or failures.
SPECIFICATION Spec
CONSTANTS
  a1 = a1
  a2 = a2
  n1 = n1
  n2 = n2
  n3 = n3
  OneOff = OneOff
  Recurring = Recurring
  g1 = g1
  p1 = p1
  None = None
  c1 = c1
  c2 = c2
  Console <- MCConsole
  Area <- MCArea
  Name <- MCName
  Category <- MCCategory
  Group <- MCGroup
  Path <- MCPath
  Initial <- MCInitial
  MaxEvents = 3
INVARIANTS TrailTellsTheMapping OwnChangeIsShown
PROPERTY SaveWritesThisArea
\* The screens rest when nobody asks for anything.
CHECK_DEADLOCK FALSE
SYMMETRY Alike
