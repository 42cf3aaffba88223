\* Two directories, one of them mapped at first; four clicks, changes, failures or
\* ticks, in any order with the statements of two requests and a start.
SPECIFICATION Spec
CONSTANTS
  s1 = s1
  s2 = s2
  f1 = f1
  f2 = f2
  ReadOnly = ReadOnly
  Undeclared = Undeclared
  None = None
  Console = {c1}
  Source <- MCSource
  File <- MCFile
  Declared <- MCDeclared
  Mapped <- MCMapped
  Initial <- MCInitial
  Ttl = 1
  MaxEvents = 4
INVARIANTS CatalogIsTheListing RescanShowsTheDirectory ListIsFresh StartedAsShown RunKeepsItsScript
\* The page rests when nobody asks for anything.
CHECK_DEADLOCK FALSE
SYMMETRY SameNames
