SPECIFICATION Safety
CONSTANTS
  a = a
  b = b
  Objects = {a, b}
  Nil = Nil
  NoNode = NoNode
  Cells = {0, 1}
  Origin = 0
  Parent <- Family
  QueryPeriod = 1
  MaxLoadsPerFrame = 4
  MaxInst = 2
  MaxPending = 2
  MaxQueue = 2
  MaxOps = 5
  Ops = {"add", "remove", "free", "look"}
INVARIANTS ChildrenRegistered OneNodePerRoot CachedNotInTree
