SPECIFICATION Safety
CONSTANTS
  a = a
  b = b
  Objects = {a}
  Nil = Nil
  NoNode = NoNode
  Cells = {0, 1}
  Origin = 0
  Parent <- Flat
  QueryPeriod = 2
  MaxLoadsPerFrame = 4
  MaxInst = 2
  MaxPending = 2
  MaxQueue = 2
  MaxOps = 4
  Ops = {"add", "move", "look"}
INVARIANT ObjectsStored
