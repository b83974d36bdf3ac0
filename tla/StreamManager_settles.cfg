SPECIFICATION Spec
CONSTANTS
  a = a
  b = b
  Objects = {a, b}
  Nil = Nil
  NoNode = NoNode
  Cells = {0, 1}
  Origin = 0
  Parent <- Flat
  QueryPeriod = 2
  MaxLoadsPerFrame = 4
  MaxInst = 2
  MaxPending = 2
  MaxQueue = 2
  MaxOps = 3
  Ops = {"add", "remove", "move", "look", "fail"}
PROPERTY Settles
