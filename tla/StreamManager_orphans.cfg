SPECIFICATION Spec
CONSTANTS
  a = a
  b = b
  Objects = {a, b}
  Nil = Nil
  NoNode = NoNode
  Cells = {0, 1}
  Origin = 0
  Parent <- Family
  QueryPeriod = 1
  MaxLoadsPerFrame = 4
  MaxInst = 1
  MaxPending = 1
  MaxQueue = 2
  MaxOps = 4
  Ops = {"add", "look"}
PROPERTY FamiliesSettle
