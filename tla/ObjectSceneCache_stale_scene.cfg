SPECIFICATION Safety
CONSTANTS
  Objects = {a, b}
  Views = {{}, {a}, {b}, {a, b}}
  NoNode = NoNode
  Damaged = Damaged
  SceneCap = 2
  NodeCap = 1
  MaxInst = 6
  MaxOps = 4
  Ops = {"modify", "look"}
INVARIANT UpToDate
CHECK_DEADLOCK FALSE
