SPECIFICATION Spec
CONSTANTS
  Objects = {a, b, c}
  Views = {{}, {a, b}, {c}, {a, b, c}}
  NoNode = NoNode
  Damaged = Damaged
  SceneCap = 2
  NodeCap = 1
  MaxInst = 6
  MaxOps = 2
  Ops = {"modify", "look", "free", "remove", "exit", "delete", "fail"}
INVARIANTS TypeOK WithinCapacity NodesOwned LoadingTracked RecencyOrder Recoverable
PROPERTY LoadsComplete
CHECK_DEADLOCK FALSE
