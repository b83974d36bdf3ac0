SPECIFICATION Spec
CONSTANTS
    Managers = {m1, m2}
    Probes = {p1}
    NoManager = null
    Paths = {a, b, c}
    NoPath = empty
    Unwritable = {c}
    MaxWorkers = 3
INVARIANTS
    TypeOK
    PointerRegistered
    OneWorkerPerPath
    WorkerFollowsPath
    ForeignResultsShared
PROPERTIES
    GhostsPruned
CHECK_DEADLOCK FALSE
