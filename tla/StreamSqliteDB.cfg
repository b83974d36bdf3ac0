SPECIFICATION Spec
CONSTANTS
    root = root
    child = child
    leaf = leaf
    nil = nil
    Axes = {x}
    Unit = 2
    IntBits = 8
    Objects = {root, child, leaf}
    Nil = nil
    Null = null
    Parent <- Line
    Boxes <- MCBoxes
    Views <- MCViews
    ChunkCap = 2
    AabbCap = 1
    MaxDirty = 2
    MaxFlushes = 2
    Contention = TRUE
INVARIANTS
    TypeOK
    ChunkCacheCoherent
    AabbCacheCoherent
    CornerFound
PROPERTIES
    ImplementsIndex
CHECK_DEADLOCK FALSE
