---------------------------- MODULE StreamManager ----------------------------
(***************************************************************************)
(* core/stream/stream_manager.cpp with the parts of object_scene_cache.cpp *)
(* and stream_sqlite_db.cpp its handlers call: which objects are           *)
(* registered, which have a node in the scene tree, which rows the         *)
(* database holds, and how the three drift apart while query results are   *)
(* in flight on the database thread.                                       *)
(*                                                                         *)
(* The main thread runs user code, then the completed database callbacks   *)
(* (process_frame), then _process; user code between the callbacks and     *)
(* _process adds no order that a slower database thread does not give.     *)
(* _process is a chain of steps, one per statement group, that nothing on  *)
(* the main thread interrupts.  Tasks reach the database in push order     *)
(* (AsyncDbWorkerProofs!ImplementsExecutor).                               *)
(*                                                                         *)
(* Space is a set of cells: an AABB is a set of cells, and two boxes       *)
(* intersect when they share a cell.  The LRU capacities (16 and 32) are   *)
(* never reached with this many objects.                                   *)
(***************************************************************************)
EXTENDS Integers, Sequences, FiniteSets

CONSTANTS
    Objects,           \* uuids
    Nil,               \* the nil uuid
    NoNode,            \* the null ObjectID
    Cells,             \* space
    Origin,            \* the cell of a default-constructed AABB
    Parent,            \* the parent_uuid the user gives each object's node
    QueryPeriod,       \* frames between two polls of the probes (4)
    MaxLoadsPerFrame,  \* MAX_LOADS_PER_FRAME (4)
    MaxInst,           \* bound: node instances per object
    MaxPending,        \* bound: tasks and results under way when polling
    MaxQueue,          \* bound: load_queue_ when polling
    MaxOps,            \* bound: user operations and failed saves
    Ops                \* which of them are performed

ASSUME ConstantsAssumption ==
    /\ IsFiniteSet(Objects)
    /\ Nil \notin Objects
    /\ NoNode \notin Objects \X (1..MaxInst)
    /\ Origin \in Cells
    /\ Parent \in [Objects -> Objects \cup {Nil}]
    /\ QueryPeriod \in Nat \ {0} /\ MaxLoadsPerFrame \in Nat \ {0}
    /\ MaxInst \in Nat \ {0} /\ MaxPending \in Nat /\ MaxQueue \in Nat
    /\ MaxOps \in Nat

VARIABLES
    \* the engine
    attached,          \* the manager is inside the tree
    hooked,            \* its child_entered_tree / child_exiting_tree are connected
    where,             \* the state of each node instance
    cell,              \* the cell of each object's node
    view,              \* the cells the registered probes cover
    born,              \* uuids handed out
    ops,               \* user operations and failed saves so far
    \* the manager
    registry_, registry_order, \* the map, and the order it is iterated in
    children_map_, object_removal_, to_upsert_uuids_, to_remove_,
    dirty_aabb_, load_queue_, loaded_queue_, query_process,
    pc,                \* what the main thread does next
    loads,             \* loads done in this frame
    \* its ObjectSceneCache, the scene files and their savers and loaders
    node_cache_, scene_cache_, loading, failed, files, saves,
    \* the database and its thread
    rows, tasks, completed, local

engine  == <<attached, hooked, where, cell, view, born>>
cache   == <<node_cache_, scene_cache_, loading, failed, files, saves>>
pending == <<object_removal_, to_upsert_uuids_, to_remove_, dirty_aabb_>>
queues  == <<load_queue_, loaded_queue_, loads>>
db      == <<rows, tasks, completed, local>>
entries == <<registry_, registry_order, children_map_>>
vars == <<engine, ops, entries, pending, queues, query_process,
          pc, cache, db>>

Nodes == Objects \X (1..MaxInst)
NodeStates == {"none",     \* never instantiated
               "child",    \* a child of the manager
               "held",     \* removed by the user, who keeps it
               "cached",   \* unloaded, owned by node_cache_
               "freed"}
Entry == [parent : Objects \cup {Nil}, node : Nodes \cup {NoNode}]
Row == [parent : Objects \cup {Nil}, aabb : SUBSET Cells, chunk : SUBSET Cells]

\* Maps from some objects to V: query results (uuid to parent_uuid), captured
\* AABBs.
Maps(V) == UNION {[S -> V] : S \in SUBSET Objects}
Results == Maps(Objects \cup {Nil})
Flushes == [kind : {"flush"}, upsert : Seq(Objects), parent : Results,
            remove : SUBSET Objects, dirty : Maps(SUBSET Cells)]
Queries == [kind : {"query"}, view : SUBSET Cells]
Uuid(n) == n[1]

\* A map without the keys in S, and with k mapped to v.
Without(f, S) == [x \in DOMAIN f \ S |-> f[x]]
With(f, k, v) == [x \in DOMAIN f \cup {k} |-> IF x = k THEN v ELSE f[x]]

\* Erasing from an unordered_dense set moves its last element into the hole,
\* which changes the order in which the set is later iterated.
SwapErase(s, x) ==
    IF \E i \in 1..Len(s) : s[i] = x
      THEN LET i == CHOOSE i \in 1..Len(s) : s[i] = x
           IN  [j \in 1..(Len(s) - 1) |-> IF j = i THEN s[Len(s)] ELSE s[j]]
      ELSE s

EraseInOrder(s, order) ==
    LET erased[i \in 0..Len(order)] ==
            IF i = 0 THEN s ELSE SwapErase(erased[i - 1], order[i])
    IN  erased[Len(order)]

\* The orders in which S can be iterated; t as such an order of S.
Elements(s) == {s[i] : i \in 1..Len(s)}
Orders(S) ==
    {f \in [1..Cardinality(S) -> S] : \A x \in S : \E i \in DOMAIN f : f[i] = x}
OrderOf(S, t) == {f \in Orders(S) : f = t}

\* What is left of s when the elements of order are erased one by one.
ErasedFrom(s, order) ==
    OrderOf(Elements(s) \ Elements(order), EraseInOrder(s, order))

\* Inserting into an unordered_dense set appends at its end.
Insert(s, x) == IF \E i \in 1..Len(s) : s[i] = x THEN s ELSE Append(s, x)

\* Mutant: the object stays in dirty_aabb_.
EraseDirty_Forgotten(S) == dirty_aabb_

\* _erase_registry_entry takes the object out of registry_, to_upsert_uuids_
\* and dirty_aabb_; this is the last of the three.
EraseDirty(S) == dirty_aabb_ \ S

\* _collect_descendants: the objects reached from root through children_map_.
_collect_descendants(root) ==
    {x \in Objects : \A S \in SUBSET Objects :
        root \in S /\ (\A p \in S : children_map_[p] \subseteq S) => x \in S}

ChildrenOf(reg) ==
    [p \in Objects |-> {c \in DOMAIN reg : reg[c].parent = p}]

Init ==
    /\ attached = TRUE /\ hooked = TRUE
    /\ where = [n \in Nodes |-> "none"]
    /\ cell = [u \in Objects |-> Origin]
    /\ view = {} /\ born = {} /\ ops = 0
    /\ registry_order = <<>>
    /\ registry_ = [u \in {} |-> [parent |-> Nil, node |-> NoNode]]
    /\ children_map_ = [u \in Objects |-> {}]
    /\ object_removal_ = {} /\ to_upsert_uuids_ = <<>> /\ to_remove_ = {}
    /\ dirty_aabb_ = {} /\ load_queue_ = <<>> /\ loaded_queue_ = <<>>
    /\ query_process = 0 /\ pc = "user" /\ loads = 0
    /\ node_cache_ = [u \in Objects |-> NoNode]
    /\ scene_cache_ = {} /\ loading = [u \in Objects |-> "none"]
    /\ failed = {} /\ files = {} /\ saves = {}
    /\ rows = [u \in {} |-> [parent |-> Nil, aabb |-> {}, chunk |-> {}]]
    /\ tasks = <<>> /\ completed = <<>> /\ local = <<>>

-----------------------------------------------------------------------------
(* The user's operations, and the slots they trigger.                      *)

Counted(op) == op \in Ops /\ ops < MaxOps /\ ops' = ops + 1

User(op) ==
    /\ pc = "user" /\ Counted(op)
    /\ UNCHANGED <<query_process, pc, queues, node_cache_, scene_cache_,
                   loading, failed, files, db>>

\* add_child(node) of a node without uuid: _on_object_entered generates one
\* and calls add_object.
Add(u, c) ==
    /\ User("add")
    /\ attached /\ u \notin born /\ u \notin DOMAIN registry_
    /\ Parent[u] = Nil \/ Parent[u] \in born
    /\ born' = born \cup {u}
    /\ where' = [where EXCEPT ![<<u, 1>>] = "child"]
    /\ cell' = [cell EXCEPT ![u] = c]
    /\ IF hooked
         THEN /\ registry_' = With(registry_, u,
                                  [parent |-> Parent[u], node |-> <<u, 1>>])
              /\ registry_order' = Append(registry_order, u)
              /\ children_map_' = IF Parent[u] = Nil THEN children_map_ ELSE
                    [children_map_ EXCEPT ![Parent[u]] = @ \cup {u}]
              /\ to_upsert_uuids_' = Insert(to_upsert_uuids_, u)
              /\ dirty_aabb_' = dirty_aabb_ \cup {u}
         ELSE UNCHANGED <<entries, to_upsert_uuids_, dirty_aabb_>>
    /\ UNCHANGED <<attached, hooked, view, object_removal_, to_remove_, saves>>

\* remove_child(node): _on_object_exited takes it for a deletion.
Remove(n) ==
    /\ User("remove")
    /\ attached /\ where[n] = "child"
    /\ where' = [where EXCEPT ![n] = "held"]
    /\ object_removal_' = IF hooked THEN object_removal_ \cup {Uuid(n)}
                                    ELSE object_removal_
    /\ UNCHANGED <<attached, hooked, cell, view, born, entries,
                   to_upsert_uuids_, to_remove_, dirty_aabb_, saves>>

\* add_child(node) of a node that has a uuid: _on_object_entered only records
\* the instance (registry_[uuid] creates a missing entry).
ReAdd(n) ==
    /\ User("readd")
    /\ attached /\ where[n] = "held"
    /\ where' = [where EXCEPT ![n] = "child"]
    /\ registry_' = IF hooked
                      THEN With(registry_, Uuid(n),
                             [parent |-> IF Uuid(n) \in DOMAIN registry_
                                           THEN registry_[Uuid(n)].parent ELSE Nil,
                              node |-> n])
                      ELSE registry_
    /\ registry_order' = IF hooked THEN Insert(registry_order, Uuid(n)) ELSE registry_order
    /\ UNCHANGED <<attached, hooked, cell, view, born, children_map_, pending, saves>>

\* queue_free() of a node: saved on the way out, still registered.
QueueFree(n) ==
    /\ User("free")
    /\ attached /\ where[n] = "child"
    /\ where' = [where EXCEPT ![n] = "freed"]
    /\ IF hooked
         THEN /\ saves' = saves \cup {Uuid(n)}
              /\ dirty_aabb_' = dirty_aabb_ \ {Uuid(n)}
         ELSE UNCHANGED <<saves, dirty_aabb_>>
    /\ UNCHANGED <<attached, hooked, cell, view, born, entries,
                   object_removal_, to_upsert_uuids_, to_remove_>>

\* A transform change: on_object_aabb_changed.
Move(n, c) ==
    /\ User("move")
    /\ attached /\ where[n] = "child" /\ cell[Uuid(n)] # c
    /\ cell' = [cell EXCEPT ![Uuid(n)] = c]
    /\ dirty_aabb_' = IF Uuid(n) \in DOMAIN registry_
                        THEN dirty_aabb_ \cup {Uuid(n)} ELSE dirty_aabb_
    /\ UNCHANGED <<attached, hooked, where, view, born, entries,
                   object_removal_, to_upsert_uuids_, to_remove_, saves>>

\* The probes move, appear or disappear.
Look(v) ==
    /\ User("look")
    /\ view # v
    /\ view' = v
    /\ UNCHANGED <<attached, hooked, where, cell, born, entries,
                   pending, saves>>

-----------------------------------------------------------------------------
(* Database tasks.                                                         *)

\* _flush_pending_db_ops: the rows to upsert and the AABBs are captured on the
\* main thread; nothing is pushed when nothing is pending.
FlushTask(upserts, removes, dirty) ==
    LET known == Elements(upserts) \cap DOMAIN registry_
        nodes == {u \in dirty \cap DOMAIN registry_ :
                     /\ registry_[u].node # NoNode
                     /\ where[registry_[u].node] = "child"}
    IN  IF known = {} /\ removes = {} /\ nodes = {} THEN <<>>
        ELSE <<[kind   |-> "flush",
                upsert |-> upserts,
                parent |-> [u \in known |-> registry_[u].parent],
                remove |-> removes,
                dirty  |-> [u \in nodes |-> {cell[u]}]]>>

\* DELETE with ON DELETE CASCADE along parent_uuid.
DeleteRows(r, removes) ==
    LET gone == {x \in DOMAIN r : \E u \in removes :
                    \A S \in SUBSET DOMAIN r :
                        u \in S /\ (\A c \in DOMAIN r : r[c].parent \in S => c \in S)
                            => x \in S}
    IN  Without(r, gone)

\* upsert_object_uuids in turn: the foreign key on parent_uuid refuses a row
\* whose parent has none yet; the failed statement is reported and skipped.
UpsertRows(r, t) ==
    LET ok == CHOOSE f \in [1..Len(t.upsert) -> BOOLEAN] :
                \A i \in 1..Len(t.upsert) : f[i] <=>
                    /\ t.upsert[i] \in DOMAIN t.parent
                    /\ \/ t.parent[t.upsert[i]] \in DOMAIN r \cup {Nil}
                       \/ \E j \in 1..(i - 1) :
                            f[j] /\ t.upsert[j] = t.parent[t.upsert[i]]
        stored == {u \in DOMAIN t.parent :
                      \E i \in 1..Len(t.upsert) : ok[i] /\ t.upsert[i] = u}
    IN  [u \in DOMAIN r \cup stored |->
            [parent |-> IF u \in stored THEN t.parent[u] ELSE r[u].parent,
             aabb   |-> IF u \in DOMAIN r THEN r[u].aabb ELSE {},
             chunk  |-> IF u \in DOMAIN r THEN r[u].chunk ELSE {}]]

\* set_object_aabb: an UPDATE, without effect on a missing row.
SetAabbs(r, dirty) ==
    [u \in DOMAIN r |-> IF u \in DOMAIN dirty THEN [r[u] EXCEPT !.aabb = dirty[u]]
                                              ELSE r[u]]

\* The AABB a row stands for; a NULL one reads as the default AABB.
RowAabb(r, u) == IF r[u].aabb = {} THEN {Origin} ELSE r[u].aabb

\* A chunk covers the object and its direct children.
Aggregate(r, u) ==
    UNION {RowAabb(r, x) : x \in {y \in DOMAIN r : y = u \/ r[y].parent = u}}

\* The chunk of every object whose AABB was set, and of its ancestors, is
\* computed again.
SetChunks(r, dirty) ==
    LET above == {x \in DOMAIN r : \A S \in SUBSET DOMAIN r :
                     /\ DOMAIN dirty \cap DOMAIN r \subseteq S
                     /\ \A y \in S : r[y].parent # Nil => r[y].parent \in S
                     => x \in S}
    IN  [u \in DOMAIN r |-> IF u \in above
                              THEN [r[u] EXCEPT !.chunk = Aggregate(r, u)] ELSE r[u]]

RunFlush(t) ==
    SetChunks(SetAabbs(UpsertRows(DeleteRows(rows, t.remove), t), t.dirty), t.dirty)

\* query_objects: the rows whose chunk meets a probe.
QueryObjects(r, v) == {u \in DOMAIN r : r[u].chunk \cap v # {}}

\* The database thread runs the oldest task.
DbStep ==
    /\ tasks # <<>>
    /\ tasks' = Tail(tasks)
    /\ LET t == Head(tasks) IN
         IF t.kind = "flush"
           THEN rows' = RunFlush(t) /\ UNCHANGED completed
           ELSE /\ completed' = Append(completed,
                       [u \in QueryObjects(rows, t.view) |-> rows[u].parent])
                /\ UNCHANGED rows
    /\ UNCHANGED <<engine, ops, entries, pending, queues,
                   query_process, pc, cache, local>>

-----------------------------------------------------------------------------
(* The manager leaves and enters the tree.                                 *)

\* _exit_tree: the children's exits only reach object_removal_, which is
\* cleared, as is everything pending but to_remove_.
ExitTree ==
    /\ pc = "user" /\ Counted("exit")
    /\ attached
    /\ attached' = FALSE
    /\ hooked' = FALSE
    /\ object_removal_' = {} /\ dirty_aabb_' = {} /\ to_upsert_uuids_' = <<>>
    /\ load_queue_' = <<>> /\ loaded_queue_' = <<>>
    /\ to_remove_' = {}
    /\ tasks' = tasks \o FlushTask(<<>>, to_remove_, {})
    /\ UNCHANGED <<where, cell, view, born, entries, loads,
                   query_process, pc, cache, rows, completed, local>>

\* _enter_tree: processing resumes; the child signals stay disconnected.
EnterTree ==
    /\ User("exit")
    /\ ~attached
    /\ attached' = TRUE
    /\ UNCHANGED <<hooked, where, cell, view, born, entries,
                   pending, saves>>

-----------------------------------------------------------------------------
(* process_frame: the callbacks of completed queries.                      *)

FrameStart ==
    /\ pc = "user"
    /\ local' = completed
    /\ completed' = <<>>
    /\ pc' = "callbacks"
    /\ UNCHANGED <<engine, ops, entries, pending, queues,
                   query_process, cache, rows, tasks>>

\* The node an entry points to, if it still exists.
Live(u) == /\ u \in DOMAIN registry_
           /\ registry_[u].node # NoNode
           /\ where[registry_[u].node] # "freed"

\* Entries that to_unload's order leaves behind: registry_[obj_id] in
\* _unload_object creates an entry that is missing, for instance the one of a
\* child that was unloaded and erased before its parent.
Recreated(order) ==
    {x \in Objects : \E j \in 1..Len(order) :
        /\ x \in _collect_descendants(order[j]) \ {order[j]}
        /\ x \notin DOMAIN registry_ \/ \E i \in 1..(j - 1) : order[i] = x}

\* Mutant: the test of node_root is the wrong way round.
ToUnload_Inverted(result) ==
    {u \in DOMAIN registry_ : u \notin DOMAIN result /\ registry_[u].node = NoNode}

\* The loaded objects the result does not mention, and those they take along.
ToUnload(result) ==
    {u \in DOMAIN registry_ : u \notin DOMAIN result /\ registry_[u].node # NoNode}
Unloaded(result) ==
    {u \in UNION {_collect_descendants(x) : x \in ToUnload(result)} : Live(u)}

\* registry_ once the objects are unloaded in this order, and once the rows of
\* the result are merged into it.
Remaining(result, order) ==
    [u \in (DOMAIN registry_ \ ToUnload(result)) \cup Recreated(order) |->
        IF u \in Recreated(order) THEN [parent |-> Nil, node |-> NoNode]
        ELSE IF u \in Unloaded(result)
               THEN [parent |-> registry_[u].parent, node |-> NoNode]
        ELSE registry_[u]]
Merged(result, order) ==
    LET kept == Remaining(result, order) IN
    [u \in DOMAIN kept \cup DOMAIN result |->
        [parent |-> IF u \in DOMAIN result THEN result[u] ELSE kept[u].parent,
         node   |-> IF u \in DOMAIN kept THEN kept[u].node ELSE NoNode]]

\* The order of registry_ after the unloading: erasing moves its last entry,
\* a re-created entry comes last.
Swept(order) ==
    LET after[i \in 0..Len(order)] ==
            IF i = 0 THEN registry_order
            ELSE LET s == after[i - 1]
                     missing == _collect_descendants(order[i]) \ Elements(s)
                 IN  SwapErase(s \o CHOOSE t \in Orders(missing) : TRUE, order[i])
    IN  after[Len(order)]

\* Roots without a node are loaded.
ToLoad(entry) == entry.parent = Nil /\ entry.node = NoNode

\* The objects the result leaves out are unloaded in the order of registry_;
\* the order of the result's new rows is the database's.
_on_query_result(result) ==
    LET unloaded == Unloaded(result)
        exiting == {u \in unloaded : where[registry_[u].node] = "child"
                                       /\ attached /\ hooked}
    IN  \E order \in Orders(ToUnload(result)) :
        LET merged == Merged(result, order) IN
        /\ order = SelectSeq(registry_order, LAMBDA u : u \in ToUnload(result))
        /\ \E new \in Orders(DOMAIN result \ Elements(Swept(order))) :
              registry_order' \in OrderOf(DOMAIN merged, Swept(order) \o new)
        /\ registry_' = merged
        /\ children_map_' = ChildrenOf(merged)
        /\ \E roots \in Orders({u \in DOMAIN merged : ToLoad(merged[u])}) :
              /\ roots = SelectSeq(registry_order', LAMBDA u : ToLoad(merged[u]))
              /\ load_queue_' = load_queue_ \o roots
        /\ where' = [n \in Nodes |->
                       IF where[n] = "child" /\ \E u \in unloaded : registry_[u].node = n
                         THEN "cached" ELSE where[n]]
        /\ node_cache_' = [u \in Objects |->
                             IF u \in unloaded THEN registry_[u].node ELSE node_cache_[u]]
        /\ saves' = saves \cup exiting
        /\ dirty_aabb_' = EraseDirty(ToUnload(result)) \ exiting
        /\ to_upsert_uuids_' \in ErasedFrom(to_upsert_uuids_, order)

RunCallback ==
    /\ pc = "callbacks"
    /\ local # <<>>
    /\ local' = Tail(local)
    /\ _on_query_result(Head(local))
    /\ UNCHANGED <<attached, hooked, cell, view, born, ops, object_removal_,
                   to_remove_, loaded_queue_, loads, query_process, pc,
                   scene_cache_, loading, failed, files, rows, tasks, completed>>

\* _process is not called outside the tree.
EndCallbacks ==
    /\ pc = "callbacks"
    /\ local = <<>>
    /\ pc' = IF attached THEN "remove" ELSE "user"
    /\ UNCHANGED <<engine, ops, entries, pending, queues,
                   query_process, cache, db>>

-----------------------------------------------------------------------------
(* _process.                                                               *)

\* Mutant: the deleted objects stay in their parents' sets.
Unlink_OwnSetOnly(gone, deleted) ==
    [p \in Objects |-> IF p \in gone THEN {} ELSE children_map_[p]]

\* The deleted objects leave their parents' sets; their own sets go.
Unlink(gone, deleted) ==
    [p \in Objects |-> IF p \in gone THEN {} ELSE children_map_[p] \ deleted]

\* _remove_object for each collected uuid: the object and its descendants
\* lose their file, cached scene and entry, and are marked for deletion.
ProcessRemove ==
    /\ pc = "remove"
    /\ LET gone == UNION {_collect_descendants(u) : u \in object_removal_}
           deleted == gone \cap DOMAIN registry_
       IN  /\ files' = files \ deleted
           /\ scene_cache_' = scene_cache_ \ deleted
           /\ registry_' = Without(registry_, deleted)
           /\ children_map_' = Unlink(gone, deleted)
           /\ to_remove_' = to_remove_ \cup deleted
           /\ dirty_aabb_' = EraseDirty(deleted)
           /\ \E order \in Orders(deleted) :
                 /\ to_upsert_uuids_' \in ErasedFrom(to_upsert_uuids_, order)
                 /\ registry_order' \in OrderOf(DOMAIN registry_ \ deleted,
                                                EraseInOrder(registry_order, order))
    /\ object_removal_' = {}
    /\ pc' = "sync"
    /\ UNCHANGED <<engine, ops, queues, query_process, node_cache_, loading,
                   failed, saves, db>>

\* Mutant: the frame counter is not reset after a poll.
NextPoll_NoReset(due) == query_process + 1

\* The frame counter after a frame that polled, or did not.
NextPoll(due) == IF due THEN 0 ELSE query_process + 1

\* The flush, then the poll of the probes every QueryPeriod frames.
ProcessSync ==
    /\ pc = "sync"
    /\ LET due == query_process + 1 >= QueryPeriod  \* query_process >= 4
           room == /\ Len(tasks) + Len(completed) < MaxPending
                   /\ Len(load_queue_) <= MaxQueue
           query == IF due /\ view # {} /\ room
                      THEN <<[kind |-> "query", view |-> view]>> ELSE <<>>
       IN  /\ tasks' = tasks \o FlushTask(to_upsert_uuids_, to_remove_, dirty_aabb_) \o query
           /\ query_process' = NextPoll(due)
    /\ to_upsert_uuids_' = <<>> /\ to_remove_' = {} /\ dirty_aabb_' = {}
    /\ pc' = "update"
    /\ UNCHANGED <<engine, ops, entries, object_removal_, queues,
                   cache, rows, completed, local>>

\* cache_.update().  The task of a load that failed is not taken: the engine
\* keeps it.
ProcessUpdate ==
    /\ pc = "update"
    /\ scene_cache_' = scene_cache_ \cup {u \in Objects : loading[u] = "loaded"}
    /\ failed' = failed \cup {u \in Objects : loading[u] = "failed"}
    /\ loading' = [u \in Objects |->
                     IF loading[u] = "loaded" THEN "none"
                     ELSE IF loading[u] = "failed" THEN "kept" ELSE loading[u]]
    /\ pc' = "load"
    /\ loads' = 0
    /\ UNCHANGED <<engine, ops, entries, pending, load_queue_,
                   loaded_queue_, query_process, node_cache_, files, saves, db>>

\* Mutant: the mounted node is not recorded.
Mount_Unrecorded(u, n) ==
    /\ where' = [where EXCEPT ![n] = "child"]
    /\ UNCHANGED registry_

\* add_child of a loaded node; _on_object_entered records it.
Mount(u, n) ==
    /\ where' = [where EXCEPT ![n] = "child"]
    /\ registry_' = IF hooked
                      THEN With(registry_, u, [parent |-> registry_[u].parent, node |-> n])
                      ELSE registry_

\* Mutant: an object that already has its node is loaded again.
NoLoad_Unchecked(u) == u \notin DOMAIN registry_

\* Nothing to load: the object is not registered any more, or has its node.
NoLoad(u) == u \in DOMAIN registry_ => registry_[u].node # NoNode

\* Mutant: the node handed out stays in node_cache_.
Popped_Kept(u) == node_cache_

\* ObjectSceneCache::acquire pops the node it hands out.
Popped(u) == [node_cache_ EXCEPT ![u] = NoNode]

\* ObjectSceneCache::request_scene: TRUE if u is to be tried again.
request_scene(u, retry) ==
    IF u \in failed
      THEN /\ failed' = failed \ {u}
           /\ retry = FALSE
           /\ UNCHANGED loading
      ELSE /\ UNCHANGED failed
           /\ \/ /\ loading[u] \in {"progress", "loaded", "failed"}
                 /\ retry = TRUE /\ UNCHANGED loading
              \/ \* load_threaded_request joins the failed task
                 /\ loading[u] = "kept"
                 /\ retry = TRUE /\ loading' = [loading EXCEPT ![u] = "failed"]
              \/ /\ loading[u] = "none"
                 /\ retry = TRUE /\ loading' = [loading EXCEPT ![u] = "progress"]
              \/ \* or refuses a file it does not find
                 /\ loading[u] = "none" /\ u \notin files
                 /\ retry = FALSE /\ UNCHANGED loading

\* _load_object_scene of the front of load_queue_: the cached node, else an
\* instance of the cached scene, else a threaded load and another try.
LoadNext ==
    /\ pc = "load"
    /\ load_queue_ # <<>> /\ loads < MaxLoadsPerFrame
    /\ loads' = loads + 1
    /\ load_queue_' = Tail(load_queue_)
    /\ LET u == Head(load_queue_)
           fresh == {i \in 1..MaxInst : where[<<u, i>>] = "none"}
       IN  IF NoLoad(u)
             THEN UNCHANGED <<where, registry_, loaded_queue_, node_cache_, loading, failed>>
           ELSE IF node_cache_[u] # NoNode
             THEN /\ Mount(u, node_cache_[u])
                  /\ node_cache_' = Popped(u)
                  /\ UNCHANGED <<loaded_queue_, loading, failed>>
           ELSE IF u \in scene_cache_
             THEN /\ IF fresh = {} THEN UNCHANGED <<where, registry_>>
                     ELSE \E i \in fresh : (\A j \in fresh : i <= j) /\ Mount(u, <<u, i>>)
                  /\ UNCHANGED <<node_cache_, loaded_queue_, loading, failed>>
           ELSE /\ \E retry \in BOOLEAN :
                      /\ request_scene(u, retry)
                      /\ loaded_queue_' = IF retry THEN Append(loaded_queue_, u)
                                                   ELSE loaded_queue_
                /\ UNCHANGED <<where, registry_, node_cache_>>
    /\ UNCHANGED <<attached, hooked, cell, view, born, ops, registry_order,
                   children_map_, pending, query_process, pc, scene_cache_, files,
                   saves, db>>

\* The objects to try again go to the back of load_queue_.
ProcessEnd ==
    /\ pc = "load"
    /\ load_queue_ = <<>> \/ loads >= MaxLoadsPerFrame
    /\ load_queue_' = load_queue_ \o loaded_queue_
    /\ loaded_queue_' = <<>>
    /\ loads' = 0
    /\ pc' = "user"
    /\ UNCHANGED <<engine, ops, entries, pending, query_process,
                   cache, db>>

-----------------------------------------------------------------------------
(* The engine's threads.                                                   *)

\* WorkerThreadPool runs _async_save_object.
SaveDone(u) ==
    /\ u \in saves
    /\ saves' = saves \ {u}
    /\ files' = files \cup {u}
    /\ UNCHANGED <<engine, ops, entries, pending, queues,
                   query_process, pc, node_cache_, scene_cache_, loading, failed, db>>

\* ResourceSaver::save fails, which is only printed: a file that was there is as
\* it was, or damaged.
SaveFailed(u) ==
    /\ Counted("fail") /\ u \in saves
    /\ saves' = saves \ {u}
    /\ files' \in {files, files \ {u}}
    /\ UNCHANGED <<engine, entries, pending, queues,
                   query_process, pc, node_cache_, scene_cache_, loading, failed, db>>

\* ResourceLoader finishes a threaded load.
LoadDone(u) ==
    /\ loading[u] = "progress"
    /\ loading' = [loading EXCEPT ![u] = IF u \in files THEN "loaded" ELSE "failed"]
    /\ UNCHANGED <<engine, ops, entries, pending, queues,
                   query_process, pc, node_cache_, scene_cache_, failed, files,
                   saves, db>>

-----------------------------------------------------------------------------

UserStep ==
    \/ \E u \in Objects, c \in Cells : Add(u, c)
    \/ \E n \in Nodes : Remove(n) \/ ReAdd(n) \/ QueueFree(n)
    \/ \E n \in Nodes, c \in Cells : Move(n, c)
    \/ \E v \in SUBSET Cells : Look(v)
    \/ ExitTree \/ EnterTree

FrameStep ==
    \/ FrameStart \/ RunCallback \/ EndCallbacks \/ ProcessRemove \/ ProcessSync
    \/ ProcessUpdate \/ LoadNext \/ ProcessEnd

FileStep == \E u \in Objects : SaveDone(u) \/ SaveFailed(u) \/ LoadDone(u)
ThreadStep == DbStep \/ FileStep

Next == UserStep \/ FrameStep \/ ThreadStep

Safety == Init /\ [][Next]_vars

\* The engine keeps drawing frames and its threads keep working.
Spec == /\ Safety
        /\ WF_vars(FrameStep)
        /\ WF_vars(DbStep) /\ WF_vars(FileStep)

-----------------------------------------------------------------------------
(* Properties.                                                             *)

EngineTypeOK ==
    /\ attached \in BOOLEAN /\ hooked \in BOOLEAN
    /\ where \in [Nodes -> NodeStates]
    /\ cell \in [Objects -> Cells]
    /\ view \subseteq Cells /\ born \subseteq Objects
EntriesTypeOK ==
    /\ DOMAIN registry_ \subseteq Objects
    /\ registry_ \in [DOMAIN registry_ -> Entry]
    /\ registry_order \in Orders(DOMAIN registry_)
    /\ children_map_ \in [Objects -> SUBSET Objects]
PendingTypeOK ==
    /\ object_removal_ \subseteq Objects /\ to_remove_ \subseteq Objects
    /\ dirty_aabb_ \subseteq Objects
    /\ to_upsert_uuids_ \in Seq(Objects)
QueuesTypeOK ==
    /\ load_queue_ \in Seq(Objects) /\ loaded_queue_ \in Seq(Objects)
    /\ loads \in 0..MaxLoadsPerFrame
ControlTypeOK ==
    /\ ops \in Nat
    /\ query_process \in 0..(QueryPeriod - 1)
    /\ pc \in {"user", "callbacks", "remove", "sync", "update", "load"}
CacheTypeOK ==
    /\ node_cache_ \in [Objects -> Nodes \cup {NoNode}]
    /\ scene_cache_ \subseteq Objects /\ failed \subseteq Objects
    /\ loading \in [Objects -> {"none", "progress", "loaded", "failed", "kept"}]
    /\ files \subseteq Objects /\ saves \subseteq Objects
DbTypeOK ==
    /\ DOMAIN rows \subseteq Objects /\ rows \in [DOMAIN rows -> Row]
    /\ tasks \in Seq(Flushes \cup Queries)
    /\ completed \in Seq(Results) /\ local \in Seq(Results)

\* Types of the manager's, the engine's and the database's variables: the poll
\* counter stays below its period, the frame's loads below their limit, and
\* registry_order lists registry_ once.
TypeOK ==
    /\ EngineTypeOK /\ EntriesTypeOK /\ PendingTypeOK /\ QueuesTypeOK
    /\ ControlTypeOK /\ CacheTypeOK /\ DbTypeOK

\* What waits to be synchronised is registered, so a flush never meets an
\* entry it has to skip (the WARN_PRINTs of _flush_pending_db_ops).
SyncSetsRegistered ==
    /\ \A i \in 1..Len(to_upsert_uuids_) : to_upsert_uuids_[i] \in DOMAIN registry_
    /\ dirty_aabb_ \subseteq DOMAIN registry_

\* children_map_ is exactly the inverse of the registry's parent_uuid.
ChildrenMapExact == children_map_ = ChildrenOf(registry_)

\* Every root among the children of a connected manager is the node its object
\* is registered with.  (_remove_object also unregisters the removed object's
\* descendants, whose nodes stay in the tree until the user deletes them.)
ChildrenRegistered ==
    hooked => \A n \in Nodes : where[n] = "child" /\ Parent[Uuid(n)] = Nil =>
        Uuid(n) \in DOMAIN registry_ /\ registry_[Uuid(n)].node = n

\* The scene tree never holds two nodes of one root.  (A child whose parent is
\* deleted is unregistered while its node stays in the tree; if a late result
\* registers it again, it is instantiated a second time.)
OneNodePerRoot ==
    \A n, m \in Nodes :
        /\ where[n] = "child" /\ where[m] = "child"
        /\ Uuid(n) = Uuid(m) /\ Parent[Uuid(n)] = Nil
        => n = m

\* A node in node_cache_, which will be handed out or freed, is not in the tree.
CachedNotInTree ==
    \A u \in Objects : node_cache_[u] # NoNode => where[node_cache_[u]] # "child"

\* The probes' cells are streamed in: once nothing moves any more, exactly the
\* stored objects they meet are in the tree.
InTree == {Uuid(n) : n \in {m \in Nodes : where[m] = "child"}}
Settles == <>[](view = {} \/ InTree = QueryObjects(rows, view))

\* An object the user added is stored, or on its way, unless the user took it
\* or one of its ancestors out.
Upserting(u) ==
    \/ \E i \in 1..Len(to_upsert_uuids_) : to_upsert_uuids_[i] = u
    \/ \E i \in 1..Len(tasks) : tasks[i].kind = "flush" /\
         u \in DOMAIN tasks[i].parent
Line(u) == {x \in Objects : \A S \in SUBSET Objects :
    u \in S /\ (\A y \in S : Parent[y] # Nil => Parent[y] \in S) => x \in S}
NoObjectLost ==
    \A u \in born : \/ u \in DOMAIN rows \/ Upserting(u)
                    \/ \E n \in Nodes : Uuid(n) \in Line(u) /\ where[n] = "held"

\* The stored AABB of an object is the one of its node, or is on its way.
AabbSynced ==
    \A u \in DOMAIN rows :
        \/ rows[u].aabb = {cell[u]}
        \/ u \in dirty_aabb_
        \/ \E i \in 1..Len(tasks) :
             tasks[i].kind = "flush" /\ u \in DOMAIN tasks[i].dirty

\* README.md:18: every object is stored in the database together with its world
\* AABB; what the user did to it reaches the database whatever query result
\* arrives before the next flush.
ObjectsStored == NoObjectLost /\ AabbSynced

\* A child in view is in the tree whenever its parent is.
FamiliesSettle ==
    <>[](\A u \in QueryObjects(rows, view) :
            rows[u].parent \in InTree => u \in InTree)
=============================================================================
