# Verification of Godot Stream

Godot Stream is a C++ GDExtension that streams scene objects in and out of a
Godot scene tree: probes say which part of the world is wanted, an SQLite
database says which objects are there, and a manager loads, unloads, saves and
caches their nodes. This directory holds TLA+ models of its core, the TLC
configurations that check them on small instances, and TLAPS proofs of their
main safety properties for all instances. Source paths below are relative to
the repository root; `SM` is `src/core/stream/stream_manager.cpp`.

## 1. The system

### Components, their state and operations

| component | state | operations |
|---|---|---|
| `StreamManager` (`core/stream/stream_manager.*`) | `registry_`, `children_map_`, pending sets (`object_removal_`, `to_upsert_uuids_`, `to_remove_`, `dirty_aabb_`), `load_queue_`, `loaded_queue_`, poll counter, registered probes | slots for child entered / exited, AABB changed, probe registered; `_process` (delete, flush, poll, cache update, up to four loads); `_on_query_result`; `_enter_tree`, `_exit_tree`, PREDELETE |
| `AsyncDbWorker` (`core/components/async_db_worker.*`) | task queue, callback queue, mutex, condition variable, `stop_`, thread; a static map path → worker | `push_task`, `thread_loop`, `_flush_callbacks`, PREDELETE and destructor, `make_db` |
| `ObjectSceneCache` (`core/components/object_scene_cache.*`) | `node_cache_`, `scene_cache_` (LRU), `loading_requests_`, `loading_set_`, `remove_loading_set_` | `acquire`, `release`, `request_scene`, `update`, `remove_scene`, `free_all_node` |
| `cpp_caches` | map + list of keys per cache | `Put`, `TryGet`, `Pop`, `Remove`, `ClearWithCallback` |
| `StreamSqliteDB` (`core/components/stream_sqlite_db.*`) | tables `object_uuid`, `chunk_metadata`, R-tree; `chunk_cache`, `aabb_cache` | upsert, remove, set/get AABB, set chunk, query |
| `Chunk` (`core/components/chunk.h`) | none | `compute_chunk`: AABB → tile of a level |
| `StreamWorldProbe` | manager path and pointer | registration on ready / enter / exit / visibility / path change |
| `StreamObjectNode` | uuid, parent uuid, AABB sources | transform notification, `get_aabb` |
| `SQLiteDB`, `gdsqlite`, ankerl, stduuid | | wrappers and vendored libraries |

### How they interact

There are four kinds of thread. The **main thread** runs user code, then (signal
`process_frame`) the callbacks of finished database tasks, then `_process`. The
**database thread** of a worker runs tasks in order. Godot's
**WorkerThreadPool** writes scene files, its **ResourceLoader** reads them. The
manager pushes two kinds of task: *flushes* (the changes of a frame in one
transaction) and *queries* (which objects do the probes meet). The result of a
query comes back some frames later as a callback that unloads every registered
object missing from it and queues the roots in it for loading.

### What is hard

* A query result is a snapshot. Between the poll and the callback the user adds,
  moves and removes objects, other results are applied and loads complete.
* One object is described in five places (registry, tree, node cache, scene
  file, database row), and each handler updates some of them.
* Erasing from the hash containers permutes their iteration order, and the order
  of batched insertions matters for the foreign key.
* Saves and loads run on threads nobody waits for.
* Both caches evict while nodes are on their way in or out.
* The worker may be destroyed with tasks queued and its thread blocked.
* A flush is a transaction of many statements, each of which may fail alone; the
  caches beside it are not part of it, and the process may end in the middle.
* Probes, managers and workers refer to each other by path, raw pointer, instance
  id and reference count, and any of them may go first.

`PROJECT.json` lists these hazards with the line where each bites and the
properties that would catch it going wrong. Where no property covers a hazard, or
one covers only a part of it, a note there says why: the code does go wrong in some
of these places (section 6), and the properties are then claimed up to them.

## 2. Modules

| module | models | role |
|---|---|---|
| `TaskExecutor` | what the worker promises: first-in first-out, each callback once, closes only when drained | abstract specification |
| `AsyncDbWorker` | `async_db_worker.cpp` statement by statement around the mutex and the condition variable | implements `TaskExecutor` |
| `AsyncDbWorkerProofs` | | inductive invariant, refinement |
| `StreamManager` | `stream_manager.cpp` with the parts of the scene cache and the database it calls | composition of manager, scene tree, cache, database |
| `MCStreamManager` | | instances for TLC: two unrelated objects, or a parent and its child |
| `StreamManagerProofs` | | bookkeeping invariants; registry, cache and scene tree agree |
| `LruCache` | `cache.hpp` with `lru_cache_policy.hpp`, as functions from a cache to a cache | library |
| `LruCacheProofs` | | lemmas about every operation |
| `ObjectSceneCache` | `object_scene_cache.cpp` at its capacities, the scene files, savers and loaders, the manager as client | composition with `LruCache` |
| `ObjectSceneCacheProofs` | | inductive invariant |
| `Chunk` | `chunk.h`, the conversions of `bind_aabb` and `read_aabb_from_stmt`, the R-tree's ranges | library |
| `ChunkProofs` | | the tile of a box is found from the box's first corner |
| `ObjectIndex` | what the database promises: a flush is applied as a whole or not at all, whatever the caches hold | abstract specification |
| `StreamSqliteDB` | `stream_sqlite_db.cpp` under the flush task of the manager, one call per step, with crashes and lock contention | implements `ObjectIndex`; composition with `Chunk`, `LruCache` |
| `MCStreamSqliteDB` | | instance for TLC: a line of three objects on one axis |
| `StreamSqliteDBProofs` | | the caches agree with the rows |
| `ObjectIndexProofs` | | types, filed objects are found, refinement |
| `SceneTree` | where the engine has the managers | external |
| `StreamWorldProbe` | `stream_world_probe.cpp` and `registered_probes_` | component |
| `WorkerRegistry` | `make_db`, `_init_database`, `set_database_path` | component |
| `ManagerLinks` | the poll of `_process` | composition of the three above |
| `ManagerLinksProofs` | | inductive invariant |

Operators named `X_Something` with a "Mutant" comment are plausible bugs of the
operator `X`; nothing uses them, they record which mistake each property detects.

### AsyncDbWorker

`mpc` and `wpc` are the program counters of the main and of the database thread.
A critical section is two steps, acquiring `queue_mutex_` and doing the body.
Evaluating the wait predicate (`WorkerCheck`) and blocking (`WorkerBlock`) are
separate steps, both under the mutex, which is where a wake-up could be lost.
Spurious wake-ups are included. `StopLock` .. `Join` are PREDELETE and the
destructor, which repeats the same sequence. `submitted`, `wants`, `executed`
and `delivered` are history variables; `TaskExecutor` is stated over them.

### StreamManager

Space is a set of cells, an AABB is a set of cells. `where` is the state of
every node instance, `registry_` maps a uuid to its parent and node,
`registry_order` is the iteration order of the hash map: `SwapErase` models that
erasing moves the last element into the hole. A user operation is one action
with the whole slot it triggers. `_process` is the chain `ProcessRemove`,
`ProcessSync` (flush, poll), `ProcessUpdate`, `LoadNext` (once per load),
`ProcessEnd`; user code does not interrupt it, the other threads do. Callbacks
(`RunCallback`) apply `_on_query_result` as one action, with the unloads, the
registry sweep, the merge and the queueing of loads inside. `DbStep` runs one
task: the deletions with their cascade, the insertions in order (one that fails
its foreign key is skipped and the transaction goes on), the AABBs, the chunks
of the objects and of their ancestors. A save may fail (`SaveFailed`), which leaves
the object without a readable file or with the one it had. A load whose failure
`update()` did not take stays in the engine (`loading` is then `"kept"`), and the next
request joins it.

### LruCache and ObjectSceneCache

Every cache operation holds the cache's mutex from beginning to end, so it is a
function. `ObjectSceneCache` knows an object's state as a version: the user
modifies a node in the tree, `saves` holds the versions packed and not yet
written, `files` the ones written, `scene_cache_` the ones loaded. `update()` is
one action per entry of `loading_requests_`, because loads complete while it
runs. `newer` is a history variable: which scene was used after which. A node
evicted is `freed`.

The client is the `StreamManager` with roots only and results that are up to date.
`registered` is the registry's set of keys, `node_root` its record of nodes: a
result registers an object in view before its node is there, and a record outlives
its node (`queue_free`). `Remove` is the user's `remove_child`: the node is `held`,
the deletion waits in `object_removal_`, and one object after the other is deleted
in the next frame (`ProcessRemove`). A result in between runs `Unload`, which
releases the held node into `node_cache_` like any other; from there it is mounted
again, or evicted and freed while the user still has it. `Unload` saves only through
`_on_object_exited`: not a node that has left the tree already, and not once
`_exit_tree` has disconnected the signals (`Connected`). `EnterTree` does not
connect them again, and what is mounted from then on is not recorded. `unsaved`
remembers which objects have left the tree without a save or had their last save
fail.

`SaveFailed` is `ResourceSaver::save` with an error, which is printed: the file stays
as it was or becomes `Damaged`. A damaged file fails to load, or loads as a resource
that is no `PackedScene`, which `update()` drops. `update()` takes the task of a
successful load from the engine (`load_threaded_get`) and not that of a failed one:
`status` stays `"failed"`, a later request joins the failed task, and the object
never loads again while the program runs. Operations of the user and failed saves
are counted against `MaxOps`; entering the tree is not, so that there is always time
for what follows. `NewUuid` takes the uuids in a fixed order, for objects that
do not exist yet are alike.

### Chunk and StreamSqliteDB

`Chunk` computes with integers: a coordinate is a multiple of 1/`Unit`, so that
truncation to the database's integers loses something. A box is its two corners
on each axis. `Masked` clears low bits of a two's complement integer, which
rounds down also where `Truncated` has rounded towards zero. `TileBox` is the
range that the trigger writes into `chunk_rtree`, in integers of `IntBits` bits;
`InRtree` says that `INSERT OR IGNORE` leaves out a range that wraps. `TwoTo` is a
recursive function and `Within` says that a world is narrow enough for its tiles
to be ranges of `IntBits` bits: for 32 bits, coordinates within 2^29 units.

`StreamSqliteDB` has the file (`disk`), what the connection sees (`db`), and the
two caches. A flush (`request`) is one action per call of the task in
`_flush_pending_db_ops`: `at` says in which of its loops the task is, `todo` what
that loop has not visited (hash containers: in any order), `up` the next ancestor
of the walk up the parents. `FileUnder` is `query_chunk` followed by
`set_object_chunk`, which no other statement can come between: the connection
belongs to one thread. `Crash` may happen between any two calls, and leaves the
file as it was at the last `Commit` (write-ahead log). `Contention` lets another
connection hold the write lock for longer than the busy timeout: until the
transaction has the lock itself, each of its writes may then fail, which
`Stmt::step` prints and nobody looks at. `lost` remembers that this happened
since the file was opened.

`ObjectIndex` has no caches, no ids and no statements: a flush changes the file
in one step. Its one concession is in `Readings`: an ancestor may be filed by the
box its node reported or by the integers of the row, depending on whether the box
is still cached. It promises nothing but sound parents after a lost write.

### StreamWorldProbe, WorkerRegistry and ManagerLinks

A path is the manager it leads to when that manager is in the tree, or
`NoManager`. `pending` is the deferred call of `_on_visibility_changed`, which
sees the visibility and the place of the probe at the time it is called. Workers
are numbered in the order they are made, `opened` has their paths, and a worker
lives as long as a manager holds it; `_db_worker_cache` holds numbers of workers
that may be dead, as the code holds instance ids. `queries` has who waits for a
result of which worker. In `ManagerLinks`, `Poll` joins the two components: it
prunes the registered probes and pushes a query to the manager's worker. (The
loop in the code erases from the `ankerl` set it walks. Erasing moves the last
element to a position already visited and leaves the memory behind the new end
as it was, so that each element is still visited once: `Pruned`.)

## 3. Runs

| run | instance | states | result |
|---|---|---|---|
| `worker` | up to 4 tasks | 10 k | pass |
| `manager_all_ops` | parent and child, all user operations and failed saves | 1.3 M | pass |
| `manager_tree` | parent and child, 5 operations | 5.7 M | pass |
| `manager_settles` | 2 roots, 3 operations, fair | 271 k | pass |
| `scene_cache` | 3 objects, caches of 1 and 2, 2 operations, fair | 715 k | pass |
| `index` | 3 objects in a line, 2 flushes, caches of 2 and 1 | 441 k | pass |
| `links` | 1 probe, 2 managers, 3 paths, 3 workers, fair | 1.1 M | pass |
| `stale_result`, `reentry` | 1 object | | violation |
| `straddle` | as `index`, without contention | | violation |
| `orphans` | parent and child, fair | | violation |
| `stale_scene` | 2 objects, node cache of 1 | | violation |

**`worker`.** The queues are never touched by both threads (`MutualExclusion`);
a blocked worker that has work is about to be notified (`NoLostWakeup`); the
worker dies drained (`DrainedBeforeFree`); tasks are neither lost nor reordered
(`FifoQueue`); the whole is a `TaskExecutor` (`ExecutorSafety`); every task runs,
every callback is called unless the worker dies first, and destruction never
hangs (`EveryTaskRuns`, `CallbackCalled`, `DestructionEnds`).

**`manager_all_ops`.** Whatever the order of user operations and results, the
pending sets name registered objects (`SyncSetsRegistered`) and `children_map_`
is the inverse of the registry (`ChildrenMapExact`).

**`manager_tree`.** A manager's children without a parent object are the nodes it
has on record (`ChildrenRegistered`), no such object is in the tree twice
(`OneNodePerRoot`), and a cached node is not in the tree (`CachedNotInTree`).
The run leaves out adding a removed node again, under which each of the three
fails, and leaving the tree, under which the second does (`reentry`); why the
first two are about roots is in section 6.

**`manager_settles`.** When the user and the probes rest, the tree ends up
holding exactly the stored objects in view. Objects are roots, and `node_cache_`
does not evict here, so that hardly anything is loaded from a file; evictions are
the subject of `scene_cache`.

**`scene_cache`.** The caches respect their capacities (`WithinCapacity`). No
unloaded node leaks and the manager has none twice: what `node_cache_` holds is not
freed, not in the tree and not on record, and is there under one uuid
(`NodesOwned`); that the user may still have such a node is section 6.
`loading_set_`, `loading_requests_` and the loads in the engine agree, a failed task
that the engine keeps apart (`LoadingTracked`). The scene cache is ordered by use
(`RecencyOrder`). Until the manager is deleted, an object outside the tree has a file
that is a scene or a save under way, unless it is in `unsaved` (`Recoverable`).
Objects in view end up with a node on record while the view fits into the scene
cache and the manager keeps its signals, except those whose file is no scene and
those whose load has failed once (`LoadsComplete`). Each exception is a place where
the code gives the object up, and is listed in section 6.

**`index`.** An id in `chunk_cache` is the id of that chunk, or -1 after a given-up
insertion (`ChunkCacheCoherent`); an AABB in `aabb_cache` is the one of the row up
to its fractions, or the default for a row without one (`AabbCacheCoherent`):
that the cascade leaves dead entries behind does no harm, because a uuid is
inserted once, and never again after its removal. An object is found by a view
that holds the first corner of its box, on both sides of the origin
(`CornerFound`). And the whole implements `ObjectIndex` (`ImplementsIndex`).

**`links`.** A visible probe in the tree is registered with the manager it points
to (`PointerRegistered`), a path is open in one worker (`OneWorkerPerPath`), a
ready manager has the worker of its path if that can be opened
(`WorkerFollowsPath`), the result of a query to a replaced worker can arrive only
if another manager still holds that worker (`ForeignResultsShared`), and a freed
probe does not stay registered with a manager that polls (`GhostsPruned`).

**The violations** are disagreements between the code and its documentation or
assertions, each quoted under `findings`:

* `stale_result`: an object added while a query is under way is unloaded by its
  result and its pending insertion dropped, so that it never reaches the
  database; one that moves loses its new AABB in the same way.
* `straddle`: a box from 3 to 7 is filed under the tile [0, 4] alone; a query at 6
  does not find it. A box can reach beyond its tile by almost the tile's length.
* `orphans`: a child that was unloaded with its parent is never loaded again.
* `reentry`: `_enter_tree` does not reconnect what `_exit_tree` disconnected;
  objects are then mounted twice.
* `stale_scene`: an evicted object is read back from the file of an older save
  while its last save still waits for a pool thread.

### Bounds

`QueryPeriod` is 1 or 2 instead of 4: a shorter period only makes more results
overlap. Two cells are enough for "in view", "out of view" and "moved". Two
tasks or results under way (`MaxPending`) give a result that overlaps another
and a flush; it bounds only the poll, so no operation of the user is delayed by
it. Two instances per object (`MaxInst`) let a node be freed or evicted and its
object be loaded again. `MaxQueue` stops polls that would only append duplicates
to `load_queue_`. `MaxOps` bounds the user. In `worker`, four tasks let
one be executed, one published and two queued at once. In `scene_cache`, three
objects over capacities 1 and 2 make both caches evict, and the four `Views` let the
probes see nothing, as much as the scene cache holds, the rest, or more than it
holds (which of the objects they name makes little difference). Two operations are enough
for a node that is taken out and released before its deletion (the eviction that
frees it is caused by another object), for a damaged file and its load, and for a
re-entry, after which objects are mounted unrecorded. `MaxInst` 6 never disables a
load while the signals are connected; after a re-entry every poll mounts one more
copy, and the bound ends that. All violations appear within these bounds.

In `index`, one axis stands for three (the axes are independent but for the
level, which takes the longest), `Unit` 2 gives coordinates with a fraction, and
the two boxes and their union meet levels 0 to 2, truncation on both sides of the origin and a
tile boundary. Two flushes let the second meet what the first left in the caches;
a line of three objects has an ancestor that is neither a leaf nor a root; the
capacities make both caches evict within one flush. `IntBits` 8 is wide enough
for these boxes; levels from 16 on, where the code's ranges wrap, are not reached.
In `links`, three workers let a path be left by everyone and opened again while
another is in use; one probe is enough, for probes do not see each other; one of
the paths cannot be written to.

Deadlock is checked except where the system may really stop: in the
`ObjectSceneCache` runs the manager may be deleted, in `links` every node may be,
and in `index` there is nothing left to flush after `MaxFlushes`.

### Fairness

* `worker`: weak fairness of each thread's next statement; strong fairness of
  acquiring the mutex (a mutex does not starve a thread for ever) and of the
  frame flush (the engine keeps emitting `process_frame`). Pushing and dropping
  the worker are never forced.
* `manager_settles`, `orphans`: frames keep being drawn (`FrameStep`), the database
  thread keeps working, and so do the threads that write and read files
  (`FileStep`): a save is answered, with success or without. The user is not fair,
  and failed saves are bounded with the user's operations.
* `scene_cache`: weak fairness of the loops over `object_removal_` and in
  `update()`; for each object, strong fairness of the steps that bring it back
  (`LoadStep`: the result that queues it, the attempts to load it, the loader's
  thread). It has to be strong because the loops of a frame alternate: an attempt is
  enabled between them, again and again and never for long. It has to be per
  object because an object whose file loads as something else than a scene is
  requested and loaded for ever, which must not stand for the others' progress; the
  code serves `load_queue_` in turn. Nothing is asked of the threads that save.
* `links`: a manager in the tree with a worker polls again and again, every fourth
  frame. Everything else is the choice of scripts and of the user.

## 4. Proofs

All proofs are for arbitrary constants under the named assumptions
(`MaxTasksAssumption`, `ConstantsAssumption`, `CacheAssumption`,
`ChunkAssumption`, `DatabaseAssumption`, `ProbeAssumption`, `RegistryAssumption`):
finite sets of objects, natural bounds and capacities, `Nil`, `Null`, `NoNode` and
the like different from real ones. TLC evaluates the assumptions in every run. Four
theorems have a hypothesis of their own: `RootsRegistered` and `CacheHoldsNoChild`
that the user does not add a removed node again (`"readd" \notin Ops`),
`RootsUnique` in addition that the manager does not leave the tree, and
`CornersFound` that the world is narrow enough (`WorldFits`, which TLC evaluates
for the instance of `index`). TLC finds each of the first three properties violated
without its hypothesis; tiles of a wider world wrap (section 6).

**AsyncDbWorkerProofs.** `TypeCorrect`, `MutexProtects`, `WakeupsKept`,
`QueueIsFifo`, `FreedAfterDrain`, `ImplementsExecutor`. None of the properties is
inductive alone. The invariant adds who holds the mutex where (`LockInv`), what a
worker about to block has seen under it (`WaitInv`), how the current task relates
to the history (`TaskInv`), what the place of the main thread says of the
shutdown (`MainInv`) and where each callback is. The refinement then needs one
case per action: all but four stutter.

**StreamManagerProofs.** `TypeCorrect`, `PendingRegistered`
(`SyncSetsRegistered`), `ChildrenFollowParents` (`ChildrenMapExact`),
`RootsRegistered` (`ChildrenRegistered`), `CacheHoldsNoChild` (`CachedNotInTree`),
`RootsUnique` (`OneNodePerRoot`). The first three are inductive together: that a
flush finds its entries needs the sets within the registry, that unlinking restores
the inverse needs the types of the registry and its order. The order in which hash containers are erased is a recursive
function; instead of an induction over it the model states that the result is
*some* order of the remaining keys (`OrderOf`, `ErasedFrom`), which TLC evaluates
to exactly the one computed.

The other three rest on `TreeInv`. A root must not disappear from the registry, or
lose its node there, on account of another object: not when that one's descendants
are deleted, nor when they are unloaded. It would if it were written down anywhere
as somebody's child, and it is written down in many places: the registry, the
tasks under way, the rows, the results under way. `OwnEntries` and `OwnData` follow
`parent_uuid` round this circle (each place has the object's own parent or `Nil`,
which `_unload_object` may write); with `ChildrenMapExact`, `RootOnTop` concludes
that `_collect_descendants` reaches a root from nowhere else. `RemovalsOut` says
that what is to be deleted has left the tree and that no deletion is pending while
nodes are mounted; `OwnNodes`, `OwnCached` and `FreshNodes` that an entry, a cache
slot and a new instance hold nodes of their own object. A late or repeated result
then finds each root in the tree registered, and `LoadNext` mounts only what the
registry misses.

**LruCacheProofs.** Each operation keeps a cache well formed (the list names
every key once, so no iterator of `key_finder` dangles) and ordered by use;
`PutCorrect` adds capacity, content, and that what is evicted is exactly what
disappears.

**ObjectSceneCacheProofs.** `TypeCorrect`, `CapacityKept`, `NoLeak`,
`LoadsKnown`, `EvictsOldest`, `NothingLost`. `NodesOwned` needs strengthening
(`Ownership`): the next instance is unused, no node is on record for two objects,
an object with a node on record is registered and alive, the node is a child, held
or freed, and the object has none in `node_cache_`. The last is what keeps `Put` from
replacing a cached node, which it does without the callback. It survives the user's
`remove_child` because the record stays until a result or `_process` takes it away
together with the registration, and an unrecorded mount after a re-entry because
`acquire` has popped the node. `NothingLost` has the exceptions of `Recoverable`
(`unsaved`) and no hypothesis: saves may fail and the signals may be disconnected.

**StreamSqliteDBProofs.** `ChunkIdsRight` (`ChunkCacheCoherent`),
`CachedBoxesRight` (`AabbCacheCoherent`), `ParentsStored`. `ChunkCacheOK` and
`AabbCacheOK` say that the caches are well formed and within their capacities, so
that the lemmas of `LruCacheProofs` apply to every `Put`; `Sound` that each row
has its parent, in the file and in the transaction; `RequestOK` and `PlaceOK`
which uuids the task can still visit. What makes `AabbCacheCoherent` inductive is
`NewUncached`: `get_object_aabb` caches a box for any uuid it is asked about, with
a row or without, but no box is cached for a new uuid before its row is there.
Boxes of removed rows are not covered by a property and need not be, for a uuid is
never inserted again. The ids of chunks are only ever added to while the
file is open (`IdsKept`); a crash takes them back, and the caches go with it.

**ChunkProofs.** `CornerInTile`: the range of the tile under which `compute_chunk`
files a box of a world that fits meets the range of every view that holds the box's
first corner, on both sides of the origin. The steps are that powers of two
compose (`TwoTo`), that clearing low bits rounds down to a multiple while the
conversion to integers rounds towards zero, and that the least and greatest of
finitely many coordinates exist. This is the one place where an induction over the
data was needed; it is made by contradiction, from the least natural number without
the property (`NatMin`), so that no library theorem with an operator parameter is
used.

**ObjectIndexProofs.** `DatabaseTypes` (`TypeOK`), `CornersFound` (`CornerFound`),
`ImplementsObjectIndex` (`ImplementsIndex`). A flush is many calls in the code and
one step of `ObjectIndex`, so the invariant says for every place in between what
the transaction has done to the file so far: which rows are gone (`Gone`), which
have come (`Come`), which have been measured (`Measured`) and which are filed anew
(`Refiled`) and why. `RowsRight` and `BoxesRight` compare the rows with what the
abstract step makes of the file at the beginning of the transaction; `FiledAnew`
and `FiledBefore` do the same for the chunks, the box an object was filed by being
the one reported or the one read back (`CachedFrom`). What is above a visited
object and not filed anew is still ahead of the walk up the parents (`FiledBefore`,
`WalkRight`), so nothing is left behind when the walk has ended; `ChunksKept` says
that the tiles of the file are still there. In the refinement `Commit` is the whole
flush, `Begin`, `Crash` and the first write that is given up are steps of their own,
and every other call is a stutter (`StepSimulates`). `CornersFound` is a corollary of
`FiledAnew` and `CornerInTile`.

**ManagerLinksProofs.** `TypeCorrect`, `RegistrationFollowsPointer`
(`PointerRegistered`), `NoSecondWorker` (`OneWorkerPerPath`), `WorkersFollowPaths`
(`WorkerFollowsPath`), `ForeignResultsAreShared` (`ForeignResultsShared`). The
invariant adds that `_db_worker_cache` names for each path a worker made for that
path (`CacheRight`), and the one in use if there is one (`CacheKnows`), that only
ready managers hold workers (`HoldersReady`), that a query waits only on a worker
somebody holds (`QueriesHeld`). `Linked` is
`PointerRegistered` for one probe: an operation of a probe disturbs only its own.

**Only model-checked:** liveness (`EveryTaskRuns`, `CallbackCalled`,
`DestructionEnds`, `Settles`, `LoadsComplete`, `GhostsPruned`), which is beyond the
installed provers. Every safety property of the passing runs is proved.

## 5. Not modelled

* `StreamManager`: `update_object` (nothing calls or binds it), the moment between
  `queue_free` and the flush of the engine's delete queue, scripts that run inside
  a callback. Lines 472–488 of SM are unreachable:
  `acquire` has already filtered nodes queued for deletion.
* `ObjectSceneCache`: a node taken out that the user frees through a reference of
  their own (in `node_cache_` a pointer then dangles) or adds again, which
  `StreamManager` has; families and late results, which are `StreamManager`'s as
  well; the engine's own resource cache.
* `StreamSqliteDB`: read-only databases (every caller opens for writing), the
  creation of the schema, `query_objects` for a single AABB and the statements
  that remove chunks (nothing calls them), a file that cannot be opened, what
  another connection writes, and the last transactions that a power failure may
  take back under `synchronous=NORMAL`. The `StreamManager` module reads the rows
  without the caches, which `index` justifies as long as no write is given up.
* Geometry (`transform_aabb`, `get_aabb`): floating point.
* `SQLiteDB`: binding and reading columns; of `step`, only what follows from an
  error is modelled. `gdsqlite`, SQLite, stduuid, ankerl
  and godot-cpp are libraries. The FIFO and LFU policies are not used.

## 6. Further observations

Met while modelling, without a run of their own:

* SM:526–528: unloading several members of a family in hash order re-creates
  entries of members already erased (`registry_[obj_id]`).
* SM:435: roots that are registered but not in the result are queued too.
* SM:348: a node removed and added again in the same frame is still deleted:
  `ChildrenRegistered`, and later `OneNodePerRoot` and `CachedNotInTree`, fail
  when `"readd"` joins the operations of `manager_tree`.
* SM:224: deleting a parent unregisters its descendants, whose nodes stay in the
  tree (the comment there leaves deleting nodes to the user);
  `ChildrenRegistered` is therefore about roots. `OneNodePerRoot` is for the same
  reason, though it takes longer to see: a child whose entry was re-created without
  a parent by SM:526 is queued for loading like a root, more than once if results
  overlap. It is mounted, a result restores its parent, the parent is deleted, and
  the child is unregistered with its node in the tree. A result from before the
  deletion registers it again without a node, and the rest of the queue mounts a
  second one. The shortest history TLC found has seven operations of the user and
  results that are nine frames late, beyond the bounds of `manager_tree`.
* SM:655: the insertion order of a flush is the iteration order of a hash set
  permuted by earlier erasures; a child inserted before its parent fails its
  foreign key, and the transaction commits without it.
* SM:89 polls every fourth frame; the repository's README line 107 says every 3.
* SM:705–714 binds neither `add_object`, `remove_object` nor `update_object`,
  which the README's API table lists.
* `object_scene_cache.cpp:12`: the default evict callback calls the C library's
  `free` on an engine object, and nothing replaces it. The model takes an evicted
  node to be freed.
* SM:529–536: a result that comes after the user's `remove_child` and before the
  frame's deletion releases the node into `node_cache_` although the user holds it
  (the comment at SM:223 leaves such nodes to the user). It then has two owners: it
  may be mounted again, or freed by an eviction. `NodesOwned` speaks of the manager
  only.
* `object_scene_cache.cpp`:97–100: a failed load is never taken from the engine with
  `load_threaded_get`. An object whose file was not yet written, or was damaged, when
  it was first loaded fails again at every later request, although the file may be
  there by then. Line 92: a file that loads as something else than a scene is
  requested, loaded and dropped for ever.
* SM:575: a save that fails is printed and not tried again. The object's only
  state may then be a node in `node_cache_`, which the next eviction frees.
* SM:532: `_unload_object` leaves saving to the signal `child_exiting_tree`. After
  the manager has left the tree once nobody is connected to it, and the unloaded
  state is lost with the eviction.
* SM:566: saves are bound to the manager; the ones not started when it is deleted
  are lost. The model includes this (`SaveDropped`), and `Recoverable` is claimed
  only until the deletion.
* SM:113–127: with more objects in view than `scene_cache_` holds, arriving
  scenes evict scenes that were not instantiated yet. `LoadsComplete` is claimed
  only while the view fits.
* The node of a deleted object stays in `node_cache_` until it is evicted.
* SM:226: a result can unregister an object between its removal by the user and
  the frame's deletion, which then meets `DEV_ASSERT(registry_.count(uuid) > 0)`
  and is lost. It is the race of `stale_result` with a removal.
* The repository's README line 107 says a probe "deregisters" when it leaves the
  tree or is hidden. `stream_world_probe.cpp`:81 changes the pointer without
  deregistering from the old manager, which goes on streaming for the probe,
  outside the tree and hidden too, until the probe is freed. Line 36 registers a
  probe in `_ready` whether it is visible or not. A probe that enters the tree
  before its manager is not registered until it is shown, redirected or entered
  again. Line 48 calls the manager through a pointer that dangles if the manager
  was freed first.
* SM:143–150: when the directory of a new path cannot be made, the manager keeps
  its old database and has the new directory for its scenes.
* `async_db_worker.cpp`:21: workers are found by the path as it was spelled; two
  spellings of one file open two connections, which is where `Contention` comes
  from within one process.
* `stream_sqlite_db.cpp`:294: a chunk whose insertion was given up stays -1 in
  `chunk_cache`; objects in that tile cannot be filed until the id is evicted or
  the database reopened.
* SM:666: the box of a parent spans its children and not their children, and a
  child without an AABB counts as a point at the origin. SM:651: removing a child
  does not file its parent anew.
* `chunk.h`:28: a level is four times the one below; the README's line 15 says it
  doubles every two levels. From level 16 on the range written by the trigger
  exceeds 32 bits, and `rtree_i32` wraps it or leaves it out.

## 7. Plan

Done, in this order: `TaskExecutor` and `AsyncDbWorker`, `StreamManager`,
`LruCache` and `ObjectSceneCache`, each with its proofs; `Chunk`, `ObjectIndex` and
`StreamSqliteDB`; `StreamWorldProbe`, `WorkerRegistry` and `ManagerLinks`; the
proofs of the last two groups; the refinement of `ObjectIndex`; the agreement of
registry, cache and tree in `StreamManager`. Next:

1. What of `ChildrenRegistered` still holds with re-adding: an object whose
   deletion is not queued is registered with its node.
2. For the children of families, which of their nodes the registry can lose.
3. The rows: every row's object was added by the user, and a flush in flight
   never names a parent other than the user's (parts of `TreeInv` that say
   something on their own).
