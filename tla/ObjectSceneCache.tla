-------------------------- MODULE ObjectSceneCache --------------------------
(***************************************************************************)
(* core/components/object_scene_cache.cpp with its two LRU caches at their *)
(* capacities, the scene files, the threads that save and load them, and   *)
(* the StreamManager as its client: nodes are unloaded into node_cache_,   *)
(* objects in view are acquired, or requested and tried again.  Objects    *)
(* are roots, and query results are up to date; families and late results  *)
(* are StreamManager's.                                                    *)
(*                                                                         *)
(* What a node holds is a version: the user modifies a node in the tree,   *)
(* saving writes the version the node had when it was packed, loading      *)
(* reads the version of the file.                                          *)
(*                                                                         *)
(* A node the user has taken out stays with the user, who neither frees it *)
(* nor adds it again.                                                      *)
(***************************************************************************)
EXTENDS LruCache

CONSTANTS
    Objects,       \* uuids
    NoNode,        \* the null ObjectID
    Damaged,       \* a file, or what is loaded from it, that is no scene
    SceneCap,      \* scene_cache_capacity (16)
    NodeCap,       \* node_cache_capacity (32)
    MaxInst,       \* bound: node instances
    Views,         \* bound: which sets of objects the probes may come to see
    MaxOps,        \* bound: operations of the user and failed saves
    Ops            \* which of them are performed

ASSUME CacheAssumption ==
    /\ IsFiniteSet(Objects) /\ Views \subseteq SUBSET Objects
    /\ SceneCap \in Nat /\ NodeCap \in Nat /\ MaxInst \in Nat /\ MaxOps \in Nat
    /\ NoNode \notin 1..MaxInst /\ Damaged \notin Nat

VARIABLES
    \* the engine and the manager
    life,                \* objects are new, alive (they have a row) or deleted
    where,               \* each instance's state
    content,             \* the version each instance holds
    latest,              \* the version each object was last given
    made,                \* instances made
    registered,          \* the keys of registry_
    node_root,           \* the manager's record of each object's node
    object_removal_,
    view,                \* the objects the probes see
    wanted,              \* load_queue_ and loaded_queue_
    ops,                 \* user operations and failed saves
    open,                \* the manager is not deleted
    attached,            \* it is inside the tree
    hooked,              \* its child signals are connected
    removing,            \* _process is going through object_removal_
    \* ObjectSceneCache
    node_cache_, scene_cache_,
    loading_requests_, loading_set_, remove_loading_set_,
    it,                  \* the position of update() in loading_requests_, or 0
    newer,               \* <<x, y>>: x's scene was used after y's
    \* ResourceLoader, WorkerThreadPool and the disk
    status, result, files, saves,
    unsaved              \* history: objects that left the tree without a save,
                         \* or whose last save failed

client  == <<life, where, content, latest, made, registered, node_root, view, wanted>>
manager == <<object_removal_, open, attached, hooked, removing>>
loader  == <<loading_requests_, loading_set_, remove_loading_set_, it>>
caches  == <<node_cache_, scene_cache_, newer>>
disk    == <<status, result, files, saves, unsaved>>
vars == <<client, ops, manager, loader, caches, disk>>

Nodes == 1..MaxInst
NodeStates == {"none",     \* not yet instantiated
               "child",    \* a child of the manager
               "held",     \* taken out by the user, who keeps it
               "cached",   \* unloaded
               "freed"}
Versions == Nat
Save(u, n) == [obj |-> u, version |-> content[n]]

\* u's scene is used now.
Used(u) == {p \in newer : p[2] # u} \cup {<<u, x>> : x \in Objects \ {u}}

Init ==
    /\ life = [u \in Objects |-> "new"]
    /\ where = [n \in Nodes |-> "none"] /\ content = [n \in Nodes |-> 0]
    /\ latest = [u \in Objects |-> 0] /\ made = 0
    /\ registered = {} /\ node_root = [u \in Objects |-> NoNode]
    /\ object_removal_ = {} /\ view = {} /\ wanted = {} /\ ops = 0
    /\ open = TRUE /\ attached = TRUE /\ hooked = TRUE /\ removing = FALSE
    /\ node_cache_ = Empty /\ scene_cache_ = Empty /\ newer = {}
    /\ loading_requests_ = <<>> /\ loading_set_ = {} /\ remove_loading_set_ = {}
    /\ it = 0
    /\ status = [u \in Objects |-> "none"] /\ result = [u \in Objects |-> 0]
    /\ files = [u \in {} |-> 0] /\ saves = {} /\ unsaved = {}

\* The main thread is outside the loops over object_removal_ and
\* loading_requests_; it is, and _process may run.
Main == open /\ it = 0 /\ ~removing
Process == Main /\ attached

\* _on_object_entered and _on_object_exited are called.
Connected == attached /\ hooked

InTree(u) == node_root[u] # NoNode /\ where[node_root[u]] = "child"
Readable(u) == u \in DOMAIN files /\ files[u] # Damaged

-----------------------------------------------------------------------------
(* The user.                                                               *)

\* _generate_uuid gives a uuid that no object has.
NewUuid == CHOOSE u \in Objects : life[u] = "new"

\* add_child of a new object.
Add(u) ==
    /\ Main /\ Connected /\ life[u] = "new" /\ u = NewUuid /\ made < MaxInst
    /\ life' = [life EXCEPT ![u] = "alive"]
    /\ made' = made + 1
    /\ where' = [where EXCEPT ![made + 1] = "child"]
    /\ registered' = registered \cup {u}
    /\ node_root' = [node_root EXCEPT ![u] = made + 1]
    /\ UNCHANGED <<content, latest, view, wanted, ops, manager, loader, caches, disk>>

Counted(op) == op \in Ops /\ ops < MaxOps /\ ops' = ops + 1

User(op) == Main /\ Counted(op) /\ UNCHANGED loader

\* The user changes a node in the tree.
Modify(u) ==
    /\ User("modify") /\ InTree(u)
    /\ latest' = [latest EXCEPT ![u] = @ + 1]
    /\ content' = [content EXCEPT ![node_root[u]] = latest[u] + 1]
    /\ UNCHANGED <<life, where, made, registered, node_root, view, wanted, manager,
                   caches, disk>>

\* The probes move.
Look(v) ==
    /\ User("look") /\ view # v
    /\ view' = v
    /\ UNCHANGED <<life, where, content, latest, made, registered, node_root, wanted,
                   manager, caches, disk>>

\* A node goes without a save unless _on_object_exited is called.
LeftUnsaved(u) == IF Connected THEN unsaved ELSE unsaved \cup {u}

\* queue_free: _on_object_exited saves the node; its record stays.
QueueFree(u) ==
    /\ User("free") /\ InTree(u)
    /\ where' = [where EXCEPT ![node_root[u]] = "freed"]
    /\ saves' = IF Connected THEN saves \cup {Save(u, node_root[u])} ELSE saves
    /\ unsaved' = LeftUnsaved(u)
    /\ UNCHANGED <<life, content, latest, made, registered, node_root, view, wanted,
                   manager, caches, status, result, files>>

\* remove_child: _on_object_exited queues the deletion for the next _process,
\* until when the object stays registered with the node the user now holds.
Remove(u) ==
    /\ User("remove") /\ InTree(u)
    /\ where' = [where EXCEPT ![node_root[u]] = "held"]
    /\ object_removal_' = IF Connected THEN object_removal_ \cup {u} ELSE object_removal_
    /\ unsaved' = unsaved \cup {u}
    /\ UNCHANGED <<life, content, latest, made, registered, node_root, view, wanted,
                   open, attached, hooked, removing, caches, status, result, files,
                   saves>>

\* _exit_tree disconnects the child signals; what is pending is dropped.
ExitTree ==
    /\ User("exit") /\ attached
    /\ attached' = FALSE /\ hooked' = FALSE
    /\ object_removal_' = {} /\ wanted' = {}
    /\ UNCHANGED <<life, where, content, latest, made, registered, node_root, view,
                   open, removing, caches, disk>>

\* _enter_tree does not connect them again.
EnterTree ==
    /\ Main /\ ~attached /\ ops < MaxOps
    /\ attached' = TRUE
    /\ UNCHANGED <<client, ops, object_removal_, open, hooked, removing, loader, caches,
                   disk>>

\* Deletion of the manager: its children are saved on their way out if it was
\* queued for deletion; they are freed with it, and free_all_node frees what is
\* in node_cache_.
Predelete ==
    /\ User("delete") /\ open' = FALSE
    /\ \E queued \in BOOLEAN :
         saves' = IF queued /\ Connected
                    THEN saves \cup {Save(u, node_root[u]) : u \in {x \in Objects : InTree(x)}}
                    ELSE saves
    /\ where' = [n \in Nodes |->
                   IF where[n] = "child" \/ \E u \in Keys(node_cache_) : node_cache_.items[u] = n
                     THEN "freed" ELSE where[n]]
    /\ node_cache_' = Empty /\ scene_cache_' = Empty
    /\ UNCHANGED <<life, content, latest, made, registered, node_root, view, wanted,
                   object_removal_, attached, hooked, removing, newer, status, result,
                   files, unsaved>>

-----------------------------------------------------------------------------
(* The manager: deleting, unloading and loading.                           *)

\* _remove_object of each uuid in object_removal_, one after the other; an
\* object that is not registered any more keeps its file.
ProcessRemove(u) ==
    /\ open /\ attached /\ it = 0 /\ u \in object_removal_
    /\ object_removal_' = object_removal_ \ {u}
    /\ removing' = (object_removal_' # {})
    /\ IF u \in registered
         THEN /\ life' = [life EXCEPT ![u] = "deleted"]
              /\ registered' = registered \ {u}
              /\ node_root' = [node_root EXCEPT ![u] = NoNode]
              /\ files' = [x \in DOMAIN files \ {u} |-> files[x]]
              /\ scene_cache_' = Removed(scene_cache_, u)
         ELSE UNCHANGED <<life, registered, node_root, files, scene_cache_>>
    /\ UNCHANGED <<where, content, latest, made, view, wanted, ops, open, attached,
                   hooked, loader, node_cache_, newer, status, result, saves, unsaved>>

\* Mutant: the evicted node is dropped without its callback.
Freed_Leaked(u, n) == {}

\* The nodes node_evict_ is called for when n is released.
Freed(u, n) == Evicted(node_cache_, u, NodeCap)

\* Mutant: a node on its way to the cache is not saved.
Saved_Skipped(u, n) == saves

\* _save_object_to_file queues a save of what the node holds now.
Saved(u, n) == saves \cup {Save(u, n)}

\* A result without u: _unload_object releases its node, whoever has it, and
\* _erase_registry_entry forgets the object.  A child of the manager is saved
\* when _on_object_exited is called for it.
Unload(u) ==
    /\ Main /\ u \in registered \ view /\ node_root[u] # NoNode
    /\ registered' = registered \ {u}
    /\ node_root' = [node_root EXCEPT ![u] = NoNode]
    /\ LET n == node_root[u]
           child == where[n] = "child"
       IN  /\ IF where[n] # "freed"
                THEN /\ where' = [m \in Nodes |-> IF m \in Freed(u, n) THEN "freed"
                                    ELSE IF m = n /\ child THEN "cached" ELSE where[m]]
                     /\ node_cache_' = Put(node_cache_, u, n, NodeCap)
                ELSE UNCHANGED <<where, node_cache_>>
           /\ saves' = IF child /\ Connected THEN Saved(u, n) ELSE saves
           /\ unsaved' = IF child THEN LeftUnsaved(u) ELSE unsaved
    /\ UNCHANGED <<life, content, latest, made, view, wanted, ops, manager, loader,
                   scene_cache_, newer, status, result, files>>

\* A result with u registers it, and queues it when it has no node.
Want(u) ==
    /\ Main /\ life[u] = "alive" /\ u \in view \ wanted /\ node_root[u] = NoNode
    /\ registered' = registered \cup {u}
    /\ wanted' = wanted \cup {u}
    /\ UNCHANGED <<life, where, content, latest, made, node_root, view, ops, manager,
                   loader, caches, disk>>

\* _load_object_scene of an object that is gone or has its node.
LoadNothing(u) ==
    /\ Process /\ u \in wanted
    /\ u \notin registered \/ node_root[u] # NoNode
    /\ wanted' = wanted \ {u}
    /\ UNCHANGED <<life, where, content, latest, made, registered, node_root, view, ops,
                   manager, loader, caches, disk>>

ToLoad(u) == Process /\ u \in wanted \cap registered /\ node_root[u] = NoNode

\* add_child of the node acquire returned; _on_object_entered records it.
Mount(u, n) ==
    /\ where' = [where EXCEPT ![n] = "child"]
    /\ node_root' = IF hooked THEN [node_root EXCEPT ![u] = n] ELSE node_root
    /\ wanted' = wanted \ {u}
    /\ UNCHANGED <<life, latest, registered, view, ops, manager, loader, disk>>

\* acquire pops the node from node_cache_.
LoadNode(u) ==
    /\ ToLoad(u) /\ u \in Keys(node_cache_)
    /\ node_cache_' = Removed(node_cache_, u)
    /\ Mount(u, node_cache_.items[u])
    /\ UNCHANGED <<content, made, scene_cache_, newer>>

\* acquire instantiates the scene from scene_cache_.
LoadScene(u) ==
    /\ ToLoad(u) /\ u \notin Keys(node_cache_) /\ u \in Keys(scene_cache_)
    /\ made < MaxInst
    /\ made' = made + 1
    /\ content' = [content EXCEPT ![made + 1] = scene_cache_.items[u]]
    /\ scene_cache_' = Got(scene_cache_, u)
    /\ newer' = Used(u)
    /\ Mount(u, made + 1)
    /\ UNCHANGED node_cache_

\* Mutant: the request is not remembered, only that there is one.
Requested_Lost(u) == loading_requests_

\* loading_requests_ after another request.
Requested(u) == Append(loading_requests_, u)

\* acquire finds neither; request_scene answers whether to try again.
LoadRequest(u) ==
    /\ ToLoad(u) /\ u \notin Keys(node_cache_) /\ u \notin Keys(scene_cache_)
    /\ \/ \* the last load failed: reported once, nothing is done until the next result
          /\ u \in remove_loading_set_
          /\ remove_loading_set_' = remove_loading_set_ \ {u}
          /\ wanted' = wanted \ {u}
          /\ UNCHANGED <<loading_requests_, loading_set_, status>>
       \/ \* a load is under way: try again
          /\ u \in loading_set_ \ remove_loading_set_
          /\ UNCHANGED <<loading_requests_, loading_set_, remove_loading_set_, status,
                         wanted>>
       \/ \* load_threaded_request: a new task, or the failed one that was never taken
          /\ u \notin loading_set_ \cup remove_loading_set_
          /\ loading_requests_' = Requested(u)
          /\ loading_set_' = loading_set_ \cup {u}
          /\ status' = [status EXCEPT ![u] = IF @ = "failed" THEN "failed" ELSE "progress"]
          /\ UNCHANGED <<remove_loading_set_, wanted>>
       \/ \* which refuses a file it does not find
          /\ u \notin loading_set_ \cup remove_loading_set_ \cup DOMAIN files
          /\ status[u] # "failed"
          /\ wanted' = wanted \ {u}
          /\ UNCHANGED <<loading_requests_, loading_set_, remove_loading_set_, status>>
    /\ UNCHANGED <<life, where, content, latest, made, registered, node_root, view, ops,
                   manager, it, caches, result, files, saves, unsaved>>

-----------------------------------------------------------------------------
(* update(): a pass over loading_requests_; the loader's threads go on     *)
(* working while it runs.                                                  *)

UpdateBegin ==
    /\ Process /\ loading_requests_ # <<>>
    /\ it' = 1
    /\ UNCHANGED <<client, ops, manager, loading_requests_, loading_set_,
                   remove_loading_set_, caches, disk>>

\* Mutant: a failed load stays in loading_set_.
LoadingAfter_Kept(u) == IF status[u] = "failed" THEN loading_set_ ELSE loading_set_ \ {u}

\* A load that has ended, well or not, leaves loading_set_.
LoadingAfter(u) == loading_set_ \ {u}

\* loading_requests_.erase(it)
Drop(u) ==
    /\ loading_requests_' = [i \in 1..(Len(loading_requests_) - 1) |->
                                loading_requests_[IF i < it THEN i ELSE i + 1]]
    /\ loading_set_' = LoadingAfter(u)
    /\ UNCHANGED it

\* load_threaded_get takes the task of a load that succeeded.  The task of one
\* that failed is not taken: the engine keeps it.
UpdateEntry ==
    /\ open /\ it \in 1..Len(loading_requests_)
    /\ LET u == loading_requests_[it] IN
         \/ /\ status[u] = "loaded" /\ Drop(u)
            /\ status' = [status EXCEPT ![u] = "none"]
            /\ IF result[u] # Damaged
                 THEN /\ scene_cache_' = Put(scene_cache_, u, result[u], SceneCap)
                      /\ newer' = Used(u)
                 ELSE UNCHANGED <<scene_cache_, newer>>
            /\ UNCHANGED remove_loading_set_
         \/ /\ status[u] = "failed" /\ Drop(u)
            /\ remove_loading_set_' = remove_loading_set_ \cup {u}
            /\ UNCHANGED <<scene_cache_, newer, status>>
         \/ \* in progress, or unknown to the engine (INVALID_RESOURCE)
            /\ status[u] \notin {"loaded", "failed"}
            /\ it' = it + 1
            /\ UNCHANGED <<loading_requests_, loading_set_, remove_loading_set_,
                           scene_cache_, newer, status>>
    /\ UNCHANGED <<client, ops, manager, node_cache_, result, files, saves, unsaved>>

UpdateEnd ==
    /\ open /\ it > Len(loading_requests_)
    /\ it' = 0
    /\ UNCHANGED <<client, ops, manager, loading_requests_, loading_set_,
                   remove_loading_set_, caches, disk>>

-----------------------------------------------------------------------------
(* The engine's threads.                                                   *)

\* The file of u is now f.
Written(u, f) == [x \in DOMAIN files \cup {u} |-> IF x = u THEN f ELSE files[x]]

\* WorkerThreadPool runs the saves of one object in any order.
SaveDone(s) ==
    /\ s \in saves
    /\ saves' = saves \ {s}
    /\ files' = Written(s.obj, s.version)
    /\ unsaved' = unsaved \ {s.obj}
    /\ UNCHANGED <<client, ops, manager, loader, caches, status, result>>

\* ResourceSaver::save fails, which is only printed: the file is as it was, or
\* damaged.
SaveFailed(s) ==
    /\ Counted("fail") /\ s \in saves
    /\ saves' = saves \ {s}
    /\ files' \in {files, Written(s.obj, Damaged)}
    /\ unsaved' = unsaved \cup {s.obj}
    /\ UNCHANGED <<client, manager, loader, caches, status, result>>

\* A task is bound to the manager: one that starts after its deletion is not
\* called.
SaveDropped(s) ==
    /\ ~open /\ s \in saves
    /\ saves' = saves \ {s}
    /\ UNCHANGED <<client, ops, manager, loader, caches, status, result, files, unsaved>>

\* ResourceLoader reads the file; a damaged one fails to load, or loads as
\* something else than a scene.
LoadDone(u) ==
    /\ status[u] = "progress"
    /\ \/ /\ u \in DOMAIN files
          /\ status' = [status EXCEPT ![u] = "loaded"]
          /\ result' = [result EXCEPT ![u] = files[u]]
       \/ /\ ~Readable(u)
          /\ status' = [status EXCEPT ![u] = "failed"]
          /\ UNCHANGED result
    /\ UNCHANGED <<client, ops, manager, loader, caches, files, saves, unsaved>>

-----------------------------------------------------------------------------

UserStep(u) == Add(u) \/ Modify(u) \/ QueueFree(u) \/ Remove(u)
Load(u) == LoadNothing(u) \/ LoadNode(u) \/ LoadScene(u) \/ LoadRequest(u)
UpdateStep == UpdateBegin \/ UpdateEntry \/ UpdateEnd
MainStep == UpdateStep \/ \E u \in Objects : ProcessRemove(u)

Next ==
    \/ \E u \in Objects : UserStep(u)
    \/ \E v \in Views : Look(v)
    \/ ExitTree \/ EnterTree \/ Predelete
    \/ \E u \in Objects : Unload(u) \/ Want(u) \/ Load(u)
    \/ MainStep
    \/ \E s \in saves : SaveDone(s) \/ SaveFailed(s) \/ SaveDropped(s)
    \/ \E u \in Objects : LoadDone(u)

Safety == Init /\ [][Next]_vars

\* The steps that bring u back: of the main thread, and of the loader's.
LoadStep(u) == Want(u) \/ Load(u) \/ LoadDone(u)

\* Every frame goes through object_removal_, runs update() and tries the queue
\* again, every fourth one polls; the loader's threads keep working.  The later
\* steps of a frame are enabled between the loops of the earlier ones, again and
\* again, so their fairness has to be strong.  Nothing is asked of the threads
\* that save.
Spec == Safety /\ WF_vars(MainStep) /\ \A u \in Objects : SF_vars(LoadStep(u))

-----------------------------------------------------------------------------
(* Properties.                                                             *)

Saves == [obj : Objects, version : Versions]

ClientTypeOK ==
    /\ life \in [Objects -> {"new", "alive", "deleted"}]
    /\ where \in [Nodes -> NodeStates]
    /\ content \in [Nodes -> Versions] /\ latest \in [Objects -> Versions]
    /\ made \in 0..MaxInst
    /\ registered \subseteq Objects /\ node_root \in [Objects -> Nodes \cup {NoNode}]
    /\ view \subseteq Objects /\ wanted \subseteq Objects /\ ops \in 0..MaxOps
ManagerTypeOK ==
    /\ object_removal_ \subseteq Objects
    /\ open \in BOOLEAN /\ attached \in BOOLEAN /\ hooked \in BOOLEAN
    /\ removing \in BOOLEAN
LoaderTypeOK ==
    /\ loading_requests_ \in Seq(Objects)
    /\ loading_set_ \subseteq Objects /\ remove_loading_set_ \subseteq Objects
    /\ it \in 0..(Len(loading_requests_) + 1)
    /\ newer \subseteq Objects \X Objects
DiskTypeOK ==
    /\ status \in [Objects -> {"none", "progress", "loaded", "failed"}]
    /\ result \in [Objects -> Versions \cup {Damaged}]
    /\ DOMAIN files \subseteq Objects
    /\ files \in [DOMAIN files -> Versions \cup {Damaged}]
    /\ saves \subseteq Saves /\ unsaved \subseteq Objects

\* Types; of each cache, that its list names every key exactly once, so that
\* ReplCandidate and the iterators of key_finder are never dangling.
TypeOK ==
    /\ ClientTypeOK /\ ManagerTypeOK /\ LoaderTypeOK /\ DiskTypeOK
    /\ WellFormed(node_cache_, Objects, Nodes)
    /\ WellFormed(scene_cache_, Objects, Versions)

\* Neither cache outgrows its capacity.
WithinCapacity ==
    /\ Cardinality(Keys(node_cache_)) <= Capacity(NodeCap)
    /\ Cardinality(Keys(scene_cache_)) <= Capacity(SceneCap)

\* No unloaded node leaks, and the manager has no node twice: what node_cache_
\* holds is neither freed nor in the tree nor on record, and is there under one
\* uuid.  (The user may have such a node too: one taken out by remove_child is
\* released like any other by a result that comes before its deletion.)
NodesOwned ==
    /\ \A n \in Nodes : where[n] = "cached" =>
         \E u \in Keys(node_cache_) : node_cache_.items[u] = n
    /\ \A u \in Keys(node_cache_) : where[node_cache_.items[u]] \in {"cached", "held"}
    /\ \A u, x \in Keys(node_cache_) : node_cache_.items[u] = node_cache_.items[x] => u = x
    /\ \A u \in Keys(node_cache_), x \in Objects : node_cache_.items[u] # node_root[x]

\* loading_set_ names what is in loading_requests_, once each, and the engine
\* knows it: update() never passes over an entry for ever (INVALID_RESOURCE).
\* Every load in the engine is in loading_set_, except failed ones it keeps.
LoadingTracked ==
    /\ loading_set_ = {loading_requests_[i] : i \in 1..Len(loading_requests_)}
    /\ \A i, j \in 1..Len(loading_requests_) :
         loading_requests_[i] = loading_requests_[j] => i = j
    /\ \A u \in Objects : u \in loading_set_ => status[u] # "none"
    /\ \A u \in Objects : status[u] \in {"progress", "loaded"} => u \in loading_set_

\* scene_cache_ lists its scenes by the time of their last use.
RecencyOrder == Ordered(scene_cache_.queue, newer)

\* Eviction from either cache and deletion of files lose no object: until the
\* manager is deleted, an object outside the tree has a file that is a scene or
\* a save under way, unless it left the tree without a save (taken out by the
\* user, or after _exit_tree disconnected the signals) or its last save failed.
Recoverable ==
    \A u \in Objects : open /\ life[u] = "alive" /\ ~InTree(u) =>
        u \in unsaved \/ Readable(u) \/ \E s \in saves : s.obj = u

\* As long as the manager stays in the tree and the objects in view fit into
\* scene_cache_, the living ones end up with a node on record, except those
\* without a file that is a scene and those whose load has failed once.  (A node
\* the user freed or took out stays on record until it leaves the view.)
LoadsComplete ==
    <>[](open /\ Connected /\ Cardinality(view) <= Capacity(SceneCap) =>
            \A u \in view : life[u] = "alive" =>
                node_root[u] # NoNode \/ ~Readable(u) \/ status[u] = "failed")

\* A node in the tree is in the state its object was last given.
UpToDate ==
    \A u \in Objects : InTree(u) => content[node_root[u]] = latest[u]
=============================================================================
