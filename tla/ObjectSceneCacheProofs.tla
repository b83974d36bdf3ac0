----------------------- MODULE ObjectSceneCacheProofs -----------------------
(***************************************************************************)
(* Safety of ObjectSceneCache for every set of objects, every capacity and *)
(* every schedule of the saving and loading threads.                       *)
(***************************************************************************)
EXTENDS ObjectSceneCache, LruCacheProofs

Types == ClientTypeOK /\ ManagerTypeOK /\ LoaderTypeOK /\ DiskTypeOK

NodeCacheOK ==
    /\ WellFormed(node_cache_, Objects, Nodes)
    /\ Cardinality(Keys(node_cache_)) <= Capacity(NodeCap)

SceneCacheOK ==
    /\ WellFormed(scene_cache_, Objects, Versions)
    /\ Cardinality(Keys(scene_cache_)) <= Capacity(SceneCap)
    /\ Ordered(scene_cache_.queue, newer)

\* NodesOwned is not inductive by itself: the next instance must be unused; an
\* object with a node on record must be registered and alive, share the node
\* with no other object, and have none in node_cache_ (releasing it would drop
\* the cached one, which Put over an existing key does without the callback).
Ownership ==
    /\ NodesOwned
    /\ \A n \in Nodes : n > made => where[n] = "none"
    /\ \A n \in Nodes : n <= made => where[n] # "none"
    /\ \A u, x \in Objects : node_root[u] = node_root[x] /\ node_root[u] # NoNode => u = x
    /\ \A u \in Objects : node_root[u] # NoNode =>
         u \in registered /\ where[node_root[u]] \in {"child", "held", "freed"}
    /\ \A u \in registered : life[u] = "alive"
    /\ \A u \in Keys(node_cache_) : node_root[u] = NoNode /\ life[u] # "new"

IndInv ==
    Types /\ NodeCacheOK /\ SceneCacheOK /\ Ownership /\ LoadingTracked /\ Recoverable

-----------------------------------------------------------------------------
(* What a part of the invariant depends on.                                *)

LEMMA ClientTypeFrame ==
    ASSUME ClientTypeOK, UNCHANGED <<client, ops>> PROVE ClientTypeOK'
BY DEF ClientTypeOK, client

LEMMA ManagerTypeFrame ==
    ASSUME ManagerTypeOK, UNCHANGED manager PROVE ManagerTypeOK'
BY DEF ManagerTypeOK, manager

LEMMA LoaderTypeFrame ==
    ASSUME LoaderTypeOK, UNCHANGED <<loader, newer>> PROVE LoaderTypeOK'
BY DEF LoaderTypeOK, loader

LEMMA DiskTypeFrame ==
    ASSUME DiskTypeOK, UNCHANGED disk PROVE DiskTypeOK'
BY DEF DiskTypeOK, disk

LEMMA NodeCacheFrame ==
    ASSUME NodeCacheOK, UNCHANGED node_cache_ PROVE NodeCacheOK'
BY DEF NodeCacheOK, WellFormed, Keys, Lists

LEMMA SceneCacheFrame ==
    ASSUME SceneCacheOK, UNCHANGED <<scene_cache_, newer>> PROVE SceneCacheOK'
BY DEF SceneCacheOK, WellFormed, Keys, Lists, Ordered

\* Registering a living object leaves the ownership of nodes alone.
LEMMA OwnershipFrame ==
    ASSUME Ownership, UNCHANGED <<life, where, made, node_root, node_cache_>>,
           registered \subseteq registered', \A u \in registered' : life[u] = "alive"
    PROVE  Ownership'
BY DEF Ownership, NodesOwned, Keys, Nodes

LEMMA LoadingFrame ==
    ASSUME LoadingTracked, UNCHANGED <<loading_requests_, loading_set_, status>>
    PROVE  LoadingTracked'
BY DEF LoadingTracked

LEMMA RecoverableFrame ==
    ASSUME Recoverable, UNCHANGED <<open, life, where, node_root, files, saves, unsaved>>
    PROVE  Recoverable'
BY DEF Recoverable, InTree, Readable

\* More saves and more objects without one are no harm to what is outside.
LEMMA RecoverableGrows ==
    ASSUME Recoverable, UNCHANGED <<open, life, files>>,
           saves \subseteq saves', unsaved \subseteq unsaved',
           \A x \in Objects : ~InTree(x)' /\ InTree(x) =>
               x \in unsaved' \/ \E s \in saves' : s.obj = x
    PROVE  Recoverable'
BY DEF Recoverable, Readable

\* A use of a scene.
LEMMA UsedIsUse ==
    ASSUME NEW u \in Objects PROVE UseOf(u, Objects, newer, Used(u))
BY DEF UseOf, Used

LEMMA UsedType ==
    ASSUME LoaderTypeOK, NEW u \in Objects PROVE Used(u) \subseteq Objects \X Objects
BY DEF LoaderTypeOK, Used

\* A cache stays within its capacity when keys leave it.
LEMMA RemovedWithin ==
    ASSUME NEW V, NEW c, NEW u, NEW m \in Nat,
           WellFormed(c, Objects, V), Cardinality(Keys(c)) <= Capacity(m)
    PROVE  /\ WellFormed(Removed(c, u), Objects, V)
           /\ Keys(Removed(c, u)) = Keys(c) \ {u}
           /\ Cardinality(Keys(Removed(c, u))) <= Capacity(m)
           /\ \A R : Ordered(c.queue, R) => Ordered(Removed(c, u).queue, R)
<1> DEFINE d == Removed(c, u)
<1>1. /\ WellFormed(d, Objects, V) /\ Keys(d) = Keys(c) \ {u}
      /\ Cardinality(Keys(d)) <= Cardinality(Keys(c))
      /\ \A R : Ordered(c.queue, R) => Ordered(d.queue, R)
  BY RemovedWellFormed, CacheAssumption
<1>2. IsFiniteSet(Keys(c)) /\ IsFiniteSet(Keys(d))
  BY <1>1, FS_Subset, CacheAssumption DEF WellFormed
<1>3. Cardinality(Keys(d)) \in Nat /\ Cardinality(Keys(c)) \in Nat /\ Capacity(m) \in Nat
  BY <1>2, FS_CardinalityType DEF Capacity
<1>4. Cardinality(Keys(d)) <= Capacity(m)
  BY <1>1, <1>3
<1> HIDE DEF d
<1> QED
  BY <1>1, <1>4 DEF d

-----------------------------------------------------------------------------

LEMMA InitInv == Init => IndInv
<1> SUFFICES ASSUME Init PROVE IndInv
  OBVIOUS
<1> USE DEF Init
<1>1. Types
  <2>1. ClientTypeOK
    BY CacheAssumption DEF ClientTypeOK, Nodes, NodeStates, Versions
  <2>3. ManagerTypeOK
    BY DEF ManagerTypeOK
  <2>2. LoaderTypeOK /\ DiskTypeOK
    BY CacheAssumption DEF LoaderTypeOK, DiskTypeOK, Versions, Saves
  <2> QED
    BY <2>1, <2>2, <2>3 DEF Types
<1>2. Cardinality({}) = 0 /\ Capacity(NodeCap) >= 0 /\ Capacity(SceneCap) >= 0
  BY FS_EmptySet, CacheAssumption DEF Capacity
<1>3. NodeCacheOK /\ SceneCacheOK
  BY <1>2, EmptyWellFormed DEF NodeCacheOK, SceneCacheOK
<1>4. Ownership
  BY EmptyWellFormed, CacheAssumption DEF Ownership, NodesOwned, Nodes
<1>5. LoadingTracked /\ Recoverable
  BY DEF LoadingTracked, Recoverable
<1> QED
  BY <1>1, <1>3, <1>4, <1>5 DEF IndInv

LEMMA AddInv == ASSUME IndInv, NEW u \in Objects, Add(u) PROVE IndInv'
<1> USE DEF IndInv
<1>1. Types'
  <2>1. made + 1 \in Nodes /\ made + 1 \in 0..MaxInst
    BY CacheAssumption DEF Add, Types, ClientTypeOK, Nodes
  <2>2. ClientTypeOK'
    BY <2>1 DEF Add, Types, ClientTypeOK, NodeStates
  <2> QED
    BY <2>2, ManagerTypeFrame, LoaderTypeFrame, DiskTypeFrame DEF Add, Types, caches
<1>2. NodeCacheOK' /\ SceneCacheOK'
  BY NodeCacheFrame, SceneCacheFrame DEF Add, caches
<1> DEFINE n == made + 1
<1>3. n \in Nodes /\ where[n] = "none" /\ made \in Int /\ UNCHANGED node_cache_
  BY CacheAssumption DEF Add, Types, ClientTypeOK, Nodes, Ownership, caches
<1>4. /\ \A m \in Nodes : where'[m] = IF m = n THEN "child" ELSE where[m]
      /\ \A x \in Objects : node_root'[x] = IF x = u THEN n ELSE node_root[x]
      /\ \A x \in Objects : life'[x] = IF x = u THEN "alive" ELSE life[x]
      /\ registered' = registered \cup {u}
  BY DEF Add, Types, ClientTypeOK
<1>5. Ownership'
  <2>1. \A x \in Objects : node_root[x] # n
    BY <1>3, CacheAssumption DEF Ownership, Nodes
  <2>2. \A x \in Keys(node_cache_) : node_cache_.items[x] # n
    BY <1>3 DEF Ownership, NodesOwned
  <2>3. NodesOwned'
    BY <1>3, <1>4, <2>1, <2>2 DEF Ownership, NodesOwned, NodeCacheOK, WellFormed, Keys, Nodes
  <2>4. /\ \A m \in Nodes : m > made' => where'[m] = "none"
        /\ \A m \in Nodes : m <= made' => where'[m] # "none"
    BY <1>3, <1>4 DEF Add, Ownership, Nodes
  <2>5. \A x, y \in Objects :
            node_root'[x] = node_root'[y] /\ node_root'[x] # NoNode => x = y
    BY <1>4, <2>1 DEF Ownership
  <2>6. \A x \in Objects : node_root'[x] # NoNode =>
            x \in registered' /\ where'[node_root'[x]] \in {"child", "held", "freed"}
    <3> TAKE x \in Objects
    <3> HAVE node_root'[x] # NoNode
    <3>1. CASE x = u
      BY <1>3, <1>4, <3>1
    <3>2. CASE x # u
      BY <1>4, <2>1, <3>2 DEF Ownership, Types, ClientTypeOK
    <3> QED
      BY <3>1, <3>2
  <2>7. u \notin Keys(node_cache_) /\ \A x \in registered' : life'[x] = "alive"
    BY <1>4 DEF Add, Ownership, Types, ClientTypeOK
  <2>8. \A x \in Keys(node_cache_) : node_root'[x] = NoNode /\ life'[x] # "new"
    BY <1>4, <2>7 DEF Ownership, NodeCacheOK, WellFormed
  <2> QED
    BY <1>3, <2>3, <2>4, <2>5, <2>6, <2>7, <2>8 DEF Ownership, Nodes, Keys
<1>6. LoadingTracked'
  BY LoadingFrame DEF Add, loader, disk
<1>7. Recoverable'
  <2> SUFFICES ASSUME NEW x \in Objects, open', life'[x] = "alive", ~InTree(x)'
               PROVE  x \in unsaved' \/ Readable(x)' \/ \E s \in saves' : s.obj = x
    BY DEF Recoverable
  <2>1. UNCHANGED <<open, files, saves, unsaved>>
    BY DEF Add, disk, manager
  <2>2. x # u
    BY <1>3, <1>4, CacheAssumption DEF InTree, Nodes
  <2>3. ~InTree(x) /\ life[x] = "alive"
    BY <1>3, <1>4, <2>2 DEF InTree, Types, ClientTypeOK
  <2> QED
    BY <2>1, <2>3 DEF Recoverable, Readable
<1> QED
  BY <1>1, <1>2, <1>5, <1>6, <1>7

\* The operations that are counted stay within their bound.
LEMMA CountedType == ASSUME IndInv, NEW op, Counted(op) PROVE ops' \in 0..MaxOps
BY CacheAssumption DEF Counted, IndInv, Types, ClientTypeOK

LEMMA ModifyInv == ASSUME IndInv, NEW u \in Objects, Modify(u) PROVE IndInv'
<1> USE DEF IndInv, Modify, User
<1>1. Types'
  <2>1. ops' \in 0..MaxOps /\ latest[u] + 1 \in Versions /\ node_root[u] \in Nodes
    BY CountedType DEF Types, ClientTypeOK, Versions, InTree
  <2>2. ClientTypeOK'
    BY <2>1 DEF Types, ClientTypeOK
  <2> QED
    BY <2>2, ManagerTypeFrame, LoaderTypeFrame, DiskTypeFrame DEF Types, caches
<1>2. NodeCacheOK' /\ SceneCacheOK'
  BY NodeCacheFrame, SceneCacheFrame DEF caches
<1>3. Ownership' /\ LoadingTracked' /\ Recoverable'
  BY OwnershipFrame, LoadingFrame, RecoverableFrame DEF caches, loader, disk, manager, Ownership
<1> QED
  BY <1>1, <1>2, <1>3

LEMMA LookInv == ASSUME IndInv, NEW v \in Views, Look(v) PROVE IndInv'
<1> USE DEF IndInv, Look, User
<1>1. Types'
  <2>1. ClientTypeOK'
    BY CountedType, CacheAssumption DEF Types, ClientTypeOK
  <2> QED
    BY <2>1, ManagerTypeFrame, LoaderTypeFrame, DiskTypeFrame DEF Types, caches
<1>2. NodeCacheOK' /\ SceneCacheOK'
  BY NodeCacheFrame, SceneCacheFrame DEF caches
<1>3. Ownership' /\ LoadingTracked' /\ Recoverable'
  BY OwnershipFrame, LoadingFrame, RecoverableFrame DEF caches, loader, disk, manager, Ownership
<1> QED
  BY <1>1, <1>2, <1>3

\* A child of the manager that is freed or taken out.
LEMMA ChildLeaves ==
    ASSUME IndInv, NEW u \in Objects, InTree(u), NEW s \in {"held", "freed"},
           where' = [where EXCEPT ![node_root[u]] = s],
           UNCHANGED <<life, made, registered, node_root, node_cache_>>
    PROVE  /\ Ownership' /\ where' \in [Nodes -> NodeStates]
           /\ \A x \in Objects : InTree(x) /\ ~InTree(x)' => x = u
<1> USE DEF IndInv
<1> DEFINE n == node_root[u]
<1>1. n \in Nodes /\ where[n] = "child"
  BY DEF InTree, Types, ClientTypeOK
<1>2. /\ \A m \in Nodes : where'[m] = IF m = n THEN s ELSE where[m]
      /\ where' \in [Nodes -> NodeStates]
  BY DEF Types, ClientTypeOK, NodeStates
<1>3. NodesOwned'
  BY <1>1, <1>2 DEF Ownership, NodesOwned, NodeCacheOK, WellFormed, Keys, Nodes
<1>4. \A x \in Objects : node_root[x] # NoNode =>
         where'[node_root[x]] \in {"child", "held", "freed"}
  BY <1>1, <1>2 DEF Ownership, Types, ClientTypeOK
<1>5. /\ \A m \in Nodes : m > made => where'[m] = "none"
      /\ \A m \in Nodes : m <= made => where'[m] # "none"
  BY <1>1, <1>2 DEF Ownership
<1>6. Ownership'
  BY <1>3, <1>4, <1>5 DEF Ownership, Nodes, Keys
<1>7. \A x \in Objects : InTree(x) /\ ~InTree(x)' => x = u
  BY <1>1, <1>2 DEF InTree, Ownership, Types, ClientTypeOK
<1> QED
  BY <1>2, <1>6, <1>7

LEMMA QueueFreeInv == ASSUME IndInv, NEW u \in Objects, QueueFree(u) PROVE IndInv'
<1> USE DEF IndInv, QueueFree, User
<1> DEFINE n == node_root[u]
<1>0. n \in Nodes /\ Save(u, n) \in Saves /\ Save(u, n).obj = u
  BY DEF InTree, Types, ClientTypeOK, Save, Saves
<1>1. /\ Ownership' /\ where' \in [Nodes -> NodeStates]
      /\ \A x \in Objects : InTree(x) /\ ~InTree(x)' => x = u
  BY ChildLeaves DEF caches
<1>2. Types'
  <2>1. ClientTypeOK'
    BY <1>1, CountedType DEF Types, ClientTypeOK
  <2>2. DiskTypeOK'
    BY <1>0 DEF Types, DiskTypeOK, LeftUnsaved
  <2> QED
    BY <2>1, <2>2, ManagerTypeFrame, LoaderTypeFrame DEF Types, caches
<1>3. NodeCacheOK' /\ SceneCacheOK' /\ LoadingTracked'
  BY NodeCacheFrame, SceneCacheFrame, LoadingFrame DEF caches, loader
<1>4. Recoverable'
  <2>1. u \in unsaved' \/ Save(u, n) \in saves'
    BY DEF LeftUnsaved
  <2>2. saves \subseteq saves' /\ unsaved \subseteq unsaved'
    BY DEF LeftUnsaved
  <2> QED
    BY <1>0, <1>1, <2>1, <2>2, RecoverableGrows DEF manager
<1> QED
  BY <1>1, <1>2, <1>3, <1>4

LEMMA RemoveInv == ASSUME IndInv, NEW u \in Objects, Remove(u) PROVE IndInv'
<1> USE DEF IndInv, Remove, User
<1>1. /\ Ownership' /\ where' \in [Nodes -> NodeStates]
      /\ \A x \in Objects : InTree(x) /\ ~InTree(x)' => x = u
  BY ChildLeaves DEF caches
<1>2. Types'
  <2>1. ClientTypeOK'
    BY <1>1, CountedType DEF Types, ClientTypeOK
  <2>2. DiskTypeOK' /\ ManagerTypeOK'
    BY DEF Types, DiskTypeOK, ManagerTypeOK
  <2> QED
    BY <2>1, <2>2, LoaderTypeFrame DEF Types, caches
<1>3. NodeCacheOK' /\ SceneCacheOK' /\ LoadingTracked'
  BY NodeCacheFrame, SceneCacheFrame, LoadingFrame DEF caches, loader
<1>4. Recoverable'
  BY <1>1, RecoverableGrows
<1> QED
  BY <1>1, <1>2, <1>3, <1>4

LEMMA ExitTreeInv == ASSUME IndInv, ExitTree PROVE IndInv'
<1> USE DEF IndInv, ExitTree, User
<1>1. Types'
  <2>1. ClientTypeOK' /\ ManagerTypeOK'
    BY CountedType DEF Types, ClientTypeOK, ManagerTypeOK
  <2> QED
    BY <2>1, LoaderTypeFrame, DiskTypeFrame DEF Types, caches
<1>2. NodeCacheOK' /\ SceneCacheOK'
  BY NodeCacheFrame, SceneCacheFrame DEF caches
<1>3. Ownership' /\ LoadingTracked' /\ Recoverable'
  BY OwnershipFrame, LoadingFrame, RecoverableFrame DEF caches, loader, disk, Ownership
<1> QED
  BY <1>1, <1>2, <1>3

LEMMA EnterTreeInv == ASSUME IndInv, EnterTree PROVE IndInv'
<1> USE DEF IndInv, EnterTree
<1>1. Types'
  <2>1. ManagerTypeOK'
    BY DEF Types, ManagerTypeOK
  <2> QED
    BY <2>1, ClientTypeFrame, LoaderTypeFrame, DiskTypeFrame DEF Types, caches
<1>2. NodeCacheOK' /\ SceneCacheOK'
  BY NodeCacheFrame, SceneCacheFrame DEF caches
<1>3. Ownership' /\ LoadingTracked' /\ Recoverable'
  BY OwnershipFrame, LoadingFrame, RecoverableFrame
     DEF caches, client, loader, disk, Ownership
<1> QED
  BY <1>1, <1>2, <1>3

LEMMA PredeleteInv == ASSUME IndInv, Predelete PROVE IndInv'
<1> USE DEF IndInv, Predelete, User
<1>0. ASSUME NEW u \in Objects, InTree(u)
      PROVE  node_root[u] \in Nodes /\ Save(u, node_root[u]) \in Saves
  BY <1>0 DEF InTree, Types, ClientTypeOK, Save, Saves
<1> DEFINE gone(n) == where[n] = "child" \/ \E u \in Keys(node_cache_) : node_cache_.items[u] = n
<1>1. \A n \in Nodes : where'[n] = IF gone(n) THEN "freed" ELSE where[n]
  OBVIOUS
<1>2. Types'
  <2>1. where' \in [Nodes -> NodeStates]
    BY DEF Types, ClientTypeOK, NodeStates
  <2>2. ClientTypeOK' /\ ManagerTypeOK'
    BY <2>1, CountedType DEF Types, ClientTypeOK, ManagerTypeOK
  <2>3. {Save(u, node_root[u]) : u \in {x \in Objects : InTree(x)}} \subseteq Saves
    BY <1>0
  <2>4. DiskTypeOK'
    BY <2>3 DEF Types, DiskTypeOK
  <2> QED
    BY <2>2, <2>4, LoaderTypeFrame DEF Types
<1>3. NodeCacheOK' /\ SceneCacheOK'
  <2>1. Cardinality({}) = 0 /\ Capacity(NodeCap) >= 0 /\ Capacity(SceneCap) >= 0
    BY FS_EmptySet, CacheAssumption DEF Capacity
  <2>2. WellFormed(Empty, Objects, Nodes) /\ WellFormed(Empty, Objects, Versions)
        /\ Keys(Empty) = {} /\ Ordered(Empty.queue, newer)
    BY EmptyWellFormed
  <2> QED
    BY <2>1, <2>2 DEF NodeCacheOK, SceneCacheOK, WellFormed, Keys, Lists, Ordered
<1>4. Ownership'
  <2>1. Keys(node_cache_') = {}
    BY EmptyWellFormed
  <2>2. \A n \in Nodes : where'[n] # "cached"
    BY <1>1 DEF Ownership, NodesOwned
  <2>3. /\ \A n \in Nodes : n > made => where'[n] = "none"
        /\ \A n \in Nodes : n <= made => where'[n] # "none"
    BY <1>1 DEF Ownership, NodesOwned
  <2>4. \A x \in Objects : node_root[x] # NoNode =>
           where'[node_root[x]] \in {"child", "held", "freed"}
    BY <1>1 DEF Ownership, Types, ClientTypeOK
  <2> QED
    BY <2>1, <2>2, <2>3, <2>4 DEF Ownership, NodesOwned, Keys, Nodes
<1>5. LoadingTracked'
  BY LoadingFrame DEF loader
<1>6. Recoverable'
  BY DEF Recoverable
<1> QED
  BY <1>2, <1>3, <1>4, <1>5, <1>6

LEMMA ProcessRemoveInv == ASSUME IndInv, NEW u \in Objects, ProcessRemove(u) PROVE IndInv'
<1> USE DEF IndInv, ProcessRemove
<1>1. ManagerTypeOK' /\ LoaderTypeOK'
  BY LoaderTypeFrame DEF Types, ManagerTypeOK
<1>2. NodeCacheOK' /\ LoadingTracked'
  BY NodeCacheFrame, LoadingFrame DEF loader
<1>3. CASE u \in registered
  <2>1. ClientTypeOK' /\ DiskTypeOK'
    BY <1>3 DEF Types, ClientTypeOK, DiskTypeOK
  <2>2. SceneCacheOK'
    <3> DEFINE d == Removed(scene_cache_, u)
    <3>1. /\ WellFormed(scene_cache_, Objects, Versions) /\ SceneCap \in Nat
          /\ Cardinality(Keys(scene_cache_)) <= Capacity(SceneCap)
          /\ Ordered(scene_cache_.queue, newer)
      BY CacheAssumption DEF SceneCacheOK
    <3>2. /\ WellFormed(d, Objects, Versions)
          /\ Cardinality(Keys(d)) <= Capacity(SceneCap)
          /\ Ordered(d.queue, newer)
      BY <3>1, RemovedWithin
    <3>3. scene_cache_' = d /\ newer' = newer
      BY <1>3
    <3> QED
      BY <3>2, <3>3 DEF SceneCacheOK, WellFormed, Keys, Lists, Ordered
  <2>3. /\ \A x \in Objects : node_root'[x] = IF x = u THEN NoNode ELSE node_root[x]
        /\ \A x \in Objects : life'[x] = IF x = u THEN "deleted" ELSE life[x]
        /\ registered' = registered \ {u} /\ UNCHANGED <<where, made, node_cache_>>
    BY <1>3 DEF Types, ClientTypeOK
  <2>4. NodesOwned'
    BY <2>3, CacheAssumption DEF Ownership, NodesOwned, NodeCacheOK, WellFormed, Keys, Nodes
  <2>5. Ownership'
    BY <2>3, <2>4 DEF Ownership, NodeCacheOK, WellFormed, Types, ClientTypeOK, Keys, Nodes
  <2>6. Recoverable'
    <3> SUFFICES ASSUME NEW x \in Objects, open', life'[x] = "alive", ~InTree(x)'
                 PROVE  x \in unsaved' \/ Readable(x)' \/ \E s \in saves' : s.obj = x
      BY DEF Recoverable
    <3>1. x # u /\ ~InTree(x) /\ life[x] = "alive"
      BY <2>3 DEF InTree
    <3>2. Readable(x) => Readable(x)'
      BY <1>3, <3>1 DEF Readable
    <3> QED
      BY <3>1, <3>2 DEF Recoverable
  <2> QED
    BY <1>1, <1>2, <2>1, <2>2, <2>5, <2>6 DEF Types
<1>4. CASE u \notin registered
  <2>1. ClientTypeOK' /\ DiskTypeOK' /\ SceneCacheOK'
    BY <1>4, ClientTypeFrame, DiskTypeFrame, SceneCacheFrame DEF Types, client, disk
  <2>2. Ownership' /\ Recoverable'
    BY <1>4, OwnershipFrame, RecoverableFrame DEF Ownership
  <2> QED
    BY <1>1, <1>2, <2>1, <2>2 DEF Types
<1> QED
  BY <1>3, <1>4

LEMMA UnloadInv == ASSUME IndInv, NEW u \in Objects, Unload(u) PROVE IndInv'
<1> USE DEF IndInv, Unload
<1> DEFINE n == node_root[u]
           d == Put(node_cache_, u, n, NodeCap)
<1>0. /\ n \in Nodes /\ Save(u, n) \in Saves /\ Save(u, n).obj = u
      /\ where[n] \in {"child", "held", "freed"} /\ u \notin Keys(node_cache_)
  BY DEF Types, ClientTypeOK, Save, Saves, Ownership
<1>1. /\ WellFormed(d, Objects, Nodes)
      /\ Cardinality(Keys(d)) <= Capacity(NodeCap)
      /\ u \in Keys(d) /\ d.items[u] = n
      /\ Keys(d) \subseteq Keys(node_cache_) \cup {u}
      /\ \A x \in Keys(d) \ {u} : d.items[x] = node_cache_.items[x]
      /\ Freed(u, n) = {node_cache_.items[x] : x \in Keys(node_cache_) \ Keys(d)}
  BY <1>0, PutCorrect, CacheAssumption DEF NodeCacheOK, Freed
<1>2. /\ \A x \in Objects : node_root'[x] = IF x = u THEN NoNode ELSE node_root[x]
      /\ registered' = registered \ {u} /\ UNCHANGED <<life, made>>
  BY DEF Types, ClientTypeOK
<1>3. Types'
  <2>1. where' \in [Nodes -> NodeStates]
    BY DEF Types, ClientTypeOK, NodeStates
  <2>2. ClientTypeOK'
    BY <1>0, <2>1 DEF Types, ClientTypeOK
  <2>3. DiskTypeOK'
    BY <1>0 DEF Types, DiskTypeOK, Saved, LeftUnsaved
  <2> QED
    BY <2>2, <2>3, LoaderTypeFrame, ManagerTypeFrame DEF Types
<1>4. SceneCacheOK' /\ LoadingTracked'
  BY SceneCacheFrame, LoadingFrame DEF loader
<1>5. \A x \in Objects \ {u} : node_root[x] # n
  BY <1>0, CacheAssumption DEF Ownership, Nodes
<1>6. NodeCacheOK' /\ Ownership' /\ \A x \in Objects \ {u} : InTree(x) => InTree(x)'
  <2>1. CASE where[n] = "freed"
    <3>1. UNCHANGED <<where, node_cache_>>
      BY <2>1
    <3>2. NodeCacheOK'
      BY <3>1, NodeCacheFrame
    <3>3. NodesOwned'
      BY <1>2, <3>1, CacheAssumption
         DEF Ownership, NodesOwned, NodeCacheOK, WellFormed, Keys, Nodes
    <3>4. Ownership'
      BY <1>0, <1>2, <3>1, <3>3 DEF Ownership, NodeCacheOK, WellFormed, Keys, Nodes
    <3> QED
      BY <1>2, <3>1, <3>2, <3>4 DEF InTree
  <2>2. CASE where[n] # "freed"
    <3>1. /\ node_cache_' = d
          /\ \A m \in Nodes :
               where'[m] = IF m \in Freed(u, n) THEN "freed"
                           ELSE IF m = n /\ where[n] = "child" THEN "cached" ELSE where[m]
      BY <2>2
    <3>2. NodeCacheOK'
      BY <1>1, <3>1 DEF NodeCacheOK, WellFormed, Keys, Lists
    <3>3. \A x \in Keys(node_cache_) :
             x # u /\ x \in Objects /\ node_cache_.items[x] \in Nodes /\ node_cache_.items[x] # n
      BY <1>0 DEF NodeCacheOK, WellFormed, Ownership, NodesOwned
    <3>4. \A m \in Freed(u, n) :
             m \in Nodes /\ m # n /\ where[m] \in {"cached", "held"}
               /\ \A x \in Objects : node_root[x] # m
      BY <1>1, <3>3 DEF Ownership, NodesOwned
    <3>5. \A x \in Keys(d) : x # u =>
             x \in Keys(node_cache_) /\ d.items[x] = node_cache_.items[x]
               /\ d.items[x] \notin Freed(u, n)
      BY <1>1, <3>3 DEF Ownership, NodesOwned
    <3>6. NodesOwned'
      <4>1. ASSUME NEW m \in Nodes, where'[m] = "cached"
            PROVE  \E x \in Keys(d) : d.items[x] = m
        <5>1. CASE m = n
          BY <1>1, <5>1
        <5>2. CASE m # n
          <6>1. where[m] = "cached" /\ m \notin Freed(u, n)
            BY <3>1, <4>1, <5>2
          <6>2. PICK x \in Keys(node_cache_) : node_cache_.items[x] = m
            BY <6>1 DEF Ownership, NodesOwned
          <6>3. x \in Keys(d) /\ d.items[x] = m
            BY <1>1, <3>3, <6>1, <6>2
          <6> QED
            BY <6>3
        <5> QED
          BY <5>1, <5>2
      <4>2. ASSUME NEW x \in Keys(d) PROVE where'[d.items[x]] \in {"cached", "held"}
        <5>1. CASE x = u
          BY <1>0, <1>1, <2>2, <3>1, <3>4, <5>1
        <5>2. CASE x # u
          BY <3>1, <3>3, <3>5, <5>2 DEF Ownership, NodesOwned
        <5> QED
          BY <5>1, <5>2
      <4>3. \A x, y \in Keys(d) : d.items[x] = d.items[y] => x = y
        BY <1>1, <3>3, <3>5 DEF Ownership, NodesOwned
      <4>4. \A x \in Keys(d), y \in Objects : d.items[x] # node_root'[y]
        <5> TAKE x \in Keys(d), y \in Objects
        <5>1. CASE x = u
          BY <1>0, <1>1, <1>2, <1>5, <5>1, CacheAssumption DEF Nodes
        <5>2. CASE x # u
          BY <1>2, <3>3, <3>5, <5>2, CacheAssumption DEF Ownership, NodesOwned, Nodes
        <5> QED
          BY <5>1, <5>2
      <4> HIDE DEF d, Unload, IndInv
      <4> QED
        BY <3>1, <4>1, <4>2, <4>3, <4>4 DEF NodesOwned, Keys, Nodes
    <3>7. /\ \A m \in Nodes : m > made => where'[m] = "none"
          /\ \A m \in Nodes : m <= made => where'[m] # "none"
      BY <1>0, <3>1, <3>4 DEF Ownership
    <3>8. ASSUME NEW x \in Objects, node_root'[x] # NoNode
          PROVE  /\ x # u /\ node_root'[x] = node_root[x] /\ node_root[x] \in Nodes
                 /\ x \in registered' /\ where'[node_root[x]] = where[node_root[x]]
                 /\ where[node_root[x]] \in {"child", "held", "freed"}
      <4>1. x # u /\ node_root'[x] = node_root[x] /\ node_root[x] \in Nodes
        BY <1>2, <3>8 DEF Types, ClientTypeOK
      <4>2. node_root[x] # n /\ node_root[x] \notin Freed(u, n)
        BY <1>5, <3>4, <4>1
      <4> QED
        BY <1>2, <3>1, <3>8, <4>1, <4>2 DEF Ownership
    <3>9. \A x, y \in Objects :
             node_root'[x] = node_root'[y] /\ node_root'[x] # NoNode => x = y
      BY <1>2 DEF Ownership
    <3>10. \A x \in Keys(d) : node_root'[x] = NoNode /\ life'[x] # "new"
      BY <1>1, <1>2, <3>3, <3>5 DEF Ownership
    <3>11. \A x \in registered' : life'[x] = "alive"
      BY <1>2 DEF Ownership
    <3>12. Ownership'
      <4> HIDE DEF d, Unload, IndInv
      <4>1. \A x \in Objects : node_root'[x] # NoNode =>
              x \in registered' /\ where'[node_root'[x]] \in {"child", "held", "freed"}
        BY <3>8
      <4> QED
        BY <1>2, <3>1, <3>6, <3>7, <3>9, <3>10, <3>11, <4>1 DEF Ownership, Nodes, Keys
    <3>13. \A x \in Objects \ {u} : InTree(x) => InTree(x)'
      BY <1>2, <3>8 DEF InTree
    <3> QED
      BY <3>2, <3>12, <3>13
  <2> QED
    BY <2>1, <2>2
<1>7. Recoverable'
  <2>1. saves \subseteq saves' /\ unsaved \subseteq unsaved' /\ UNCHANGED <<open, life, files>>
    BY DEF LeftUnsaved, Saved, manager
  <2>2. InTree(u) => u \in unsaved' \/ Save(u, n) \in saves'
    BY DEF InTree, LeftUnsaved, Saved
  <2> QED
    BY <1>0, <1>6, <2>1, <2>2, RecoverableGrows
<1> QED
  BY <1>3, <1>4, <1>6, <1>7

LEMMA WantInv == ASSUME IndInv, NEW u \in Objects, Want(u) PROVE IndInv'
<1> USE DEF IndInv, Want
<1>1. Types'
  <2>1. ClientTypeOK'
    BY DEF Types, ClientTypeOK
  <2> QED
    BY <2>1, ManagerTypeFrame, LoaderTypeFrame, DiskTypeFrame DEF Types, caches
<1>2. NodeCacheOK' /\ SceneCacheOK'
  BY NodeCacheFrame, SceneCacheFrame DEF caches
<1>3. Ownership' /\ LoadingTracked' /\ Recoverable'
  BY OwnershipFrame, LoadingFrame, RecoverableFrame DEF caches, loader, disk, manager, Ownership
<1> QED
  BY <1>1, <1>2, <1>3

LEMMA LoadNothingInv == ASSUME IndInv, NEW u \in Objects, LoadNothing(u) PROVE IndInv'
<1> USE DEF IndInv, LoadNothing
<1>1. Types'
  <2>1. ClientTypeOK'
    BY DEF Types, ClientTypeOK
  <2> QED
    BY <2>1, ManagerTypeFrame, LoaderTypeFrame, DiskTypeFrame DEF Types, caches
<1>2. NodeCacheOK' /\ SceneCacheOK'
  BY NodeCacheFrame, SceneCacheFrame DEF caches
<1>3. Ownership' /\ LoadingTracked' /\ Recoverable'
  BY OwnershipFrame, LoadingFrame, RecoverableFrame DEF caches, loader, disk, manager, Ownership
<1> QED
  BY <1>1, <1>2, <1>3

\* Mounting a node, recorded or not, takes no object out of the tree.
LEMMA MountRecoverable ==
    ASSUME IndInv, NEW u \in Objects, NEW n \in Nodes, Mount(u, n), node_root[u] = NoNode
    PROVE  Recoverable'
<1>1. UNCHANGED <<open, life, files, saves, unsaved>>
  BY DEF Mount, disk, manager
<1>2. \A x \in Objects : InTree(x) => InTree(x)'
  BY DEF Mount, InTree, IndInv, Types, ClientTypeOK
<1> QED
  BY <1>1, <1>2, RecoverableGrows DEF IndInv

\* Mounting a node that is nobody's, be it new or just taken out of node_cache_.
LEMMA MountOwnership ==
    ASSUME IndInv, NEW u \in registered, NEW n \in Nodes, Mount(u, n),
           node_root[u] = NoNode, u \notin Keys(node_cache_'),
           Keys(node_cache_') \subseteq Keys(node_cache_),
           \A x \in Keys(node_cache_') : node_cache_'.items[x] = node_cache_.items[x],
           \A x \in Keys(node_cache_') : node_cache_.items[x] # n,
           \A x \in Objects : node_root[x] # n,
           \A x \in Keys(node_cache_) \ Keys(node_cache_') : node_cache_.items[x] = n,
           made' \in Nat,
           \A m \in Nodes : m <= made' <=> (m <= made \/ m = n)
    PROVE  Ownership'
<1> USE DEF IndInv
<1>1. u \in Objects /\ \A x \in Keys(node_cache_) : x \in Objects
  BY DEF Types, ClientTypeOK, NodeCacheOK, WellFormed
<1>2. /\ \A m \in Nodes : where'[m] = IF m = n THEN "child" ELSE where[m]
      /\ \A x \in Objects : node_root'[x] = IF x = u /\ hooked THEN n ELSE node_root[x]
      /\ UNCHANGED <<life, registered>>
  BY <1>1 DEF Mount, Types, ClientTypeOK
<1>3. NodesOwned'
  <2>1. ASSUME NEW m \in Nodes, where'[m] = "cached"
        PROVE  \E x \in Keys(node_cache_') : node_cache_'.items[x] = m
    <3>1. m # n /\ where[m] = "cached"
      BY <1>2, <2>1
    <3>2. PICK x \in Keys(node_cache_) : node_cache_.items[x] = m
      BY <3>1 DEF Ownership, NodesOwned
    <3>3. x \in Keys(node_cache_')
      BY <3>1, <3>2
    <3> QED
      BY <3>2, <3>3
  <2>2. \A x \in Keys(node_cache_') : where'[node_cache_'.items[x]] \in {"cached", "held"}
    BY <1>2 DEF Ownership, NodesOwned, NodeCacheOK, WellFormed
  <2>3. \A x, y \in Keys(node_cache_') :
           node_cache_'.items[x] = node_cache_'.items[y] => x = y
    BY DEF Ownership, NodesOwned
  <2>4. \A x \in Keys(node_cache_'), y \in Objects : node_cache_'.items[x] # node_root'[y]
    BY <1>2 DEF Ownership, NodesOwned
  <2> QED
    BY <2>1, <2>2, <2>3, <2>4 DEF NodesOwned, Keys, Nodes
<1>4. /\ \A m \in Nodes : m > made' => where'[m] = "none"
      /\ \A m \in Nodes : m <= made' => where'[m] # "none"
  <2> SUFFICES ASSUME NEW m \in Nodes
               PROVE  /\ m > made' => where'[m] = "none"
                      /\ m <= made' => where'[m] # "none"
    OBVIOUS
  <2>1. made \in Int /\ made' \in Int /\ m \in Int
    BY DEF Types, ClientTypeOK, Nodes
  <2>2. (m > made' <=> ~(m <= made')) /\ (m > made <=> ~(m <= made))
    BY <2>1
  <2> QED
    BY <1>2, <2>2 DEF Ownership
<1>5. \A x, y \in Objects :
         node_root'[x] = node_root'[y] /\ node_root'[x] # NoNode => x = y
  BY <1>2 DEF Ownership
<1>6. \A x \in Objects : node_root'[x] # NoNode =>
         x \in registered' /\ where'[node_root'[x]] \in {"child", "held", "freed"}
  BY <1>2 DEF Ownership, Types, ClientTypeOK
<1>7. \A x \in Keys(node_cache_') : node_root'[x] = NoNode /\ life'[x] # "new"
  BY <1>1, <1>2 DEF Ownership
<1>8. \A x \in registered' : life'[x] = "alive"
  BY <1>2 DEF Ownership
<1> QED
  BY <1>3, <1>4, <1>5, <1>6, <1>7, <1>8 DEF Ownership, Nodes, Keys

LEMMA LoadNodeInv == ASSUME IndInv, NEW u \in Objects, LoadNode(u) PROVE IndInv'
<1> USE DEF IndInv, LoadNode, ToLoad
<1> DEFINE n == node_cache_.items[u]
           d == Removed(node_cache_, u)
<1>0. n \in Nodes /\ where[n] \in {"cached", "held"}
  BY DEF NodeCacheOK, WellFormed, Ownership, NodesOwned
<1>1. /\ WellFormed(d, Objects, Nodes) /\ Keys(d) = Keys(node_cache_) \ {u}
      /\ Cardinality(Keys(d)) <= Capacity(NodeCap)
      /\ \A x \in Keys(d) : d.items[x] = node_cache_.items[x]
  <2>1. /\ WellFormed(node_cache_, Objects, Nodes) /\ NodeCap \in Nat
        /\ Cardinality(Keys(node_cache_)) <= Capacity(NodeCap)
    BY CacheAssumption DEF NodeCacheOK
  <2>2. /\ WellFormed(d, Objects, Nodes) /\ Keys(d) = Keys(node_cache_) \ {u}
        /\ Cardinality(Keys(d)) <= Capacity(NodeCap)
    BY <2>1, RemovedWithin
  <2>3. \A x \in Keys(node_cache_) \ {u} : d.items[x] = node_cache_.items[x]
    BY DEF Removed, Erase, Keys
  <2> HIDE DEF d
  <2> QED
    BY <2>2, <2>3
<1>2. Types'
  <2>1. ClientTypeOK'
    BY <1>0 DEF Types, ClientTypeOK, Mount, NodeStates
  <2> QED
    BY <2>1, ManagerTypeFrame, LoaderTypeFrame, DiskTypeFrame DEF Types, Mount
<1>3. NodeCacheOK'
  BY <1>1 DEF NodeCacheOK, WellFormed, Keys, Lists
<1>4. SceneCacheOK' /\ LoadingTracked'
  BY SceneCacheFrame, LoadingFrame DEF Mount, loader, disk
<1>5. Ownership'
  <2>1. node_cache_' = d /\ made' = made /\ made \in Nat
    BY CacheAssumption DEF Types, ClientTypeOK
  <2>2. \A x \in Keys(d) : node_cache_.items[x] # n
    BY <1>1 DEF Ownership, NodesOwned
  <2>3. \A x \in Objects : node_root[x] # n
    BY DEF Ownership, NodesOwned
  <2>4. \A m \in Nodes : m <= made' <=> (m <= made \/ m = n)
    <3>1. ~(n > made)
      BY <1>0 DEF Ownership
    <3>2. n <= made
      BY <1>0, <2>1, <3>1 DEF Nodes
    <3> QED
      BY <2>1, <3>2
  <2>5. \A x \in Keys(node_cache_) \ Keys(d) : node_cache_.items[x] = n
    BY <1>1
  <2>6. u \notin Keys(d) /\ Keys(d) \subseteq Keys(node_cache_) /\ u \in registered
    BY <1>1
  <2> HIDE DEF d
  <2> QED
    BY <1>0, <1>1, <2>1, <2>2, <2>3, <2>4, <2>5, <2>6, MountOwnership
<1>6. Recoverable'
  BY <1>0, MountRecoverable
<1> QED
  BY <1>2, <1>3, <1>4, <1>5, <1>6

LEMMA LoadSceneInv == ASSUME IndInv, NEW u \in Objects, LoadScene(u) PROVE IndInv'
<1> USE DEF IndInv, LoadScene, ToLoad
<1> DEFINE n == made + 1
           d == Got(scene_cache_, u)
<1>0. n \in Nodes /\ n \in 0..MaxInst /\ n > made /\ where[n] = "none" /\ made \in Nat
      /\ scene_cache_.items[u] \in Versions
  BY CacheAssumption DEF Types, ClientTypeOK, Nodes, Ownership, SceneCacheOK, WellFormed
<1>1. Types'
  <2>1. ClientTypeOK'
    BY <1>0 DEF Types, ClientTypeOK, Mount, NodeStates
  <2>2. LoaderTypeOK'
    BY UsedType DEF Types, LoaderTypeOK, Mount, loader
  <2> QED
    BY <2>1, <2>2, ManagerTypeFrame, DiskTypeFrame DEF Types, Mount
<1>2. NodeCacheOK' /\ LoadingTracked'
  BY NodeCacheFrame, LoadingFrame DEF Mount, loader, disk
<1>3. SceneCacheOK'
  <2>1. WellFormed(d, Objects, Versions) /\ Keys(d) = Keys(scene_cache_)
    BY GotWellFormed DEF SceneCacheOK
  <2>2. d.queue = Touch(scene_cache_.queue, u)
    BY DEF Got, SceneCacheOK, WellFormed
  <2>3. Ordered(d.queue, Used(u))
    BY <2>2, UsedIsUse, TouchOrdered DEF SceneCacheOK, WellFormed
  <2> QED
    BY <2>1, <2>3 DEF SceneCacheOK, WellFormed, Keys, Lists, Ordered
<1>4. Ownership'
  <2>1. node_cache_' = node_cache_ /\ made' = n /\ n \in Nat
    BY <1>0 DEF Nodes
  <2>2. \A x \in Keys(node_cache_) : node_cache_.items[x] # n
    BY <1>0 DEF Ownership, NodesOwned
  <2>3. \A x \in Objects : node_root[x] # n
    BY <1>0, CacheAssumption DEF Ownership, Nodes
  <2>4. \A m \in Nodes : m <= made' <=> (m <= made \/ m = n)
    BY <1>0, <2>1 DEF Nodes
  <2>5. u \in registered
    OBVIOUS
  <2> QED
    BY <1>0, <2>1, <2>2, <2>3, <2>4, <2>5, MountOwnership
<1>5. Recoverable'
  BY <1>0, MountRecoverable
<1> QED
  BY <1>1, <1>2, <1>3, <1>4, <1>5

LEMMA LoadRequestInv == ASSUME IndInv, NEW u \in Objects, LoadRequest(u) PROVE IndInv'
<1> USE DEF IndInv, LoadRequest, ToLoad
<1>1. NodeCacheOK' /\ SceneCacheOK'
  BY NodeCacheFrame, SceneCacheFrame DEF caches
<1>2. Ownership' /\ Recoverable'
  BY OwnershipFrame, RecoverableFrame DEF caches, manager, Ownership
<1>3. ClientTypeOK' /\ ManagerTypeOK'
  BY ManagerTypeFrame DEF Types, ClientTypeOK
<1>4. CASE UNCHANGED <<loading_requests_, loading_set_, status>>
  <2>1. LoadingTracked'
    BY <1>4, LoadingFrame
  <2>2. LoaderTypeOK' /\ DiskTypeOK'
    BY <1>4 DEF Types, LoaderTypeOK, DiskTypeOK, caches
  <2> QED
    BY <1>1, <1>2, <1>3, <2>1, <2>2 DEF Types
<1>5. CASE /\ u \notin loading_set_ \cup remove_loading_set_
           /\ loading_requests_' = Requested(u)
           /\ loading_set_' = loading_set_ \cup {u}
           /\ status' = [status EXCEPT ![u] = IF @ = "failed" THEN "failed" ELSE "progress"]
           /\ UNCHANGED <<remove_loading_set_, wanted>>
  <2> DEFINE r == Append(loading_requests_, u)
  <2>0. loading_requests_' = r
    BY <1>5 DEF Requested
  <2>1. /\ loading_requests_ \in Seq(Objects) /\ Len(loading_requests_) \in Nat
        /\ r \in Seq(Objects) /\ Len(r) = Len(loading_requests_) + 1
        /\ \A i \in 1..Len(r) :
             r[i] = IF i = Len(loading_requests_) + 1 THEN u ELSE loading_requests_[i]
    BY DEF Types, LoaderTypeOK
  <2>2. LoaderTypeOK' /\ DiskTypeOK'
    BY <1>5, <2>0, <2>1 DEF Types, LoaderTypeOK, DiskTypeOK, caches
  <2>3. \A i \in 1..Len(loading_requests_) : loading_requests_[i] # u
    BY <1>5 DEF LoadingTracked
  <2>4. \A i, j \in 1..Len(r) : r[i] = r[j] => i = j
    BY <2>1, <2>3 DEF LoadingTracked
  <2>5. {r[i] : i \in 1..Len(r)} = loading_set_ \cup {u}
    <3>1. loading_set_ = {loading_requests_[i] : i \in 1..Len(loading_requests_)}
      BY DEF LoadingTracked
    <3>2. \A i \in 1..Len(r) : r[i] \in loading_set_ \cup {u}
      BY <2>1, <3>1
    <3>3. ASSUME NEW x \in loading_set_ \cup {u} PROVE \E i \in 1..Len(r) : r[i] = x
      <4>1. CASE x = u
        BY <2>1, <4>1
      <4>2. CASE x # u
        <5>1. PICK i \in 1..Len(loading_requests_) : loading_requests_[i] = x
          BY <3>1, <4>2
        <5>2. i \in 1..Len(r) /\ r[i] = x
          BY <2>1, <5>1
        <5> QED
          BY <5>2
      <4> QED
        BY <4>1, <4>2
    <3> QED
      BY <3>2, <3>3
  <2>6. /\ \A x \in Objects : x \in loading_set_' => status'[x] # "none"
        /\ \A x \in Objects : status'[x] \in {"progress", "loaded"} => x \in loading_set_'
    BY <1>5 DEF LoadingTracked, Types, DiskTypeOK
  <2>7. LoadingTracked'
    BY <1>5, <2>0, <2>4, <2>5, <2>6 DEF LoadingTracked
  <2> QED
    BY <1>1, <1>2, <1>3, <2>2, <2>7 DEF Types
<1> QED
  BY <1>4, <1>5

LEMMA UpdateBeginInv == ASSUME IndInv, UpdateBegin PROVE IndInv'
<1> USE DEF IndInv, UpdateBegin
<1>1. LoaderTypeOK'
  BY DEF Types, LoaderTypeOK, Main, caches
<1>2. NodeCacheOK' /\ SceneCacheOK'
  BY NodeCacheFrame, SceneCacheFrame DEF caches
<1>3. Ownership' /\ LoadingTracked' /\ Recoverable'
  BY OwnershipFrame, LoadingFrame, RecoverableFrame
     DEF caches, client, disk, manager, Ownership
<1> QED
  BY <1>1, <1>2, <1>3, ClientTypeFrame, ManagerTypeFrame, DiskTypeFrame DEF Types

LEMMA UpdateEndInv == ASSUME IndInv, UpdateEnd PROVE IndInv'
<1> USE DEF IndInv, UpdateEnd
<1>1. LoaderTypeOK'
  BY DEF Types, LoaderTypeOK, caches
<1>2. NodeCacheOK' /\ SceneCacheOK'
  BY NodeCacheFrame, SceneCacheFrame DEF caches
<1>3. Ownership' /\ LoadingTracked' /\ Recoverable'
  BY OwnershipFrame, LoadingFrame, RecoverableFrame
     DEF caches, client, disk, manager, Ownership
<1> QED
  BY <1>1, <1>2, <1>3, ClientTypeFrame, ManagerTypeFrame, DiskTypeFrame DEF Types

LEMMA UpdateEntryInv == ASSUME IndInv, UpdateEntry PROVE IndInv'
<1> USE DEF IndInv, UpdateEntry
<1> DEFINE q == loading_requests_
           u == loading_requests_[it]
           r == [i \in 1..(Len(q) - 1) |-> q[IF i < it THEN i ELSE i + 1]]
<1>0. /\ q \in Seq(Objects) /\ Len(q) \in Nat /\ Len(q) - 1 \in Nat
      /\ it \in 1..Len(q) /\ u \in Objects
  BY DEF Types, LoaderTypeOK
<1>1. /\ NodeCacheOK' /\ Ownership' /\ Recoverable'
      /\ ClientTypeOK' /\ ManagerTypeOK'
  BY NodeCacheFrame, OwnershipFrame, RecoverableFrame, ClientTypeFrame, ManagerTypeFrame
     DEF client, manager, Types, Ownership
<1>2. CASE status[u] \notin {"loaded", "failed"}
  <2>1. LoaderTypeOK' /\ DiskTypeOK'
    BY <1>0, <1>2 DEF Types, LoaderTypeOK, DiskTypeOK
  <2>2. SceneCacheOK' /\ LoadingTracked'
    BY <1>2, SceneCacheFrame, LoadingFrame
  <2> QED
    BY <1>1, <2>1, <2>2 DEF Types
<1>3. CASE status[u] \in {"loaded", "failed"}
  <2>1. /\ loading_requests_' = r /\ loading_set_' = loading_set_ \ {u} /\ it' = it
        /\ \/ status[u] = "loaded" /\ status' = [status EXCEPT ![u] = "none"]
           \/ status[u] = "failed" /\ status' = status
    BY <1>3 DEF LoadingAfter, Drop
  <2>2. r \in Seq(Objects) /\ Len(r) = Len(q) - 1
    <3>1. \A i \in 1..(Len(q) - 1) : r[i] \in Objects
      BY <1>0
    <3> QED
      BY <1>0, <3>1
  <2>3. newer' \subseteq Objects \X Objects /\ remove_loading_set_' \subseteq Objects
    BY <1>0, <1>3, UsedType DEF Types, LoaderTypeOK
  <2>4. LoaderTypeOK' /\ DiskTypeOK'
    <3> HIDE DEF r
    <3>1. it' \in 0..(Len(r) + 1)
      BY <1>0, <2>1, <2>2
    <3>2. LoaderTypeOK'
      BY <2>1, <2>2, <2>3, <3>1 DEF Types, LoaderTypeOK
    <3>3. DiskTypeOK'
      BY <2>1 DEF Types, DiskTypeOK
    <3> QED
      BY <3>2, <3>3
  <2>5. \A i, j \in 1..Len(q) : q[i] = q[j] => i = j
    BY DEF LoadingTracked
  <2>6. \A i, j \in 1..Len(r) : r[i] = r[j] => i = j
    BY <1>0, <2>2, <2>5
  <2>7. {r[i] : i \in 1..Len(r)} = loading_set_ \ {u}
    <3>1. loading_set_ = {q[i] : i \in 1..Len(q)}
      BY DEF LoadingTracked
    <3>2. ASSUME NEW i \in 1..Len(r) PROVE r[i] \in loading_set_ \ {u}
      <4>1. PICK j \in 1..Len(q) : r[i] = q[j] /\ j # it
        <5>1. CASE i < it
          BY <1>0, <2>2, <5>1
        <5>2. CASE ~(i < it)
          <6>1. i + 1 \in 1..Len(q) /\ r[i] = q[i + 1] /\ i + 1 # it
            BY <1>0, <2>2, <5>2
          <6> QED
            BY <6>1
        <5> QED
          BY <5>1, <5>2
      <4> QED
        BY <1>0, <2>5, <3>1, <4>1
    <3>3. ASSUME NEW x \in loading_set_ \ {u} PROVE \E i \in 1..Len(r) : r[i] = x
      <4>1. PICK j \in 1..Len(q) : q[j] = x
        BY <3>1
      <4>2. CASE j < it
        BY <1>0, <2>2, <4>1, <4>2
      <4>3. CASE j > it
        <5>1. j - 1 \in 1..Len(r) /\ r[j - 1] = q[j]
          BY <1>0, <2>2, <4>3
        <5> QED
          BY <4>1, <5>1
      <4> QED
        BY <1>0, <4>1, <4>2, <4>3
    <3> HIDE DEF r
    <3> QED
      BY <3>2, <3>3
  <2>8. /\ \A x \in Objects : x \in loading_set_' => status'[x] # "none"
        /\ \A x \in Objects : status'[x] \in {"progress", "loaded"} => x \in loading_set_'
    BY <1>0, <2>1 DEF LoadingTracked, Types, DiskTypeOK
  <2>9. LoadingTracked'
    <3> HIDE DEF r, UpdateEntry, IndInv
    <3>1. loading_set_' = {loading_requests_'[i] : i \in 1..Len(loading_requests_')}
      BY <2>1, <2>7
    <3>2. \A i, j \in 1..Len(loading_requests_') :
            loading_requests_'[i] = loading_requests_'[j] => i = j
      BY <2>1, <2>6
    <3> QED
      BY <2>8, <3>1, <3>2 DEF LoadingTracked
  <2>10. SceneCacheOK'
    <3>1. CASE status[u] = "loaded" /\ result[u] # Damaged
      <4> DEFINE d == Put(scene_cache_, u, result[u], SceneCap)
      <4>1. scene_cache_' = d /\ newer' = Used(u) /\ result[u] \in Versions
        BY <1>0, <1>3, <3>1 DEF Types, DiskTypeOK
      <4>2. UseOf(u, Objects, newer, Used(u))
        BY <1>0, UsedIsUse
      <4>3. /\ WellFormed(d, Objects, Versions)
            /\ Cardinality(Keys(d)) <= Capacity(SceneCap)
            /\ Ordered(d.queue, Used(u))
        BY <1>0, <4>1, <4>2, PutCorrect, CacheAssumption DEF SceneCacheOK
      <4> QED
        BY <4>1, <4>3 DEF SceneCacheOK, WellFormed, Keys, Lists, Ordered
    <3>2. CASE ~(status[u] = "loaded" /\ result[u] # Damaged)
      BY <1>3, <3>2, SceneCacheFrame
    <3> QED
      BY <3>1, <3>2
  <2> QED
    BY <1>1, <2>4, <2>9, <2>10 DEF Types
<1> QED
  BY <1>2, <1>3

LEMMA SaveDoneInv == ASSUME IndInv, NEW s \in saves, SaveDone(s) PROVE IndInv'
<1> USE DEF IndInv, SaveDone
<1>0. s.obj \in Objects /\ s.version \in Versions /\ s.version # Damaged
  BY CacheAssumption DEF Types, DiskTypeOK, Saves, Versions
<1>1. DiskTypeOK'
  BY <1>0 DEF Types, DiskTypeOK, Written
<1>2. NodeCacheOK' /\ SceneCacheOK' /\ Ownership' /\ LoadingTracked'
  BY NodeCacheFrame, SceneCacheFrame, OwnershipFrame, LoadingFrame
     DEF caches, client, loader, Ownership
<1>3. Recoverable'
  <2>1. Readable(s.obj)' /\ \A x \in Objects : Readable(x) => Readable(x)'
    BY <1>0 DEF Readable, Written
  <2> QED
    BY <2>1 DEF Recoverable, InTree, client, manager
<1> QED
  BY <1>1, <1>2, <1>3, ClientTypeFrame, ManagerTypeFrame, LoaderTypeFrame DEF Types, caches

LEMMA SaveFailedInv == ASSUME IndInv, NEW s \in saves, SaveFailed(s) PROVE IndInv'
<1> USE DEF IndInv, SaveFailed
<1>0. s.obj \in Objects
  BY DEF Types, DiskTypeOK, Saves
<1>1. ClientTypeOK' /\ DiskTypeOK'
  BY <1>0, CountedType DEF Types, ClientTypeOK, DiskTypeOK, Written, client
<1>2. NodeCacheOK' /\ SceneCacheOK' /\ Ownership' /\ LoadingTracked'
  BY NodeCacheFrame, SceneCacheFrame, OwnershipFrame, LoadingFrame
     DEF caches, client, loader, Ownership
<1>3. Recoverable'
  <2>1. \A x \in Objects \ {s.obj} : Readable(x) => Readable(x)'
    BY DEF Readable, Written
  <2> QED
    BY <2>1 DEF Recoverable, InTree, client, manager
<1> QED
  BY <1>1, <1>2, <1>3, ManagerTypeFrame, LoaderTypeFrame DEF Types, caches

LEMMA SaveDroppedInv == ASSUME IndInv, NEW s \in saves, SaveDropped(s) PROVE IndInv'
<1> USE DEF IndInv, SaveDropped
<1>1. DiskTypeOK'
  BY DEF Types, DiskTypeOK
<1>2. NodeCacheOK' /\ SceneCacheOK' /\ Ownership' /\ LoadingTracked'
  BY NodeCacheFrame, SceneCacheFrame, OwnershipFrame, LoadingFrame
     DEF caches, client, loader, Ownership
<1>3. Recoverable'
  BY DEF Recoverable, manager
<1> QED
  BY <1>1, <1>2, <1>3, ClientTypeFrame, ManagerTypeFrame, LoaderTypeFrame DEF Types, caches

LEMMA LoadDoneInv == ASSUME IndInv, NEW u \in Objects, LoadDone(u) PROVE IndInv'
<1> USE DEF IndInv, LoadDone
<1>1. DiskTypeOK'
  BY DEF Types, DiskTypeOK
<1>2. NodeCacheOK' /\ SceneCacheOK' /\ Ownership' /\ Recoverable'
  BY NodeCacheFrame, SceneCacheFrame, OwnershipFrame, RecoverableFrame
     DEF caches, client, manager, Ownership
<1>3. LoadingTracked'
  BY DEF LoadingTracked, loader, Types, DiskTypeOK
<1> QED
  BY <1>1, <1>2, <1>3, ClientTypeFrame, ManagerTypeFrame, LoaderTypeFrame DEF Types, caches

LEMMA StutterInv == ASSUME IndInv, UNCHANGED vars PROVE IndInv'
<1> USE DEF IndInv, vars
<1>1. NodeCacheOK' /\ SceneCacheOK' /\ Ownership' /\ Recoverable' /\ LoadingTracked'
  BY NodeCacheFrame, SceneCacheFrame, OwnershipFrame, RecoverableFrame, LoadingFrame
     DEF caches, client, loader, disk, manager, Ownership
<1> QED
  BY <1>1, ClientTypeFrame, ManagerTypeFrame, LoaderTypeFrame, DiskTypeFrame DEF Types, caches

-----------------------------------------------------------------------------

\* The inductive invariant holds in every reachable state.
THEOREM Invariance == Safety => []IndInv
<1>1. Init => IndInv
  BY InitInv
<1>2. IndInv /\ [Next]_vars => IndInv'
  <2> SUFFICES ASSUME IndInv, [Next]_vars PROVE IndInv'
    OBVIOUS
  <2>1. ASSUME NEW u \in Objects, UserStep(u) PROVE IndInv'
    BY <2>1, AddInv, ModifyInv, QueueFreeInv, RemoveInv DEF UserStep
  <2>2. ASSUME NEW v \in Views, Look(v) PROVE IndInv'
    BY <2>2, LookInv
  <2>3. CASE ExitTree \/ EnterTree \/ Predelete
    BY <2>3, ExitTreeInv, EnterTreeInv, PredeleteInv
  <2>4. ASSUME NEW u \in Objects, Unload(u) \/ Want(u) PROVE IndInv'
    BY <2>4, UnloadInv, WantInv
  <2>5. ASSUME NEW u \in Objects, Load(u) PROVE IndInv'
    BY <2>5, LoadNothingInv, LoadNodeInv, LoadSceneInv, LoadRequestInv DEF Load
  <2>6. CASE MainStep
    BY <2>6, UpdateBeginInv, UpdateEntryInv, UpdateEndInv, ProcessRemoveInv
       DEF MainStep, UpdateStep
  <2>7. ASSUME NEW s \in saves, SaveDone(s) \/ SaveFailed(s) \/ SaveDropped(s) PROVE IndInv'
    BY <2>7, SaveDoneInv, SaveFailedInv, SaveDroppedInv
  <2>8. ASSUME NEW u \in Objects, LoadDone(u) PROVE IndInv'
    BY <2>8, LoadDoneInv
  <2>9. CASE UNCHANGED vars
    BY <2>9, StutterInv
  <2> QED
    BY <2>1, <2>2, <2>3, <2>4, <2>5, <2>6, <2>7, <2>8, <2>9 DEF Next
<1> QED
  BY <1>1, <1>2, PTL DEF Safety

\* TypeOK for every set of objects and every capacity: among others the list of
\* each cache names its keys once, whatever is put, got, popped and evicted.
THEOREM TypeCorrect == Safety => []TypeOK
<1>1. IndInv => TypeOK
  BY DEF IndInv, TypeOK, Types, NodeCacheOK, SceneCacheOK
<1> QED
  BY <1>1, Invariance, PTL

\* Neither cache outgrows its capacity, also when the capacity is zero.
THEOREM CapacityKept == Safety => []WithinCapacity
<1>1. IndInv => WithinCapacity
  BY DEF IndInv, WithinCapacity, NodeCacheOK, SceneCacheOK
<1> QED
  BY <1>1, Invariance, PTL

\* No unloaded node leaks, and the manager has none twice: not freed, not in the
\* tree and not on record, also when the user took it out before a result
\* released it, and whenever the manager leaves the tree and enters it again.
THEOREM NoLeak == Safety => []NodesOwned
<1>1. IndInv => NodesOwned
  BY DEF IndInv, Ownership
<1> QED
  BY <1>1, Invariance, PTL

\* Nobody waits for a load that nobody performs, also when loads fail.
THEOREM LoadsKnown == Safety => []LoadingTracked
<1>1. IndInv => LoadingTracked
  BY DEF IndInv
<1> QED
  BY <1>1, Invariance, PTL

\* scene_cache_ evicts the scene whose last use is the longest ago.
THEOREM EvictsOldest == Safety => []RecencyOrder
<1>1. IndInv => RecencyOrder
  BY DEF IndInv, RecencyOrder, SceneCacheOK
<1> QED
  BY <1>1, Invariance, PTL

\* Eviction loses no object: outside the tree it is saved, or about to be, unless
\* it left the tree without a save or its last save failed.
THEOREM NothingLost == Safety => []Recoverable
<1>1. IndInv => Recoverable
  BY DEF IndInv
<1> QED
  BY <1>1, Invariance, PTL
=============================================================================
