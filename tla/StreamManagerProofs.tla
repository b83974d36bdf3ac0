------------------------- MODULE StreamManagerProofs -------------------------
(***************************************************************************)
(* For every set of objects, every parent relation and every schedule of   *)
(* user operations, query results, saves and loads: the manager's          *)
(* bookkeeping stays consistent.  What waits to be synchronised with the   *)
(* database is registered, and children_map_ is the inverse of the         *)
(* registry's parent_uuid (IndInv).  Unless the user adds a removed node   *)
(* again, the registry also knows every root in the tree, and no cached    *)
(* node is there (TreeInv, in the second half).                            *)
(***************************************************************************)
EXTENDS StreamManager, FiniteSetTheorems, TLAPS

USE DEF Uuid

-----------------------------------------------------------------------------
(* Lemmas about the operators of the model.                                *)

\* The keys the objects of the model take are finitely many.
LEMMA ObjectsFinite == ASSUME NEW S \in SUBSET Objects PROVE IsFiniteSet(S)
  BY ConstantsAssumption, FS_Subset

\* An order of a set is a sequence of its elements that leaves none out.
LEMMA OrderFacts ==
  ASSUME NEW S \in SUBSET Objects, NEW f \in Orders(S)
  PROVE  /\ f \in Seq(S) /\ f \in Seq(Objects)
         /\ Len(f) = Cardinality(S)
         /\ Elements(f) = S
  <1>1. Cardinality(S) \in Nat
    BY ObjectsFinite, FS_CardinalityType
  <1>2. f \in [1..Cardinality(S) -> S] /\ \A x \in S : \E i \in DOMAIN f : f[i] = x
    BY DEF Orders
  <1>3. f \in Seq(S) /\ Len(f) = Cardinality(S)
    BY <1>1, <1>2
  <1>4. f \in Seq(Objects)
    BY <1>1, <1>2
  <1>5. Elements(f) = S
    BY <1>2, <1>3 DEF Elements
  <1> QED BY <1>3, <1>4, <1>5

\* Appending a new element to an order of S orders S with that element.
LEMMA OrderAppend ==
  ASSUME NEW S \in SUBSET Objects, NEW f \in Orders(S),
         NEW x \in Objects, x \notin S
  PROVE  Append(f, x) \in Orders(S \cup {x})
  <1> DEFINE n == Cardinality(S)
             g == Append(f, x)
  <1>1. n \in Nat /\ Cardinality(S \cup {x}) = n + 1
    BY ObjectsFinite, FS_CardinalityType, FS_AddElement
  <1>2. f \in Seq(S) /\ Len(f) = n /\ f \in [1..n -> S]
    BY OrderFacts DEF Orders
  <1>3. /\ g \in [1..(n + 1) -> S \cup {x}]
        /\ \A i \in 1..n : g[i] = f[i]
        /\ g[n + 1] = x
    <2>1. f \in Seq(S \cup {x})
      BY <1>1, <1>2
    <2>2. g \in Seq(S \cup {x}) /\ Len(g) = n + 1
      BY <2>1, <1>2
    <2>3. g \in [1..(n + 1) -> S \cup {x}]
      <3> HIDE DEF g
      <3> QED BY <2>2
    <2>4. g[n + 1] = x /\ \A i \in 1..n : g[i] = f[i]
      BY <1>2, <2>1
    <2> QED BY <2>3, <2>4
  <1>4. ASSUME NEW y \in S \cup {x} PROVE \E i \in DOMAIN g : g[i] = y
    <2>1. CASE y \in S
      <3>1. PICK i \in 1..n : f[i] = y
        BY <1>2, <2>1 DEF Orders
      <3> QED BY <3>1, <1>1, <1>3
    <2>2. CASE y = x
      BY <2>2, <1>1, <1>3
    <2> QED BY <2>1, <2>2
  <1> HIDE DEF n, g
  <1> QED BY <1>1, <1>3, <1>4 DEF Orders, n, g

\* Inserting an element, new or not.
LEMMA OrderInsert ==
  ASSUME NEW S \in SUBSET Objects, NEW f \in Orders(S), NEW x \in Objects
  PROVE  Insert(f, x) \in Orders(S \cup {x})
  <1>1. Len(f) = Cardinality(S) /\ Elements(f) = S
    BY OrderFacts
  <1>2. CASE x \in S
    <2>1. S \cup {x} = S
      BY <1>2
    <2>2. \E i \in 1..Len(f) : f[i] = x
      BY <1>1, <1>2 DEF Elements
    <2> QED BY <2>1, <2>2 DEF Insert
  <1>3. CASE x \notin S
    <2>1. ~\E i \in 1..Len(f) : f[i] = x
      BY <1>1, <1>3 DEF Elements
    <2> QED BY <2>1, <1>3, OrderAppend DEF Insert
  <1> QED BY <1>2, <1>3

\* Inserting into a sequence of objects.
LEMMA InsertSeq ==
  ASSUME NEW s \in Seq(Objects), NEW x \in Objects
  PROVE  /\ Insert(s, x) \in Seq(Objects)
         /\ Elements(Insert(s, x)) = Elements(s) \cup {x}
  BY DEF Insert, Elements

\* What is left after erasing an order of D: a sequence of the other elements.
LEMMA ErasedFacts ==
  ASSUME NEW s \in Seq(Objects), NEW D \in SUBSET Objects,
         NEW order \in Orders(D), NEW t \in ErasedFrom(s, order)
  PROVE  t \in Seq(Objects) /\ Elements(t) = Elements(s) \ D
  <1>1. Elements(s) \subseteq Objects
    BY DEF Elements
  <1>2. Elements(order) = D
    BY OrderFacts
  <1>3. t \in Orders(Elements(s) \ D)
    BY <1>2 DEF ErasedFrom, OrderOf
  <1> QED BY <1>1, <1>3, OrderFacts

\* A map has a set of objects as domain, and every such function is a map.
LEMMA MapFacts ==
  ASSUME NEW V
  PROVE  /\ \A f \in Maps(V) : DOMAIN f \subseteq Objects /\ f \in [DOMAIN f -> V]
         /\ \A S \in SUBSET Objects : \A f \in [S -> V] : f \in Maps(V)
  BY DEF Maps

\* Erasing entries from registry_.
LEMMA WithoutFacts ==
  ASSUME NEW f, f \in [DOMAIN f -> Entry], NEW S
  PROVE  /\ DOMAIN Without(f, S) = DOMAIN f \ S
         /\ Without(f, S) \in [DOMAIN f \ S -> Entry]
         /\ \A x \in DOMAIN f \ S : Without(f, S)[x] = f[x]
  BY DEF Without

-----------------------------------------------------------------------------
(* The inductive invariant.  ChildrenMapExact is needed for                *)
(* SyncSetsRegistered: a deletion only erases whole families if            *)
(* children_map_ is exact; TypeOK bounds the sets that are ordered.        *)

IndInv == TypeOK /\ SyncSetsRegistered /\ ChildrenMapExact

\* The property as a fact about sets.
LEMMA SyncSets ==
  SyncSetsRegistered <=>
    Elements(to_upsert_uuids_) \subseteq DOMAIN registry_ /\ dirty_aabb_ \subseteq DOMAIN registry_
  BY DEF SyncSetsRegistered, Elements

\* The same in the next state.
LEMMA SyncSetsNext ==
  ASSUME Elements(to_upsert_uuids_') \subseteq DOMAIN registry_',
         dirty_aabb_' \subseteq DOMAIN registry_'
  PROVE  SyncSetsRegistered'
  BY DEF SyncSetsRegistered, Elements

\* A step that leaves a group of variables alone keeps its types.
LEMMA EngineFrame == ASSUME EngineTypeOK, UNCHANGED engine PROVE EngineTypeOK'
  BY DEF EngineTypeOK, engine

\* The manager's map and its inverse.
LEMMA EntriesFrame ==
  ASSUME EntriesTypeOK, ChildrenMapExact, UNCHANGED entries
  PROVE  EntriesTypeOK' /\ ChildrenMapExact'
  BY DEF EntriesTypeOK, ChildrenMapExact, ChildrenOf, entries

\* The sets of pending work.
LEMMA PendingFrame ==
  ASSUME PendingTypeOK, UNCHANGED pending PROVE PendingTypeOK'
  BY DEF PendingTypeOK, pending

\* Pending work and the registry it refers to.
LEMMA SyncFrame ==
  ASSUME SyncSetsRegistered, UNCHANGED <<registry_, to_upsert_uuids_, dirty_aabb_>>
  PROVE  SyncSetsRegistered'
  BY DEF SyncSetsRegistered

\* The load queues.
LEMMA QueuesFrame == ASSUME QueuesTypeOK, UNCHANGED queues PROVE QueuesTypeOK'
  BY DEF QueuesTypeOK, queues

\* The main thread's counters.
LEMMA ControlFrame ==
  ASSUME ControlTypeOK, UNCHANGED <<ops, query_process, pc>> PROVE ControlTypeOK'
  BY DEF ControlTypeOK

\* The scene cache.
LEMMA CacheFrame == ASSUME CacheTypeOK, UNCHANGED cache PROVE CacheTypeOK'
  BY DEF CacheTypeOK, cache

\* The database.
LEMMA DbFrame == ASSUME DbTypeOK, UNCHANGED db PROVE DbTypeOK'
  BY DEF DbTypeOK, db

\* Init satisfies the invariant.
LEMMA InvInit == ASSUME Init PROVE IndInv
  <1> USE DEF Init
  <1>1. EngineTypeOK
    BY ConstantsAssumption DEF EngineTypeOK, NodeStates
  <1>2. EntriesTypeOK
    <2>1. DOMAIN registry_ = {} /\ registry_ \in [{} -> Entry]
      OBVIOUS
    <2>2. registry_order \in Orders({})
      BY FS_EmptySet DEF Orders
    <2> QED BY <2>1, <2>2 DEF EntriesTypeOK
  <1>3. PendingTypeOK
    BY DEF PendingTypeOK
  <1>4. QueuesTypeOK
    BY ConstantsAssumption DEF QueuesTypeOK
  <1>5. ControlTypeOK
    BY ConstantsAssumption DEF ControlTypeOK
  <1>6. CacheTypeOK
    BY DEF CacheTypeOK
  <1>7. DbTypeOK
    BY DEF DbTypeOK
  <1>8. SyncSetsRegistered
    BY DEF SyncSetsRegistered
  <1>9. ChildrenMapExact
    BY DEF ChildrenMapExact, ChildrenOf
  <1> QED BY <1>1, <1>2, <1>3, <1>4, <1>5, <1>6, <1>7, <1>8, <1>9 DEF IndInv, TypeOK

-----------------------------------------------------------------------------
(* The user's operations.                                                  *)

\* What every user operation leaves alone.
LEMMA UserFrame ==
  ASSUME IndInv, NEW op, User(op)
  PROVE  QueuesTypeOK' /\ ControlTypeOK' /\ DbTypeOK'
  <1> USE DEF IndInv, TypeOK, User, Counted
  <1>1. QueuesTypeOK'
    BY QueuesFrame
  <1>2. ControlTypeOK'
    BY DEF ControlTypeOK
  <1>3. DbTypeOK'
    BY DbFrame
  <1> QED BY <1>1, <1>2, <1>3

\* Add registers a new object under its parent.
LEMMA AddStep ==
  ASSUME IndInv, NEW u \in Objects, NEW c \in Cells, Add(u, c)
  PROVE  IndInv'
  <1> USE DEF IndInv, TypeOK, Add
  <1>0. QueuesTypeOK' /\ ControlTypeOK' /\ DbTypeOK'
    BY UserFrame
  <1>1. EngineTypeOK'
    BY DEF EngineTypeOK, Nodes, NodeStates
  <1>2. CacheTypeOK'
    BY DEF CacheTypeOK, User, Counted
  <1>3. CASE ~hooked
    <2>1. EntriesTypeOK' /\ ChildrenMapExact'
      BY <1>3, EntriesFrame
    <2>2. PendingTypeOK'
      BY <1>3 DEF PendingTypeOK, entries
    <2>3. SyncSetsRegistered'
      BY <1>3, SyncFrame DEF entries
    <2> QED BY <1>0, <1>1, <1>2, <2>1, <2>2, <2>3
  <1>4. CASE hooked
    <2> DEFINE e == [parent |-> Parent[u], node |-> <<u, 1>>]
    <2>1. Parent[u] \in Objects \cup {Nil} /\ e \in Entry
      BY ConstantsAssumption DEF Entry, Nodes
    <2>2. registry_' = With(registry_, u, e)
      BY <1>4
    <2> HIDE DEF e
    <2>3. /\ DOMAIN registry_' = DOMAIN registry_ \cup {u}
          /\ registry_' \in [DOMAIN registry_' -> Entry]
          /\ registry_'[u] = e
          /\ \A x \in DOMAIN registry_ : registry_'[x] = registry_[x]
      <3>1. registry_ \in [DOMAIN registry_ -> Entry] /\ u \notin DOMAIN registry_
        BY DEF EntriesTypeOK
      <3>2. registry_' = [x \in DOMAIN registry_ \cup {u} |-> IF x = u THEN e ELSE registry_[x]]
        BY ONLY <2>2 DEF With
      <3> QED BY ONLY <2>1, <3>1, <3>2
    <2>4. registry_order' \in Orders(DOMAIN registry_')
      <3>1. /\ registry_order' = Append(registry_order, u)
            /\ registry_order \in Orders(DOMAIN registry_)
            /\ DOMAIN registry_ \subseteq Objects
            /\ u \notin DOMAIN registry_
        BY <1>4 DEF EntriesTypeOK
      <3> QED BY ONLY <2>3, <3>1, OrderAppend, u \in Objects
    <2>5. children_map_' \in [Objects -> SUBSET Objects]
      BY <1>4, <2>1 DEF EntriesTypeOK
    <2>6. ChildrenMapExact'
      <3>1. children_map_' = [p \in Objects |-> IF p = Parent[u] THEN children_map_[p] \cup {u}
                                                ELSE children_map_[p]]
        BY <1>4, <2>1, ConstantsAssumption DEF EntriesTypeOK
      <3>2. ASSUME NEW p \in Objects
            PROVE  children_map_'[p] = {x \in DOMAIN registry_' : registry_'[x].parent = p}
        BY <3>1, <2>3 DEF ChildrenMapExact, ChildrenOf, e
      <3> QED BY <2>5, <3>2 DEF ChildrenMapExact, ChildrenOf
    <2>7. PendingTypeOK'
      BY <1>4, InsertSeq DEF PendingTypeOK
    <2>8. SyncSetsRegistered'
      <3>1. Elements(to_upsert_uuids_') = Elements(to_upsert_uuids_) \cup {u}
        BY <1>4, InsertSeq DEF PendingTypeOK
      <3> QED BY <1>4, <2>3, <3>1, SyncSets, SyncSetsNext
    <2>9. EntriesTypeOK'
      BY <2>3, <2>4, <2>5 DEF EntriesTypeOK
    <2> QED BY <1>0, <1>1, <1>2, <2>6, <2>7, <2>8, <2>9
  <1> QED BY <1>3, <1>4

\* Remove only queues a deletion.
LEMMA RemoveStep ==
  ASSUME IndInv, NEW n \in Nodes, Remove(n)
  PROVE  IndInv'
  <1> USE DEF IndInv, TypeOK, Remove
  <1>0. QueuesTypeOK' /\ ControlTypeOK' /\ DbTypeOK'
    BY UserFrame
  <1>1. EngineTypeOK'
    BY DEF EngineTypeOK, NodeStates
  <1>2. CacheTypeOK'
    BY CacheFrame DEF User, Counted, cache
  <1>3. EntriesTypeOK' /\ ChildrenMapExact'
    BY EntriesFrame
  <1>4. PendingTypeOK'
    BY DEF PendingTypeOK, Nodes
  <1>5. SyncSetsRegistered'
    BY SyncFrame DEF entries
  <1> QED BY <1>0, <1>1, <1>2, <1>3, <1>4, <1>5

\* ReAdd creates at most an entry without parent.
LEMMA ReAddStep ==
  ASSUME IndInv, NEW n \in Nodes, ReAdd(n)
  PROVE  IndInv'
  <1> USE DEF IndInv, TypeOK, ReAdd
  <1>0. QueuesTypeOK' /\ ControlTypeOK' /\ DbTypeOK'
    BY UserFrame
  <1>1. EngineTypeOK'
    BY DEF EngineTypeOK, NodeStates
  <1>2. CacheTypeOK' /\ PendingTypeOK'
    BY CacheFrame, PendingFrame DEF User, Counted, cache
  <1>3. CASE ~hooked
    <2>1. EntriesTypeOK' /\ ChildrenMapExact'
      BY <1>3, EntriesFrame DEF entries
    <2>2. SyncSetsRegistered'
      BY <1>3, SyncFrame DEF pending
    <2> QED BY <1>0, <1>1, <1>2, <2>1, <2>2
  <1>4. CASE hooked
    <2> DEFINE k == Uuid(n)
               e == [parent |-> IF k \in DOMAIN registry_ THEN registry_[k].parent ELSE Nil,
                     node |-> n]
    <2>1. k \in Objects /\ e \in Entry
      BY DEF Entry, Nodes, EntriesTypeOK
    <2>2. registry_' = With(registry_, k, e)
      BY <1>4
    <2>3. k \notin DOMAIN registry_ => e.parent = Nil
      OBVIOUS
    <2>4. k \in DOMAIN registry_ => e.parent = registry_[k].parent
      OBVIOUS
    <2> HIDE DEF e, k
    <2>5. /\ DOMAIN registry_' = DOMAIN registry_ \cup {k}
          /\ registry_' \in [DOMAIN registry_' -> Entry]
          /\ registry_'[k] = e
          /\ \A x \in DOMAIN registry_ \ {k} : registry_'[x] = registry_[x]
      <3>1. registry_ \in [DOMAIN registry_ -> Entry]
        BY DEF EntriesTypeOK
      <3>2. registry_' = [x \in DOMAIN registry_ \cup {k} |-> IF x = k THEN e ELSE registry_[x]]
        BY ONLY <2>2 DEF With
      <3> QED BY ONLY <2>1, <3>1, <3>2
    <2>6. registry_order' \in Orders(DOMAIN registry_')
      BY <1>4, <2>1, <2>5, OrderInsert DEF EntriesTypeOK, k
    <2>7. EntriesTypeOK'
      BY <2>1, <2>5, <2>6 DEF EntriesTypeOK
    <2>8. ChildrenMapExact'
      <3>1. ASSUME NEW p \in Objects
            PROVE  {x \in DOMAIN registry_' : registry_'[x].parent = p}
                     = {x \in DOMAIN registry_ : registry_[x].parent = p}
        BY <2>3, <2>4, <2>5, ConstantsAssumption
      <3> QED BY <3>1 DEF ChildrenMapExact, ChildrenOf
    <2>9. SyncSetsRegistered'
      BY <2>5, SyncSets, SyncSetsNext DEF pending
    <2> QED BY <1>0, <1>1, <1>2, <2>7, <2>8, <2>9
  <1> QED BY <1>3, <1>4

\* QueueFree saves the node and forgets its pending AABB.
LEMMA QueueFreeStep ==
  ASSUME IndInv, NEW n \in Nodes, QueueFree(n)
  PROVE  IndInv'
  <1> USE DEF IndInv, TypeOK, QueueFree
  <1>0. QueuesTypeOK' /\ ControlTypeOK' /\ DbTypeOK'
    BY UserFrame
  <1>1. EngineTypeOK'
    BY DEF EngineTypeOK, NodeStates
  <1>2. CacheTypeOK'
    BY DEF CacheTypeOK, User, Counted, Nodes
  <1>3. EntriesTypeOK' /\ ChildrenMapExact'
    BY EntriesFrame
  <1>4. dirty_aabb_' \subseteq dirty_aabb_
    OBVIOUS
  <1>5. PendingTypeOK'
    BY <1>4 DEF PendingTypeOK
  <1>6. SyncSetsRegistered'
    BY <1>4 DEF SyncSetsRegistered, entries
  <1> QED BY <1>0, <1>1, <1>2, <1>3, <1>5, <1>6

\* Move marks a registered object.
LEMMA MoveStep ==
  ASSUME IndInv, NEW n \in Nodes, NEW c \in Cells, Move(n, c)
  PROVE  IndInv'
  <1> USE DEF IndInv, TypeOK, Move
  <1>0. QueuesTypeOK' /\ ControlTypeOK' /\ DbTypeOK'
    BY UserFrame
  <1>1. EngineTypeOK'
    BY DEF EngineTypeOK, Nodes
  <1>2. CacheTypeOK'
    BY CacheFrame DEF User, Counted, cache
  <1>3. EntriesTypeOK' /\ ChildrenMapExact'
    BY EntriesFrame
  <1>4. PendingTypeOK'
    BY DEF PendingTypeOK, Nodes
  <1>5. SyncSetsRegistered'
    BY DEF SyncSetsRegistered, entries
  <1> QED BY <1>0, <1>1, <1>2, <1>3, <1>4, <1>5

\* Look and EnterTree change the engine's variables only.
LEMMA ViewStep ==
  ASSUME IndInv, (\E v \in SUBSET Cells : Look(v)) \/ EnterTree
  PROVE  IndInv'
  <1> USE DEF IndInv, TypeOK, Look, EnterTree
  <1>0. QueuesTypeOK' /\ ControlTypeOK' /\ DbTypeOK'
    BY UserFrame
  <1>1. EngineTypeOK'
    BY DEF EngineTypeOK
  <1>2. CacheTypeOK' /\ PendingTypeOK'
    BY CacheFrame, PendingFrame DEF User, Counted, cache
  <1>3. EntriesTypeOK' /\ ChildrenMapExact'
    BY EntriesFrame
  <1>4. SyncSetsRegistered'
    BY SyncFrame DEF entries, pending
  <1> QED BY <1>0, <1>1, <1>2, <1>3, <1>4

\* A flush is no task, or one whose data are objects and cells.
LEMMA FlushTaskType ==
  ASSUME IndInv, NEW upserts \in Seq(Objects), NEW removes \in SUBSET Objects,
         NEW dirty \in SUBSET Objects
  PROVE  FlushTask(upserts, removes, dirty) \in Seq(Flushes \cup Queries)
  <1> DEFINE known == Elements(upserts) \cap DOMAIN registry_
             nodes == {u \in dirty \cap DOMAIN registry_ :
                          /\ registry_[u].node # NoNode
                          /\ where[registry_[u].node] = "child"}
             par == [u \in known |-> registry_[u].parent]
             box == [u \in nodes |-> {cell[u]}]
             t == [kind |-> "flush", upsert |-> upserts, parent |-> par,
                   remove |-> removes, dirty |-> box]
  <1>1. par \in Results
    <2>1. known \in SUBSET Objects /\ par \in [known -> Objects \cup {Nil}]
      BY DEF IndInv, TypeOK, EntriesTypeOK, Entry
    <2> HIDE DEF known, par
    <2> QED BY <2>1, MapFacts DEF Results
  <1>2. box \in Maps(SUBSET Cells)
    <2>1. nodes \in SUBSET Objects /\ box \in [nodes -> SUBSET Cells]
      BY DEF IndInv, TypeOK, EngineTypeOK
    <2> HIDE DEF nodes, box
    <2> QED BY <2>1, MapFacts
  <1>3. t \in Flushes
    <2> HIDE DEF par, box
    <2> QED BY <1>1, <1>2 DEF Flushes
  <1>4. FlushTask(upserts, removes, dirty)
          = IF known = {} /\ removes = {} /\ nodes = {} THEN <<>> ELSE <<t>>
    BY DEF FlushTask
  <1> HIDE DEF known, nodes, t
  <1>5. <<t>> \in Seq(Flushes \cup Queries)
    BY <1>3
  <1>6. <<>> \in Seq(Flushes \cup Queries)
    OBVIOUS
  <1> QED BY <1>4, <1>5, <1>6

\* ExitTree forgets the pending work and the load queues.
LEMMA ExitTreeStep ==
  ASSUME IndInv, ExitTree
  PROVE  IndInv'
  <1> USE DEF IndInv, TypeOK, ExitTree
  <1>1. EngineTypeOK'
    BY DEF EngineTypeOK
  <1>2. CacheTypeOK'
    BY CacheFrame
  <1>3. EntriesTypeOK' /\ ChildrenMapExact'
    BY EntriesFrame
  <1>4. PendingTypeOK'
    BY DEF PendingTypeOK
  <1>5. SyncSetsRegistered'
    BY DEF SyncSetsRegistered
  <1>6. QueuesTypeOK'
    BY DEF QueuesTypeOK
  <1>7. ControlTypeOK'
    BY DEF ControlTypeOK, Counted
  <1>8. DbTypeOK'
    <2>1. FlushTask(<<>>, to_remove_, {}) \in Seq(Flushes \cup Queries)
      <3>1. <<>> \in Seq(Objects) /\ to_remove_ \in SUBSET Objects /\ {} \in SUBSET Objects
        BY DEF PendingTypeOK
      <3> HIDE DEF IndInv, TypeOK, ExitTree
      <3> QED BY <3>1, FlushTaskType
    <2> QED BY <2>1 DEF DbTypeOK
  <1> QED BY <1>1, <1>2, <1>3, <1>4, <1>5, <1>6, <1>7, <1>8

-----------------------------------------------------------------------------
(* The database thread.                                                    *)

Table(r) == DOMAIN r \subseteq Objects /\ r \in [DOMAIN r -> Row]

\* Each part of a flush maps a table to a table: deletion,
LEMMA DeleteRowsType ==
  ASSUME NEW r, Table(r), NEW removes PROVE Table(DeleteRows(r, removes))
  BY DEF Table, DeleteRows, Without

\* upserts,
LEMMA UpsertRowsType ==
  ASSUME NEW r, Table(r), NEW t \in Flushes PROVE Table(UpsertRows(r, t))
  <1>1. DOMAIN t.parent \subseteq Objects /\ t.parent \in [DOMAIN t.parent -> Objects \cup {Nil}]
    BY MapFacts DEF Flushes, Results
  <1>2. PICK stored \in SUBSET DOMAIN t.parent :
          UpsertRows(r, t) =
            [u \in DOMAIN r \cup stored |->
              [parent |-> IF u \in stored THEN t.parent[u] ELSE r[u].parent,
               aabb   |-> IF u \in DOMAIN r THEN r[u].aabb ELSE {},
               chunk  |-> IF u \in DOMAIN r THEN r[u].chunk ELSE {}]]
    BY Zenon DEF UpsertRows
  <1> HIDE DEF UpsertRows
  <1>3. DOMAIN UpsertRows(r, t) = DOMAIN r \cup stored
    BY <1>2
  <1>4. ASSUME NEW u \in DOMAIN r \cup stored PROVE UpsertRows(r, t)[u] \in Row
    BY <1>1, <1>2 DEF Table, Row
  <1> QED BY <1>1, <1>2, <1>3, <1>4 DEF Table

\* AABBs,
LEMMA SetAabbsType ==
  ASSUME NEW r, Table(r), NEW dirty \in Maps(SUBSET Cells)
  PROVE  Table(SetAabbs(r, dirty))
  <1>1. dirty \in [DOMAIN dirty -> SUBSET Cells]
    BY MapFacts
  <1> QED BY <1>1 DEF Table, SetAabbs, Row

\* and chunks.
LEMMA SetChunksType ==
  ASSUME NEW r, Table(r), NEW dirty PROVE Table(SetChunks(r, dirty))
  <1>1. ASSUME NEW u PROVE Aggregate(r, u) \subseteq Cells
    BY ConstantsAssumption DEF Aggregate, RowAabb, Table, Row
  <1>2. PICK above : SetChunks(r, dirty) =
          [u \in DOMAIN r |-> IF u \in above
                                THEN [r[u] EXCEPT !.chunk = Aggregate(r, u)] ELSE r[u]]
    BY Zenon DEF SetChunks
  <1>3. ASSUME NEW u \in DOMAIN r PROVE [r[u] EXCEPT !.chunk = Aggregate(r, u)] \in Row
    BY <1>1 DEF Table, Row
  <1> QED BY <1>2, <1>3 DEF Table

\* DbStep turns a task into new rows or a result.
LEMMA DbStepInv ==
  ASSUME IndInv, DbStep
  PROVE  IndInv'
  <1> USE DEF IndInv, TypeOK, DbStep
  <1>1. EngineTypeOK' /\ CacheTypeOK' /\ PendingTypeOK' /\ QueuesTypeOK'
    BY EngineFrame, CacheFrame, PendingFrame, QueuesFrame
  <1>2. EntriesTypeOK' /\ ChildrenMapExact' /\ SyncSetsRegistered'
    BY EntriesFrame, SyncFrame DEF entries, pending
  <1>3. ControlTypeOK'
    BY ControlFrame
  <1>4. DbTypeOK'
    <2> DEFINE t == Head(tasks)
    <2>1. t \in Flushes \cup Queries /\ tasks' \in Seq(Flushes \cup Queries)
      BY DEF DbTypeOK
    <2>2. Table(rows)
      BY DEF DbTypeOK, Table
    <2>3. CASE t.kind = "flush"
      <3>1. t \in Flushes
        BY <2>1, <2>3 DEF Queries
      <3>2. t.dirty \in Maps(SUBSET Cells)
        BY <3>1 DEF Flushes
      <3>3. rows' = RunFlush(t) /\ UNCHANGED completed
        BY <2>3
      <3> HIDE DEF t
      <3>4. Table(RunFlush(t))
        <4>1. Table(DeleteRows(rows, t.remove))
          BY <2>2, DeleteRowsType
        <4>2. Table(UpsertRows(DeleteRows(rows, t.remove), t))
          BY <4>1, <3>1, UpsertRowsType
        <4>3. Table(SetAabbs(UpsertRows(DeleteRows(rows, t.remove), t), t.dirty))
          BY <4>2, <3>2, SetAabbsType
        <4> QED BY <4>3, SetChunksType DEF RunFlush
      <3> QED BY <2>1, <3>3, <3>4 DEF DbTypeOK, Table
    <2>4. CASE t.kind # "flush"
      <3> DEFINE Q == QueryObjects(rows, t.view)
                 result == [u \in Q |-> rows[u].parent]
      <3>1. Q \in SUBSET Objects /\ result \in [Q -> Objects \cup {Nil}]
        BY DEF QueryObjects, DbTypeOK, Row
      <3>2. completed' = Append(completed, result) /\ UNCHANGED rows
        BY <2>4
      <3> HIDE DEF Q, result, t
      <3>3. result \in Results
        BY <3>1, MapFacts DEF Results
      <3> QED BY <2>1, <3>2, <3>3 DEF DbTypeOK
    <2> QED BY <2>3, <2>4
  <1> QED BY <1>1, <1>2, <1>3, <1>4

-----------------------------------------------------------------------------
(* Steps that touch neither entries nor pending work.                      *)

\* The start of a frame, the end of the callbacks, the scene cache's update,
\* the end of _process, a finished save and a finished load.
LEMMA QuietStep ==
  ASSUME IndInv,
         \/ FrameStart \/ EndCallbacks \/ ProcessUpdate \/ ProcessEnd
         \/ \E u \in Objects : SaveDone(u) \/ SaveFailed(u) \/ LoadDone(u)
  PROVE  IndInv'
  <1> USE DEF IndInv, TypeOK, FrameStart, EndCallbacks, ProcessUpdate, ProcessEnd,
              SaveDone, SaveFailed, LoadDone, Counted
  <1>1. UNCHANGED entries /\ UNCHANGED pending /\ UNCHANGED engine
    OBVIOUS
  <1>2. EngineTypeOK' /\ PendingTypeOK' /\ EntriesTypeOK' /\ ChildrenMapExact'
    BY <1>1, EngineFrame, PendingFrame, EntriesFrame
  <1>3. SyncSetsRegistered'
    BY <1>1, SyncFrame DEF entries, pending
  <1>4. QueuesTypeOK'
    <2>1. CASE ProcessUpdate \/ ProcessEnd
      <3>1. /\ loads' = 0
            /\ \/ UNCHANGED <<load_queue_, loaded_queue_>>
               \/ load_queue_' = load_queue_ \o loaded_queue_ /\ loaded_queue_' = <<>>
        BY <2>1
      <3>2. load_queue_ \in Seq(Objects) /\ loaded_queue_ \in Seq(Objects)
        BY DEF QueuesTypeOK
      <3> HIDE DEF IndInv, TypeOK, FrameStart, EndCallbacks, ProcessUpdate, ProcessEnd,
                   SaveDone, SaveFailed, LoadDone
      <3>3. 0 \in 0..MaxLoadsPerFrame
        BY ConstantsAssumption
      <3>4. load_queue_' \in Seq(Objects) /\ loaded_queue_' \in Seq(Objects)
        <4>1. load_queue_ \o loaded_queue_ \in Seq(Objects) /\ <<>> \in Seq(Objects)
          BY <3>2
        <4> QED BY <3>1, <3>2, <4>1
      <3> QED BY <3>1, <3>3, <3>4 DEF QueuesTypeOK
    <2>2. CASE ~(ProcessUpdate \/ ProcessEnd)
      <3>1. UNCHANGED queues
        BY <2>2
      <3> QED BY <3>1, QueuesFrame
    <2> QED BY <2>1, <2>2
  <1>5. ControlTypeOK'
    BY DEF ControlTypeOK
  <1>6. CacheTypeOK'
    BY DEF CacheTypeOK, cache
  <1>7. DbTypeOK'
    <2>1. CASE FrameStart
      BY <2>1 DEF DbTypeOK
    <2>2. CASE ~FrameStart
      <3>1. UNCHANGED db
        BY <2>2
      <3> QED BY <3>1, DbFrame
    <2> QED BY <2>1, <2>2
  <1> QED BY <1>2, <1>3, <1>4, <1>5, <1>6, <1>7

-----------------------------------------------------------------------------
(* _process.                                                               *)

\* The descendants of an object are closed under children_map_.
LEMMA DescendantsClosed ==
  ASSUME EntriesTypeOK, NEW u, NEW p \in _collect_descendants(u),
         NEW x \in children_map_[p]
  PROVE  x \in _collect_descendants(u)
  <1>1. p \in Objects /\ x \in Objects
    BY DEF EntriesTypeOK, _collect_descendants
  <1> QED BY <1>1 DEF _collect_descendants

\* ProcessRemove erases whole families, so no entry keeps a deleted parent
\* and no set of children keeps a deleted child.
LEMMA ProcessRemoveStep ==
  ASSUME IndInv, ProcessRemove
  PROVE  IndInv'
  <1> USE DEF IndInv, TypeOK
  <1> DEFINE gone == UNION {_collect_descendants(u) : u \in object_removal_}
             deleted == gone \cap DOMAIN registry_
  <1>1. /\ registry_' = Without(registry_, deleted)
        /\ children_map_' = Unlink(gone, deleted)
        /\ to_remove_' = to_remove_ \cup deleted
        /\ dirty_aabb_' = EraseDirty(deleted)
        /\ files' = files \ deleted /\ scene_cache_' = scene_cache_ \ deleted
        /\ object_removal_' = {} /\ pc' = "sync"
        /\ \E order \in Orders(deleted) :
             /\ to_upsert_uuids_' \in ErasedFrom(to_upsert_uuids_, order)
             /\ registry_order' \in OrderOf(DOMAIN registry_ \ deleted,
                                           EraseInOrder(registry_order, order))
    BY DEF ProcessRemove
  <1>2. ASSUME NEW p \in gone, NEW x \in children_map_[p] PROVE x \in gone
    BY DescendantsClosed
  <1>3. deleted \in SUBSET Objects /\ deleted \subseteq DOMAIN registry_
    BY DEF EntriesTypeOK
  <1> HIDE DEF gone, deleted
  <1>4. /\ DOMAIN registry_' = DOMAIN registry_ \ deleted
        /\ registry_' \in [DOMAIN registry_' -> Entry]
        /\ \A x \in DOMAIN registry_ \ deleted : registry_'[x] = registry_[x]
    <2>1. registry_ \in [DOMAIN registry_ -> Entry]
      BY DEF EntriesTypeOK
    <2>2. registry_' = [x \in DOMAIN registry_ \ deleted |-> registry_[x]]
      BY <1>1 DEF Without
    <2> QED BY ONLY <2>1, <2>2
  <1>5. EntriesTypeOK'
    <2>1. registry_order' \in Orders(DOMAIN registry_')
      BY <1>1, <1>4 DEF OrderOf
    <2>2. children_map_' \in [Objects -> SUBSET Objects]
      BY <1>1 DEF Unlink, EntriesTypeOK
    <2> QED BY <1>4, <2>1, <2>2 DEF EntriesTypeOK
  <1>6. ChildrenMapExact'
    <2>1. ASSUME NEW p \in Objects
          PROVE  children_map_'[p] = {x \in DOMAIN registry_' : registry_'[x].parent = p}
      <3>1. children_map_[p] = {x \in DOMAIN registry_ : registry_[x].parent = p}
        BY DEF ChildrenMapExact, ChildrenOf
      <3>2. {x \in DOMAIN registry_' : registry_'[x].parent = p} = children_map_[p] \ deleted
        BY <1>4, <3>1
      <3>3. CASE p \in gone
        <4>1. children_map_[p] \subseteq deleted
          BY <1>2, <3>1, <3>3 DEF deleted
        <4> QED BY <1>1, <3>2, <3>3, <4>1 DEF Unlink
      <3>4. CASE p \notin gone
        BY <1>1, <3>2, <3>4 DEF Unlink
      <3> QED BY <3>3, <3>4
    <2> QED BY <1>1, <2>1 DEF ChildrenMapExact, ChildrenOf, Unlink
  <1>7. /\ to_upsert_uuids_' \in Seq(Objects)
        /\ Elements(to_upsert_uuids_') = Elements(to_upsert_uuids_) \ deleted
    <2>1. PICK order \in Orders(deleted) :
            to_upsert_uuids_' \in ErasedFrom(to_upsert_uuids_, order)
      BY <1>1
    <2>2. to_upsert_uuids_ \in Seq(Objects)
      BY DEF PendingTypeOK
    <2> QED BY ONLY <1>3, <2>1, <2>2, ErasedFacts
  <1>8. SyncSetsRegistered'
    BY <1>1, <1>4, <1>7, SyncSets, SyncSetsNext DEF EraseDirty
  <1>9. PendingTypeOK'
    BY <1>1, <1>3, <1>7 DEF PendingTypeOK, EraseDirty
  <1>10. EngineTypeOK' /\ QueuesTypeOK' /\ DbTypeOK'
    BY EngineFrame, QueuesFrame, DbFrame DEF ProcessRemove
  <1>11. ControlTypeOK'
    BY <1>1 DEF ControlTypeOK, ProcessRemove
  <1>12. CacheTypeOK'
    BY <1>1 DEF CacheTypeOK, ProcessRemove
  <1> QED BY <1>5, <1>6, <1>8, <1>9, <1>10, <1>11, <1>12

\* ProcessSync captures the pending work and empties it.
LEMMA ProcessSyncStep ==
  ASSUME IndInv, ProcessSync
  PROVE  IndInv'
  <1> USE DEF IndInv, TypeOK
  <1>1. EngineTypeOK' /\ QueuesTypeOK' /\ CacheTypeOK'
    BY EngineFrame, QueuesFrame, CacheFrame DEF ProcessSync
  <1>2. EntriesTypeOK' /\ ChildrenMapExact'
    BY EntriesFrame DEF ProcessSync
  <1>3. PendingTypeOK' /\ SyncSetsRegistered'
    BY DEF ProcessSync, PendingTypeOK, SyncSetsRegistered
  <1>4. ControlTypeOK'
    <2>1. query_process' = NextPoll(query_process + 1 >= QueryPeriod)
      BY Zenon DEF ProcessSync
    <2> QED BY <2>1, ConstantsAssumption DEF ControlTypeOK, ProcessSync, NextPoll
  <1>5. DbTypeOK'
    <2> DEFINE flush == FlushTask(to_upsert_uuids_, to_remove_, dirty_aabb_)
               query == [kind |-> "query", view |-> view]
    <2>1. tasks' = tasks \o flush \o <<query>> \/ tasks' = tasks \o flush \o <<>>
      BY Zenon DEF ProcessSync
    <2>2. flush \in Seq(Flushes \cup Queries)
      <3>1. /\ to_upsert_uuids_ \in Seq(Objects) /\ to_remove_ \in SUBSET Objects
            /\ dirty_aabb_ \in SUBSET Objects
        BY DEF PendingTypeOK
      <3> HIDE DEF IndInv, TypeOK
      <3> QED BY <3>1, FlushTaskType
    <2>3. query \in Flushes \cup Queries /\ tasks \in Seq(Flushes \cup Queries)
      BY DEF Queries, EngineTypeOK, DbTypeOK
    <2> HIDE DEF flush, query
    <2>4. tasks' \in Seq(Flushes \cup Queries)
      <3>1. tasks \o flush \in Seq(Flushes \cup Queries)
        BY <2>2, <2>3
      <3>2. <<query>> \in Seq(Flushes \cup Queries) /\ <<>> \in Seq(Flushes \cup Queries)
        BY <2>3
      <3>3. tasks \o flush \o <<query>> \in Seq(Flushes \cup Queries)
        BY ONLY <3>1, <3>2
      <3>4. tasks \o flush \o <<>> \in Seq(Flushes \cup Queries)
        BY ONLY <3>1, <3>2
      <3> QED BY ONLY <2>1, <3>3, <3>4
    <2> QED BY <2>4 DEF DbTypeOK, ProcessSync
  <1> QED BY <1>1, <1>2, <1>3, <1>4, <1>5

\* Mounting a node of a registered object keeps its parent.
LEMMA MountStep ==
  ASSUME IndInv, NEW u \in DOMAIN registry_, NEW n \in Nodes, Mount(u, n),
         UNCHANGED <<registry_order, children_map_>>
  PROVE  EntriesTypeOK' /\ ChildrenMapExact' /\ DOMAIN registry_' = DOMAIN registry_
  <1> USE DEF IndInv, TypeOK
  <1>1. CASE ~hooked
    BY <1>1, EntriesFrame DEF Mount, entries
  <1>2. CASE hooked
    <2> DEFINE e == [parent |-> registry_[u].parent, node |-> n]
    <2>1. registry_ \in [DOMAIN registry_ -> Entry] /\ e \in Entry
      BY DEF EntriesTypeOK, Entry
    <2>2. registry_' = [x \in DOMAIN registry_ |-> IF x = u THEN e ELSE registry_[x]]
      <3>1. registry_' = [x \in DOMAIN registry_ \cup {u} |-> IF x = u THEN e ELSE registry_[x]]
        BY <1>2 DEF Mount, With
      <3>2. DOMAIN registry_ \cup {u} = DOMAIN registry_
        OBVIOUS
      <3> QED BY <3>1, <3>2
    <2>3. e.parent = registry_[u].parent
      OBVIOUS
    <2> HIDE DEF e
    <2>4. /\ DOMAIN registry_' = DOMAIN registry_
          /\ registry_' \in [DOMAIN registry_' -> Entry]
          /\ \A x \in DOMAIN registry_ : registry_'[x].parent = registry_[x].parent
      BY ONLY <2>1, <2>2, <2>3
    <2>5. EntriesTypeOK'
      BY <2>4 DEF EntriesTypeOK
    <2>6. ChildrenMapExact'
      <3>1. ASSUME NEW p \in Objects
            PROVE  {x \in DOMAIN registry_' : registry_'[x].parent = p}
                     = {x \in DOMAIN registry_ : registry_[x].parent = p}
        BY <2>4
      <3> QED BY <3>1 DEF ChildrenMapExact, ChildrenOf
    <2> QED BY <2>4, <2>5, <2>6
  <1> QED BY <1>1, <1>2

\* LoadNext mounts at most one node.
LEMMA LoadNextStep ==
  ASSUME IndInv, LoadNext
  PROVE  IndInv'
  <1> USE DEF IndInv, TypeOK
  <1> DEFINE u == Head(load_queue_)
  <1>1. /\ u \in Objects /\ load_queue_' \in Seq(Objects)
        /\ loads' \in 0..MaxLoadsPerFrame
    BY ConstantsAssumption DEF LoadNext, QueuesTypeOK
  <1>2. \/ UNCHANGED <<registry_, where>>
        \/ \E n \in Nodes : u \in DOMAIN registry_ /\ Mount(u, n)
    <2>1. CASE NoLoad(u)
      BY <2>1 DEF LoadNext
    <2>2. CASE ~NoLoad(u)
      <3>1. u \in DOMAIN registry_
        BY <2>2 DEF NoLoad
      <3>2. CASE node_cache_[u] # NoNode
        <4>1. Mount(u, node_cache_[u])
          BY <2>2, <3>2 DEF LoadNext
        <4>2. node_cache_[u] \in Nodes
          BY <1>1, <3>2 DEF CacheTypeOK
        <4> QED BY <3>1, <4>1, <4>2
      <3>3. CASE node_cache_[u] = NoNode /\ u \in scene_cache_
        <4>1. \/ UNCHANGED <<where, registry_>>
              \/ \E i \in 1..MaxInst : Mount(u, <<u, i>>)
          BY <2>2, <3>3 DEF LoadNext
        <4>2. \A i \in 1..MaxInst : <<u, i>> \in Nodes
          BY <1>1 DEF Nodes
        <4> QED BY <3>1, <4>1, <4>2
      <3>4. CASE node_cache_[u] = NoNode /\ u \notin scene_cache_
        BY <2>2, <3>4 DEF LoadNext
      <3> QED BY <3>2, <3>3, <3>4
    <2> QED BY <2>1, <2>2
  <1>3. \/ UNCHANGED node_cache_ \/ node_cache_' = Popped(u)
    BY DEF LoadNext
  <1>4. \/ UNCHANGED loading
        \/ \E l \in {"progress", "failed"} : loading' = [loading EXCEPT ![u] = l]
    BY DEF LoadNext, request_scene
  <1>5. \/ UNCHANGED failed \/ failed' = failed \ {u}
    BY DEF LoadNext, request_scene
  <1>6. \/ UNCHANGED loaded_queue_ \/ loaded_queue_' = Append(loaded_queue_, u)
    BY DEF LoadNext
  <1>7. /\ UNCHANGED <<attached, hooked, cell, view, born, ops, registry_order,
                       children_map_, pending, query_process, pc, scene_cache_,
                       files, saves, db>>
    BY DEF LoadNext
  <1> HIDE DEF u
  <1>8. EntriesTypeOK' /\ ChildrenMapExact' /\ DOMAIN registry_' = DOMAIN registry_
    <2>1. CASE UNCHANGED <<registry_, where>>
      BY <2>1, <1>7, EntriesFrame DEF entries
    <2>2. ASSUME NEW n \in Nodes, u \in DOMAIN registry_, Mount(u, n)
          PROVE  EntriesTypeOK' /\ ChildrenMapExact' /\ DOMAIN registry_' = DOMAIN registry_
      <3>1. UNCHANGED <<registry_order, children_map_>>
        BY <1>7
      <3> HIDE DEF IndInv, TypeOK
      <3> QED BY <2>2, <3>1, MountStep
    <2> QED BY <1>2, <2>1, <2>2
  <1>9. EngineTypeOK'
    <2>1. where' \in [Nodes -> NodeStates]
      BY <1>2 DEF Mount, EngineTypeOK, NodeStates
    <2> QED BY <1>7, <2>1 DEF EngineTypeOK
  <1>10. PendingTypeOK' /\ SyncSetsRegistered'
    BY <1>7, <1>8, PendingFrame, SyncSets, SyncSetsNext DEF pending
  <1>11. QueuesTypeOK'
    BY <1>1, <1>6 DEF QueuesTypeOK
  <1>12. ControlTypeOK' /\ DbTypeOK'
    BY <1>7, ControlFrame, DbFrame
  <1>13. CacheTypeOK'
    BY <1>1, <1>3, <1>4, <1>5, <1>7 DEF CacheTypeOK, Popped
  <1> QED BY <1>8, <1>9, <1>10, <1>11, <1>12, <1>13

-----------------------------------------------------------------------------
(* A query result.                                                         *)

\* registry_ after the unloading, and after the merge.
LEMMA MergedFacts ==
  ASSUME EntriesTypeOK, NEW result \in Results, NEW order
  PROVE  /\ DOMAIN Merged(result, order) \subseteq Objects
         /\ Merged(result, order) \in [DOMAIN Merged(result, order) -> Entry]
         /\ DOMAIN registry_ \ ToUnload(result) \subseteq DOMAIN Merged(result, order)
  <1> DEFINE kept == Remaining(result, order)
  <1>1. DOMAIN result \subseteq Objects /\ result \in [DOMAIN result -> Objects \cup {Nil}]
    BY MapFacts DEF Results
  <1>2. DOMAIN kept = (DOMAIN registry_ \ ToUnload(result)) \cup Recreated(order)
    BY DEF Remaining
  <1>3. DOMAIN kept \subseteq Objects
    BY <1>2 DEF Recreated, EntriesTypeOK
  <1>4. ASSUME NEW u \in DOMAIN kept
        PROVE  kept[u].parent \in Objects \cup {Nil} /\ kept[u].node \in Nodes \cup {NoNode}
    <2>1. CASE u \in Recreated(order)
      BY <1>2, <2>1 DEF Remaining
    <2>2. CASE u \notin Recreated(order)
      BY <1>2, <2>2 DEF Remaining, EntriesTypeOK, Entry
    <2> QED BY <2>1, <2>2
  <1>5. Merged(result, order) =
          [u \in DOMAIN kept \cup DOMAIN result |->
            [parent |-> IF u \in DOMAIN result THEN result[u] ELSE kept[u].parent,
             node   |-> IF u \in DOMAIN kept THEN kept[u].node ELSE NoNode]]
    BY DEF Merged
  <1> HIDE DEF kept
  <1>6. DOMAIN Merged(result, order) = DOMAIN kept \cup DOMAIN result
    BY <1>5
  <1>7. ASSUME NEW u \in DOMAIN kept \cup DOMAIN result
        PROVE  Merged(result, order)[u] \in Entry
    BY <1>1, <1>4, <1>5 DEF Entry
  <1> QED BY <1>1, <1>2, <1>3, <1>5, <1>6, <1>7

\* RunCallback rebuilds children_map_, and what it unloads no longer waits to
\* be synchronised.
LEMMA RunCallbackStep ==
  ASSUME IndInv, RunCallback
  PROVE  IndInv'
  <1> USE DEF IndInv, TypeOK
  <1> DEFINE result == Head(local)
             unloaded == Unloaded(result)
             exiting == {u \in unloaded : where[registry_[u].node] = "child"
                                            /\ attached /\ hooked}
  <1>1. result \in Results /\ local' \in Seq(Results)
    BY DEF RunCallback, DbTypeOK
  <1>2. PICK order \in Orders(ToUnload(result)) :
          /\ registry_' = Merged(result, order)
          /\ children_map_' = ChildrenOf(Merged(result, order))
          /\ registry_order' \in Orders(DOMAIN Merged(result, order))
          /\ \E roots \in Orders({u \in DOMAIN Merged(result, order) :
                                    ToLoad(Merged(result, order)[u])}) :
                load_queue_' = load_queue_ \o roots
          /\ where' = [n \in Nodes |->
                         IF where[n] = "child" /\ \E u \in unloaded : registry_[u].node = n
                           THEN "cached" ELSE where[n]]
          /\ node_cache_' = [u \in Objects |->
                               IF u \in unloaded THEN registry_[u].node ELSE node_cache_[u]]
          /\ saves' = saves \cup exiting
          /\ dirty_aabb_' = EraseDirty(ToUnload(result)) \ exiting
          /\ to_upsert_uuids_' \in ErasedFrom(to_upsert_uuids_, order)
    BY Zenon DEF RunCallback, _on_query_result, OrderOf
  <1>3. UNCHANGED <<attached, hooked, cell, view, born, ops, object_removal_,
                    to_remove_, loaded_queue_, loads, query_process, pc,
                    scene_cache_, loading, failed, files, rows, tasks, completed>>
    BY DEF RunCallback
  <1>4. unloaded \subseteq DOMAIN registry_ /\ exiting \subseteq unloaded
    BY DEF Unloaded, Live
  <1>5. /\ DOMAIN registry_ \subseteq Objects
        /\ registry_ \in [DOMAIN registry_ -> Entry]
        /\ ToUnload(result) \subseteq Objects
    BY DEF EntriesTypeOK, ToUnload
  <1> HIDE DEF result, unloaded, exiting
  <1> DEFINE merged == Merged(result, order)
  <1>6. /\ DOMAIN merged \subseteq Objects
        /\ merged \in [DOMAIN merged -> Entry]
        /\ DOMAIN registry_ \ ToUnload(result) \subseteq DOMAIN merged
    BY <1>1, MergedFacts
  <1> HIDE DEF merged
  <1>7. registry_' = merged /\ children_map_' = ChildrenOf(merged)
    BY <1>2 DEF merged
  <1>8. EntriesTypeOK' /\ ChildrenMapExact'
    <2>1. registry_order' \in Orders(DOMAIN registry_')
      BY <1>2
    <2>2. children_map_' \in [Objects -> SUBSET Objects]
      BY <1>6, <1>7 DEF ChildrenOf
    <2> QED BY <1>6, <1>7, <2>1, <2>2 DEF EntriesTypeOK, ChildrenMapExact, ChildrenOf
  <1>9. /\ to_upsert_uuids_' \in Seq(Objects)
        /\ Elements(to_upsert_uuids_') = Elements(to_upsert_uuids_) \ ToUnload(result)
    <2>1. to_upsert_uuids_ \in Seq(Objects) /\ ToUnload(result) \in SUBSET Objects
      BY <1>5 DEF PendingTypeOK
    <2>2. to_upsert_uuids_' \in ErasedFrom(to_upsert_uuids_, order)
      BY <1>2
    <2> QED BY ONLY <2>1, <2>2, order \in Orders(ToUnload(result)), ErasedFacts
  <1>10. dirty_aabb_' \subseteq dirty_aabb_ \ ToUnload(result)
    BY <1>2 DEF EraseDirty
  <1>11. SyncSetsRegistered'
    BY <1>6, <1>7, <1>9, <1>10, SyncSets, SyncSetsNext
  <1>12. PendingTypeOK'
    BY <1>3, <1>9, <1>10 DEF PendingTypeOK
  <1>13. QueuesTypeOK'
    <2> DEFINE R == {u \in DOMAIN merged : ToLoad(merged[u])}
    <2>1. PICK roots \in Orders(R) : load_queue_' = load_queue_ \o roots
      BY <1>2 DEF merged
    <2>2. R \in SUBSET Objects
      BY <1>6
    <2> HIDE DEF R
    <2>3. roots \in Seq(Objects)
      BY <2>1, <2>2, OrderFacts
    <2> QED BY <1>3, <2>1, <2>3 DEF QueuesTypeOK
  <1>14. EngineTypeOK'
    BY <1>2, <1>3 DEF EngineTypeOK, NodeStates
  <1>15. ControlTypeOK'
    BY <1>3, ControlFrame
  <1>16. CacheTypeOK'
    <2>1. \A u \in unloaded : registry_[u].node \in Nodes \cup {NoNode}
      BY <1>4, <1>5 DEF Entry
    <2>2. node_cache_' \in [Objects -> Nodes \cup {NoNode}]
      BY <1>2, <2>1 DEF CacheTypeOK
    <2>3. saves' \subseteq Objects
      BY <1>2, <1>4, <1>5 DEF CacheTypeOK
    <2> QED BY <1>3, <2>2, <2>3 DEF CacheTypeOK
  <1>17. DbTypeOK'
    BY <1>1, <1>3 DEF DbTypeOK
  <1> QED BY <1>8, <1>11, <1>12, <1>13, <1>14, <1>15, <1>16, <1>17

-----------------------------------------------------------------------------
(* The theorems.                                                           *)

\* Every step of the system keeps the invariant, one lemma per action.
THEOREM Invariance == Safety => []IndInv
  <1>1. Init => IndInv
    BY InvInit
  <1>2. IndInv /\ [Next]_vars => IndInv'
    <2> SUFFICES ASSUME IndInv, [Next]_vars PROVE IndInv'
      OBVIOUS
    <2>1. CASE UserStep
      BY <2>1, AddStep, RemoveStep, ReAddStep, QueueFreeStep, MoveStep, ViewStep,
         ExitTreeStep DEF UserStep
    <2>2. CASE FrameStep
      BY <2>2, QuietStep, RunCallbackStep, ProcessRemoveStep, ProcessSyncStep,
         LoadNextStep DEF FrameStep
    <2>3. CASE ThreadStep
      BY <2>3, DbStepInv, QuietStep DEF ThreadStep, FileStep
    <2>4. CASE UNCHANGED vars
      <3> USE DEF IndInv, TypeOK
      <3>1. /\ UNCHANGED engine /\ UNCHANGED entries /\ UNCHANGED pending
            /\ UNCHANGED queues /\ UNCHANGED cache /\ UNCHANGED db
            /\ UNCHANGED <<ops, query_process, pc>>
        BY <2>4 DEF vars
      <3>2. SyncSetsRegistered'
        BY <3>1, SyncFrame DEF entries, pending
      <3> QED BY <3>1, <3>2, EngineFrame, EntriesFrame, PendingFrame, QueuesFrame,
                 ControlFrame, CacheFrame, DbFrame
    <2> QED BY <2>1, <2>2, <2>3, <2>4 DEF Next
  <1> QED BY <1>1, <1>2, PTL DEF Safety

\* The types of all variables: in particular registry_order always lists each
\* registered object once and the poll counter stays below its period.
THEOREM TypeCorrect == Safety => []TypeOK
  <1>1. IndInv => TypeOK
    BY DEF IndInv
  <1> QED BY <1>1, Invariance, PTL

\* _flush_pending_db_ops never meets a pending uuid that is not registered.
THEOREM PendingRegistered == Safety => []SyncSetsRegistered
  <1>1. IndInv => SyncSetsRegistered
    BY DEF IndInv
  <1> QED BY <1>1, Invariance, PTL

\* children_map_ is the inverse of parent_uuid whatever is added, deleted,
\* loaded, unloaded or merged from the database, so _collect_descendants
\* follows the registered families exactly.
THEOREM ChildrenFollowParents == Safety => []ChildrenMapExact
  <1>1. IndInv => ChildrenMapExact
    BY DEF IndInv
  <1> QED BY <1>1, Invariance, PTL

-----------------------------------------------------------------------------
(* Who is in the tree.  The registry knows the children of the manager as  *)
(* long as the user does not add a removed node again.  The proof follows  *)
(* every parent_uuid through the rows, the tasks and the results: a root   *)
(* is below no other object wherever it is written down, so neither a      *)
(* deletion nor an unloading of somebody else reaches it.                  *)

\* What the database reports about the objects in B: no other objects, and no
\* parents but their own.
KnownMaps(B) ==
    {f \in Results : \A u \in DOMAIN f : u \in B /\ f[u] \in {Nil, Parent[u]}}
KnownTasks(B) ==
    {t \in Flushes \cup Queries : t.kind = "flush" => t.parent \in KnownMaps(B)}
KnownRows(r, B) == \A u \in DOMAIN r : u \in B /\ r[u].parent \in {Nil, Parent[u]}

\* An object that has not been added has no node.
FreshNodes == \A n \in Nodes : Uuid(n) \notin born => where[n] = "none"

\* The manager's entries, and what the database and its thread know.
OwnEntries == object_removal_ \subseteq born /\ KnownRows(registry_, born)
OwnData ==
    /\ KnownRows(rows, born)
    /\ tasks \in Seq(KnownTasks(born))
    /\ completed \in Seq(KnownMaps(born)) /\ local \in Seq(KnownMaps(born))

\* An entry and a cache slot hold a node of their own object that was once
\* instantiated; the cached one is out of the tree.
OwnNodes ==
    \A u \in DOMAIN registry_ :
        registry_[u].node # NoNode =>
            Uuid(registry_[u].node) = u /\ where[registry_[u].node] # "none"
OwnCached ==
    \A u \in Objects :
        node_cache_[u] # NoNode =>
            Uuid(node_cache_[u]) = u /\ where[node_cache_[u]] \in {"cached", "held"}

\* A root that is to be deleted has left the tree; no deletion is pending
\* while nodes are mounted.
RemovalsOut ==
    /\ pc \in {"sync", "update", "load"} => object_removal_ = {}
    /\ hooked => \A n \in Nodes :
         where[n] = "child" /\ Parent[Uuid(n)] = Nil => Uuid(n) \notin object_removal_

TreeInv ==
    /\ FreshNodes /\ OwnEntries /\ OwnData /\ OwnNodes /\ OwnCached
    /\ RemovalsOut /\ ChildrenRegistered

\* The parts that nodes, entries and the cache take part in.
NodesInv == FreshNodes /\ OwnEntries /\ OwnNodes /\ OwnCached /\ ChildrenRegistered

\* Nodes only leave the tree.
Leaving ==
    \A n \in Nodes : \/ where'[n] = where[n]
                     \/ where[n] = "child" /\ where'[n] \in {"held", "cached", "freed"}

\* A sequence over a set is one over a larger set.
LEMMA SeqWiden ==
  ASSUME NEW S, NEW T, S \subseteq T, NEW s \in Seq(S) PROVE s \in Seq(T)
  <1>1. s \in [1..Len(s) -> S] /\ Len(s) \in Nat
    OBVIOUS
  <1>2. s \in [1..Len(s) -> T]
    BY <1>1
  <1> QED BY <1>1, <1>2

\* The database's knowledge when no object is added and no datum moves.
LEMMA OwnDataFrame ==
  ASSUME OwnData, UNCHANGED born, UNCHANGED db PROVE OwnData'
  BY DEF OwnData, db

\* Steps after which nodes have at most left the tree.
LEMMA LeavingKeeps ==
  ASSUME IndInv, TreeInv, UNCHANGED <<hooked, born, registry_, node_cache_>>, Leaving,
         object_removal_' \subseteq born
  PROVE  NodesInv'
  <1> USE DEF TreeInv
  <1>1. /\ \A u \in DOMAIN registry_ : registry_[u].node \in Nodes \cup {NoNode}
        /\ \A u \in Objects : node_cache_[u] \in Nodes \cup {NoNode}
    BY DEF IndInv, TypeOK, EntriesTypeOK, CacheTypeOK, Entry
  <1>2. FreshNodes'
    BY DEF FreshNodes, Leaving
  <1>3. OwnEntries'
    BY DEF OwnEntries, KnownRows
  <1>4. OwnNodes'
    BY <1>1 DEF OwnNodes, Leaving
  <1>5. OwnCached'
    BY <1>1 DEF OwnCached, Leaving
  <1>6. ChildrenRegistered'
    BY DEF ChildrenRegistered, Leaving
  <1> QED BY <1>2, <1>3, <1>4, <1>5, <1>6 DEF NodesInv

\* Init satisfies it.
LEMMA TreeInit == ASSUME Init PROVE TreeInv
  <1> USE DEF Init
  <1>1. FreshNodes /\ OwnEntries /\ OwnNodes /\ OwnCached /\ RemovalsOut /\ ChildrenRegistered
    BY DEF FreshNodes, OwnEntries, KnownRows, OwnNodes, OwnCached, RemovalsOut,
           ChildrenRegistered
  <1>2. OwnData
    BY DEF OwnData, KnownRows
  <1> QED BY <1>1, <1>2 DEF TreeInv

\* Add: the new node is the only one of its object, and the object is new to
\* entries, deletions, cache and database.
LEMMA AddTree ==
  ASSUME IndInv, TreeInv, NEW u \in Objects, NEW c \in Cells, Add(u, c)
  PROVE  TreeInv'
  <1> DEFINE n0 == <<u, 1>>
  <1>1. n0 \in Nodes /\ Uuid(n0) = u /\ n0 # NoNode
    BY ConstantsAssumption DEF Nodes
  <1>2. /\ u \notin born /\ u \notin DOMAIN registry_ /\ born' = born \cup {u}
        /\ where' = [where EXCEPT ![n0] = "child"]
        /\ UNCHANGED <<hooked, pc, node_cache_, object_removal_, rows, tasks, completed, local>>
    BY DEF Add, User, Counted, db
  <1>3. where \in [Nodes -> NodeStates]
    BY DEF IndInv, TypeOK, EngineTypeOK
  <1>4. \A m \in Nodes : Uuid(m) = u => where[m] = "none"
    BY <1>2 DEF TreeInv, FreshNodes
  <1>5. /\ registry_ \in [DOMAIN registry_ -> Entry]
        /\ node_cache_ \in [Objects -> Nodes \cup {NoNode}]
    BY DEF IndInv, TypeOK, EntriesTypeOK, CacheTypeOK
  <1>6. \/ UNCHANGED registry_ /\ ~hooked
        \/ /\ DOMAIN registry_' = DOMAIN registry_ \cup {u}
           /\ registry_'[u] = [parent |-> Parent[u], node |-> n0]
           /\ \A x \in DOMAIN registry_ : registry_'[x] = registry_[x]
    BY <1>2 DEF Add, With, entries
  <1>7. FreshNodes'
    BY <1>1, <1>2, <1>3 DEF TreeInv, FreshNodes
  <1>8. OwnEntries'
    BY <1>2, <1>6 DEF TreeInv, OwnEntries, KnownRows
  <1>9. OwnData'
    <2>1. KnownMaps(born) \subseteq KnownMaps(born')
      BY <1>2 DEF KnownMaps
    <2>2. KnownTasks(born) \subseteq KnownTasks(born')
      BY <2>1 DEF KnownTasks
    <2>3. tasks \in Seq(KnownTasks(born')) /\ completed \in Seq(KnownMaps(born'))
          /\ local \in Seq(KnownMaps(born'))
      BY <2>1, <2>2, SeqWiden DEF TreeInv, OwnData
    <2>4. KnownRows(rows, born')
      BY <1>2 DEF TreeInv, OwnData, KnownRows
    <2> QED BY <1>2, <2>3, <2>4 DEF OwnData
  <1>10. OwnNodes'
    <2> SUFFICES ASSUME NEW x \in DOMAIN registry_', registry_'[x].node # NoNode
                 PROVE  Uuid(registry_'[x].node) = x /\ where'[registry_'[x].node] # "none"
      BY DEF OwnNodes
    <2>1. CASE x = u /\ x \notin DOMAIN registry_
      BY <1>1, <1>2, <1>3, <1>6, <2>1
    <2>2. CASE x \in DOMAIN registry_
      <3>1. registry_'[x] = registry_[x] /\ registry_[x].node \in Nodes
        BY <1>5, <1>6, <2>2 DEF Entry
      <3> QED BY <1>2, <1>3, <2>2, <3>1 DEF TreeInv, OwnNodes
    <2> QED BY <1>6, <2>1, <2>2
  <1>11. OwnCached'
    <2> SUFFICES ASSUME NEW x \in Objects, node_cache_[x] # NoNode
                 PROVE  Uuid(node_cache_[x]) = x /\ where'[node_cache_[x]] \in {"cached", "held"}
      BY <1>2 DEF OwnCached
    <2>1. /\ node_cache_[x] \in Nodes /\ Uuid(node_cache_[x]) = x
          /\ where[node_cache_[x]] \in {"cached", "held"}
      BY <1>5 DEF TreeInv, OwnCached
    <2>2. node_cache_[x] # n0
      BY <1>1, <1>4, <2>1
    <2> QED BY <1>2, <1>3, <2>1, <2>2
  <1>12. RemovalsOut'
    <2>1. u \notin object_removal_
      BY <1>2 DEF TreeInv, OwnEntries
    <2> QED BY <1>1, <1>2, <1>3, <2>1 DEF TreeInv, RemovalsOut
  <1>13. ChildrenRegistered'
    <2> SUFFICES ASSUME hooked, NEW m \in Nodes, where'[m] = "child", Parent[Uuid(m)] = Nil
                 PROVE  Uuid(m) \in DOMAIN registry_' /\ registry_'[Uuid(m)].node = m
      BY <1>2 DEF ChildrenRegistered
    <2>1. CASE m = n0
      BY <1>1, <1>6, <2>1
    <2>2. CASE m # n0
      <3>1. where[m] = "child"
        BY <1>2, <1>3, <2>2
      <3>2. Uuid(m) \in DOMAIN registry_ /\ registry_[Uuid(m)].node = m
        BY <3>1 DEF TreeInv, ChildrenRegistered
      <3> QED BY <1>6, <3>2
    <2> QED BY <2>1, <2>2
  <1> QED BY <1>7, <1>8, <1>9, <1>10, <1>11, <1>12, <1>13 DEF TreeInv

\* Remove: the node that leaves is the only one a root has in the tree.
LEMMA RemoveTree ==
  ASSUME IndInv, TreeInv, NEW n \in Nodes, Remove(n)
  PROVE  TreeInv'
  <1>1. /\ pc = "user" /\ where[n] = "child"
        /\ where' = [where EXCEPT ![n] = "held"]
        /\ object_removal_' = IF hooked THEN object_removal_ \cup {Uuid(n)} ELSE object_removal_
        /\ UNCHANGED <<hooked, born, registry_, node_cache_, pc>> /\ UNCHANGED db
    BY DEF Remove, User, Counted, entries
  <1>2. where \in [Nodes -> NodeStates]
    BY DEF IndInv, TypeOK, EngineTypeOK
  <1>3. Leaving
    BY <1>1, <1>2 DEF Leaving
  <1>4. object_removal_' \subseteq born
    BY <1>1 DEF TreeInv, OwnEntries, FreshNodes
  <1>5. NodesInv'
    BY <1>1, <1>3, <1>4, LeavingKeeps
  <1>6. RemovalsOut'
    <2> SUFFICES ASSUME hooked, NEW m \in Nodes, where'[m] = "child", Parent[Uuid(m)] = Nil
                 PROVE  Uuid(m) \notin object_removal_ \cup {Uuid(n)}
      BY <1>1 DEF RemovalsOut
    <2>1. where[m] = "child" /\ m # n
      BY <1>1, <1>2
    <2>2. Uuid(m) # Uuid(n)
      BY <1>1, <2>1 DEF TreeInv, ChildrenRegistered
    <2> QED BY <2>1, <2>2 DEF TreeInv, RemovalsOut
  <1> QED BY <1>1, <1>5, <1>6, OwnDataFrame DEF TreeInv, NodesInv

\* QueueFree: the node is gone.
LEMMA QueueFreeTree ==
  ASSUME IndInv, TreeInv, NEW n \in Nodes, QueueFree(n)
  PROVE  TreeInv'
  <1>1. /\ where[n] = "child"
        /\ where' = [where EXCEPT ![n] = "freed"]
        /\ UNCHANGED <<hooked, born, registry_, node_cache_, pc, object_removal_>>
        /\ UNCHANGED db
    BY DEF QueueFree, User, Counted, entries
  <1>2. where \in [Nodes -> NodeStates]
    BY DEF IndInv, TypeOK, EngineTypeOK
  <1>3. Leaving
    BY <1>1, <1>2 DEF Leaving
  <1>4. NodesInv'
    BY <1>1, <1>3, LeavingKeeps DEF TreeInv, OwnEntries
  <1>5. RemovalsOut'
    BY <1>1, <1>2 DEF TreeInv, RemovalsOut
  <1> QED BY <1>1, <1>4, <1>5, OwnDataFrame DEF TreeInv, NodesInv

\* A flush carries the parents the registry holds.
LEMMA FlushTaskKnown ==
  ASSUME IndInv, TreeInv, NEW upserts \in Seq(Objects), NEW removes \in SUBSET Objects,
         NEW dirty \in SUBSET Objects
  PROVE  FlushTask(upserts, removes, dirty) \in Seq(KnownTasks(born))
  <1> DEFINE known == Elements(upserts) \cap DOMAIN registry_
             par == [u \in known |-> registry_[u].parent]
             nodes == {u \in dirty \cap DOMAIN registry_ :
                          /\ registry_[u].node # NoNode
                          /\ where[registry_[u].node] = "child"}
             t0 == [kind |-> "flush", upsert |-> upserts, parent |-> par,
                    remove |-> removes, dirty |-> [u \in nodes |-> {cell[u]}]]
             F == FlushTask(upserts, removes, dirty)
  <1>1. F \in Seq(Flushes \cup Queries)
    BY FlushTaskType
  <1>2. (F = <<>> \/ F = <<t0>>) /\ t0.parent = par
    <2>1. F = IF known = {} /\ removes = {} /\ nodes = {} THEN <<>> ELSE <<t0>>
      BY DEF FlushTask
    <2> HIDE DEF F, known, nodes
    <2> QED BY <2>1
  <1>3. \A u \in known : u \in born /\ par[u] \in {Nil, Parent[u]}
    BY DEF TreeInv, OwnEntries, KnownRows
  <1>4. DOMAIN par = known
    OBVIOUS
  <1> HIDE DEF known, par, nodes, t0, F
  <1>5. CASE F = <<>>
    BY <1>5 DEF F
  <1>6. ASSUME NEW t, F = <<t>>, t.parent = par PROVE F \in Seq(KnownTasks(born))
    <2>1. t \in Flushes \cup Queries
      <3>1. F[1] = t /\ Len(F) = 1
        BY <1>6
      <3>2. F[1] \in Flushes \cup Queries
        BY <1>1, <3>1
      <3> QED BY <3>1, <3>2
    <2>2. t.kind = "flush" => t.parent \in Results
      BY <2>1 DEF Flushes, Queries
    <2>3. t \in KnownTasks(born)
      BY <1>3, <1>4, <1>6, <2>1, <2>2 DEF KnownTasks, KnownMaps
    <2> QED BY <1>6, <2>3
  <1> QED BY <1>2, <1>5, <1>6 DEF F

\* Move, Look, ExitTree and EnterTree mount and take out no node.
LEMMA OtherUserTree ==
  ASSUME IndInv, TreeInv,
         \/ \E n \in Nodes, c \in Cells : Move(n, c)
         \/ \E v \in SUBSET Cells : Look(v)
         \/ EnterTree
  PROVE  TreeInv'
  <1>1. /\ UNCHANGED <<where, hooked, born, registry_, node_cache_, pc, object_removal_>>
        /\ UNCHANGED db
    BY DEF Move, Look, EnterTree, User, Counted, entries, pending
  <1>2. NodesInv'
    BY <1>1, LeavingKeeps DEF TreeInv, OwnEntries, Leaving
  <1>3. RemovalsOut'
    BY <1>1 DEF TreeInv, RemovalsOut
  <1> QED BY <1>1, <1>2, <1>3, OwnDataFrame DEF TreeInv, NodesInv

\* ExitTree disconnects the manager and flushes the pending deletions.
LEMMA ExitTreeTree ==
  ASSUME IndInv, TreeInv, ExitTree
  PROVE  TreeInv'
  <1>1. /\ hooked' = FALSE /\ pc = "user" /\ object_removal_' = {}
        /\ tasks' = tasks \o FlushTask(<<>>, to_remove_, {})
        /\ UNCHANGED <<where, born, registry_, node_cache_, pc, rows, completed, local>>
    BY DEF ExitTree, entries, cache
  <1>2. FreshNodes' /\ OwnEntries' /\ OwnNodes' /\ OwnCached' /\ RemovalsOut'
        /\ ChildrenRegistered'
    BY <1>1 DEF TreeInv, FreshNodes, OwnEntries, KnownRows, OwnNodes, OwnCached,
                RemovalsOut, ChildrenRegistered
  <1>3. FlushTask(<<>>, to_remove_, {}) \in Seq(KnownTasks(born))
    <2>1. <<>> \in Seq(Objects) /\ to_remove_ \in SUBSET Objects /\ {} \in SUBSET Objects
      BY DEF IndInv, TypeOK, PendingTypeOK
    <2> QED BY <2>1, FlushTaskKnown
  <1>4. OwnData'
    <2>1. tasks \in Seq(KnownTasks(born))
      BY DEF TreeInv, OwnData
    <2>2. tasks' \in Seq(KnownTasks(born))
      BY ONLY <1>1, <1>3, <2>1
    <2> QED BY <1>1, <2>2 DEF TreeInv, OwnData
  <1> QED BY <1>2, <1>4 DEF TreeInv

\* Deletion leaves the remaining rows as they are,
LEMMA DeleteRowsKnown ==
  ASSUME NEW B, NEW r, KnownRows(r, B), NEW removes
  PROVE  KnownRows(DeleteRows(r, removes), B)
  BY DEF KnownRows, DeleteRows, Without

\* an upsert writes the parents of the task,
LEMMA UpsertRowsKnown ==
  ASSUME NEW B, NEW r, KnownRows(r, B), NEW t, t.parent \in KnownMaps(B)
  PROVE  KnownRows(UpsertRows(r, t), B)
  <1>1. PICK stored \in SUBSET DOMAIN t.parent :
          UpsertRows(r, t) =
            [u \in DOMAIN r \cup stored |->
              [parent |-> IF u \in stored THEN t.parent[u] ELSE r[u].parent,
               aabb   |-> IF u \in DOMAIN r THEN r[u].aabb ELSE {},
               chunk  |-> IF u \in DOMAIN r THEN r[u].chunk ELSE {}]]
    BY Zenon DEF UpsertRows
  <1> HIDE DEF UpsertRows
  <1> QED BY <1>1 DEF KnownRows, KnownMaps

\* and AABBs and chunks change no parent.
LEMMA SetBoxesKnown ==
  ASSUME NEW B, NEW r, Table(r), KnownRows(r, B), NEW dirty \in Maps(SUBSET Cells)
  PROVE  KnownRows(SetAabbs(r, dirty), B) /\ KnownRows(SetChunks(r, dirty), B)
  <1>1. KnownRows(SetAabbs(r, dirty), B)
    BY DEF KnownRows, SetAabbs, Table, Row
  <1>2. PICK above : SetChunks(r, dirty) =
          [u \in DOMAIN r |-> IF u \in above
                                THEN [r[u] EXCEPT !.chunk = Aggregate(r, u)] ELSE r[u]]
    BY Zenon DEF SetChunks
  <1>3. KnownRows(SetChunks(r, dirty), B)
    BY <1>2 DEF KnownRows, Table, Row
  <1> QED BY <1>1, <1>3

\* DbStep: the rows keep the parents the manager wrote, and the results
\* report them.
LEMMA DbStepTree ==
  ASSUME IndInv, TreeInv, DbStep
  PROVE  TreeInv'
  <1> DEFINE t == Head(tasks)
  <1>1. /\ UNCHANGED <<where, hooked, born, registry_, node_cache_, pc, object_removal_, local>>
        /\ tasks # <<>> /\ tasks' = Tail(tasks)
    BY DEF DbStep, engine, entries, pending, cache
  <1>2. NodesInv' /\ RemovalsOut'
    <2>1. NodesInv'
      BY <1>1, LeavingKeeps DEF TreeInv, OwnEntries, Leaving
    <2> QED BY <1>1, <2>1 DEF TreeInv, RemovalsOut
  <1>3. t \in KnownTasks(born) /\ tasks' \in Seq(KnownTasks(born))
    BY <1>1 DEF TreeInv, OwnData
  <1>4. Table(rows) /\ KnownRows(rows, born) /\ completed \in Seq(KnownMaps(born))
    BY DEF TreeInv, OwnData, IndInv, TypeOK, DbTypeOK, Table
  <1>5. CASE t.kind = "flush"
    <2>1. rows' = RunFlush(t) /\ UNCHANGED completed
      BY <1>5 DEF DbStep
    <2>2. t \in Flushes /\ t.parent \in KnownMaps(born)
      BY <1>3, <1>5 DEF KnownTasks, Queries
    <2>3. t.dirty \in Maps(SUBSET Cells)
      BY <2>2 DEF Flushes
    <2> HIDE DEF t
    <2> DEFINE r1 == DeleteRows(rows, t.remove)
               r2 == UpsertRows(r1, t)
               r3 == SetAabbs(r2, t.dirty)
    <2>4. Table(r1) /\ KnownRows(r1, born)
      BY <1>4, DeleteRowsType, DeleteRowsKnown
    <2>5. Table(r2) /\ KnownRows(r2, born)
      <3> HIDE DEF r1
      <3> QED BY <2>2, <2>4, UpsertRowsType, UpsertRowsKnown
    <2>6. Table(r3) /\ KnownRows(r3, born)
      <3> HIDE DEF r2
      <3> QED BY <2>3, <2>5, SetAabbsType, SetBoxesKnown
    <2>7. KnownRows(SetChunks(r3, t.dirty), born)
      <3> HIDE DEF r3
      <3> QED BY <2>3, <2>6, SetBoxesKnown
    <2>8. rows' = SetChunks(r3, t.dirty)
      BY <2>1 DEF RunFlush
    <2> QED BY <1>1, <1>2, <1>3, <2>1, <2>7, <2>8 DEF TreeInv, OwnData, NodesInv
  <1>6. CASE t.kind # "flush"
    <2> DEFINE Q == QueryObjects(rows, t.view)
               result == [u \in Q |-> rows[u].parent]
    <2>1. completed' = Append(completed, result) /\ UNCHANGED rows
      BY <1>6 DEF DbStep
    <2>2. Q \in SUBSET Objects /\ result \in [Q -> Objects \cup {Nil}]
      BY <1>4 DEF QueryObjects, Table, Row
    <2>3. \A u \in Q : u \in born /\ result[u] \in {Nil, Parent[u]}
      BY <1>4 DEF QueryObjects, KnownRows
    <2>4. DOMAIN result = Q
      OBVIOUS
    <2> HIDE DEF Q, result, t
    <2>5. result \in KnownMaps(born)
      BY <2>2, <2>3, <2>4, MapFacts DEF Results, KnownMaps
    <2>6. completed' \in Seq(KnownMaps(born))
      BY ONLY <1>4, <2>1, <2>5
    <2> QED BY <1>1, <1>2, <1>3, <1>4, <2>1, <2>6 DEF TreeInv, OwnData, NodesInv
  <1> QED BY <1>5, <1>6

\* FrameStart, EndCallbacks, ProcessUpdate, ProcessEnd, a finished save and a
\* finished load.
LEMMA QuietTree ==
  ASSUME IndInv, TreeInv,
         \/ FrameStart \/ EndCallbacks \/ ProcessUpdate \/ ProcessEnd
         \/ \E u \in Objects : SaveDone(u) \/ SaveFailed(u) \/ LoadDone(u)
  PROVE  TreeInv'
  <1> USE DEF FrameStart, EndCallbacks, ProcessUpdate, ProcessEnd, SaveDone, SaveFailed, LoadDone
  <1>1. /\ UNCHANGED <<where, hooked, born, registry_, node_cache_, object_removal_, rows, tasks>>
        /\ pc' \in {"update", "load", "sync"} => pc \in {"update", "load", "sync"}
        /\ \/ UNCHANGED <<completed, local>>
           \/ local' = completed /\ completed' = <<>>
    BY DEF engine, entries, pending, cache, db
  <1> HIDE DEF FrameStart, EndCallbacks, ProcessUpdate, ProcessEnd, SaveDone, SaveFailed, LoadDone
  <1>2. NodesInv'
    BY <1>1, LeavingKeeps DEF TreeInv, OwnEntries, Leaving
  <1>3. RemovalsOut'
    BY <1>1 DEF TreeInv, RemovalsOut
  <1>4. OwnData'
    <2>1. /\ KnownRows(rows, born) /\ tasks \in Seq(KnownTasks(born))
          /\ completed \in Seq(KnownMaps(born)) /\ local \in Seq(KnownMaps(born))
      BY DEF TreeInv, OwnData
    <2>2. <<>> \in Seq(KnownMaps(born))
      OBVIOUS
    <2>3. completed' \in Seq(KnownMaps(born)) /\ local' \in Seq(KnownMaps(born))
      BY <1>1, <2>1, <2>2
    <2> QED BY <1>1, <2>1, <2>3 DEF OwnData
  <1> QED BY <1>2, <1>3, <1>4 DEF TreeInv, NodesInv

\* ProcessSync pushes a flush and a query.
LEMMA ProcessSyncTree ==
  ASSUME IndInv, TreeInv, ProcessSync
  PROVE  TreeInv'
  <1> DEFINE flush == FlushTask(to_upsert_uuids_, to_remove_, dirty_aabb_)
             query == [kind |-> "query", view |-> view]
  <1>1. /\ UNCHANGED <<where, hooked, born, registry_, node_cache_, object_removal_,
                       rows, completed, local>>
        /\ pc = "sync"
    BY DEF ProcessSync, engine, entries, cache
  <1>2. NodesInv'
    BY <1>1, LeavingKeeps DEF TreeInv, OwnEntries, Leaving
  <1>3. RemovalsOut'
    BY <1>1 DEF TreeInv, RemovalsOut
  <1>4. tasks' = tasks \o flush \o <<query>> \/ tasks' = tasks \o flush \o <<>>
    BY Zenon DEF ProcessSync
  <1>5. flush \in Seq(KnownTasks(born))
    <2>1. /\ to_upsert_uuids_ \in Seq(Objects) /\ to_remove_ \in SUBSET Objects
          /\ dirty_aabb_ \in SUBSET Objects
      BY DEF IndInv, TypeOK, PendingTypeOK
    <2> QED BY <2>1, FlushTaskKnown
  <1>6. query \in KnownTasks(born) /\ tasks \in Seq(KnownTasks(born))
    BY DEF KnownTasks, Queries, TreeInv, OwnData, IndInv, TypeOK, EngineTypeOK
  <1> HIDE DEF flush, query
  <1>7. tasks' \in Seq(KnownTasks(born))
    <2>1. tasks \o flush \in Seq(KnownTasks(born))
      BY <1>5, <1>6
    <2>2. <<query>> \in Seq(KnownTasks(born)) /\ <<>> \in Seq(KnownTasks(born))
      BY <1>6
    <2>3. tasks \o flush \o <<query>> \in Seq(KnownTasks(born))
      BY ONLY <2>1, <2>2
    <2>4. tasks \o flush \o <<>> \in Seq(KnownTasks(born))
      BY ONLY <2>1, <2>2
    <2> QED BY ONLY <1>4, <2>3, <2>4
  <1> QED BY <1>1, <1>2, <1>3, <1>7 DEF TreeInv, OwnData, NodesInv

\* _collect_descendants finds registered objects, but for the root it starts
\* from.
LEMMA DescendantsRegistered ==
  ASSUME IndInv, NEW u \in Objects, NEW x \in _collect_descendants(u)
  PROVE  x = u \/ x \in DOMAIN registry_
  <1> DEFINE S == {u} \cup DOMAIN registry_
  <1>1. S \in SUBSET Objects
    BY DEF IndInv, TypeOK, EntriesTypeOK
  <1>2. \A p \in S : children_map_[p] \subseteq S
    BY <1>1 DEF IndInv, ChildrenMapExact, ChildrenOf
  <1>3. x \in S
    BY <1>1, <1>2 DEF _collect_descendants
  <1> QED BY <1>3

\* Nobody has a root among its descendants but the root itself.
LEMMA RootOnTop ==
  ASSUME IndInv, OwnEntries, NEW r \in Objects, Parent[r] = Nil,
         NEW u \in Objects, r \in _collect_descendants(u)
  PROVE  u = r
  <1> SUFFICES ASSUME u # r PROVE FALSE
    OBVIOUS
  <1> DEFINE S == Objects \ {r}
  <1>1. ASSUME NEW p \in S PROVE children_map_[p] \subseteq S
    <2>1. children_map_[p] = {x \in DOMAIN registry_ : registry_[x].parent = p}
      BY DEF IndInv, ChildrenMapExact, ChildrenOf
    <2>2. DOMAIN registry_ \subseteq Objects
      BY DEF IndInv, TypeOK, EntriesTypeOK
    <2>3. r \in DOMAIN registry_ => registry_[r].parent = Nil
      BY DEF OwnEntries, KnownRows
    <2> QED BY <2>1, <2>2, <2>3, ConstantsAssumption
  <1>2. S \in SUBSET Objects /\ u \in S /\ r \notin S
    OBVIOUS
  <1> QED BY <1>1, <1>2 DEF _collect_descendants

\* ProcessRemove: the roots it unregisters have left the tree.
LEMMA ProcessRemoveTree ==
  ASSUME IndInv, TreeInv, ProcessRemove
  PROVE  TreeInv'
  <1> DEFINE gone == UNION {_collect_descendants(u) : u \in object_removal_}
             deleted == gone \cap DOMAIN registry_
  <1>1. /\ registry_' = Without(registry_, deleted)
        /\ object_removal_' = {}
        /\ UNCHANGED <<where, hooked, born, node_cache_>> /\ UNCHANGED db
    BY DEF ProcessRemove, engine
  <1>2. ASSUME NEW u \in deleted, Parent[u] = Nil PROVE u \in object_removal_
    <2>1. u \in Objects /\ object_removal_ \subseteq Objects
      BY DEF IndInv, TypeOK, EntriesTypeOK, PendingTypeOK
    <2>2. PICK x \in object_removal_ : u \in _collect_descendants(x)
      BY <1>2
    <2>3. x = u
      BY <1>2, <2>1, <2>2, RootOnTop DEF TreeInv
    <2> QED BY <2>3
  <1> HIDE DEF gone, deleted
  <1>3. /\ DOMAIN registry_' = DOMAIN registry_ \ deleted
        /\ \A x \in DOMAIN registry_' : registry_'[x] = registry_[x]
    BY <1>1 DEF Without
  <1>4. FreshNodes' /\ OwnEntries' /\ OwnNodes' /\ OwnCached'
    BY <1>1, <1>3 DEF TreeInv, FreshNodes, OwnEntries, KnownRows, OwnNodes, OwnCached
  <1>5. RemovalsOut'
    BY <1>1 DEF RemovalsOut
  <1>6. ChildrenRegistered'
    BY <1>1, <1>2, <1>3 DEF TreeInv, ChildrenRegistered, RemovalsOut
  <1> QED BY <1>1, <1>4, <1>5, <1>6, OwnDataFrame DEF TreeInv

\* Mounting a node of a registered object without a node, which leaves the
\* cache on the way.
LEMMA MountTree ==
  ASSUME IndInv, TreeInv, pc = "load", NEW u \in DOMAIN registry_, registry_[u].node = NoNode,
         NEW n \in Nodes, Uuid(n) = u, Mount(u, n),
         node_cache_' = [node_cache_ EXCEPT ![u] = NoNode],
         UNCHANGED <<hooked, born, object_removal_, pc>>, UNCHANGED db
  PROVE  TreeInv'
  <1>1. where' = [where EXCEPT ![n] = "child"] /\ where \in [Nodes -> NodeStates]
    BY DEF Mount, IndInv, TypeOK, EngineTypeOK
  <1>2. /\ registry_ \in [DOMAIN registry_ -> Entry] /\ u \in Objects
        /\ node_cache_ \in [Objects -> Nodes \cup {NoNode}]
    BY DEF IndInv, TypeOK, EntriesTypeOK, CacheTypeOK
  <1>3. u \in born /\ object_removal_ = {}
    BY DEF TreeInv, OwnEntries, KnownRows, RemovalsOut
  <1>4. \/ UNCHANGED registry_ /\ ~hooked
        \/ /\ DOMAIN registry_' = DOMAIN registry_
           /\ registry_'[u] = [parent |-> registry_[u].parent, node |-> n]
           /\ \A x \in DOMAIN registry_ \ {u} : registry_'[x] = registry_[x]
    BY DEF Mount, With
  <1>5. FreshNodes'
    BY <1>1, <1>3 DEF TreeInv, FreshNodes
  <1>6. OwnEntries'
    BY <1>4 DEF TreeInv, OwnEntries, KnownRows
  <1>7. OwnNodes'
    <2> SUFFICES ASSUME NEW x \in DOMAIN registry_', registry_'[x].node # NoNode
                 PROVE  Uuid(registry_'[x].node) = x /\ where'[registry_'[x].node] # "none"
      BY DEF OwnNodes
    <2>1. \/ registry_'[x].node = n /\ x = u
          \/ registry_'[x] = registry_[x] /\ x \in DOMAIN registry_
      BY <1>4
    <2> QED BY <1>1, <1>2, <2>1 DEF TreeInv, OwnNodes, Entry
  <1>8. OwnCached'
    <2> SUFFICES ASSUME NEW x \in Objects, node_cache_'[x] # NoNode
                 PROVE  Uuid(node_cache_'[x]) = x /\ where'[node_cache_'[x]] \in {"cached", "held"}
      BY DEF OwnCached
    <2>1. x # u /\ node_cache_'[x] = node_cache_[x]
      BY <1>2
    <2> QED BY <1>1, <1>2, <2>1 DEF TreeInv, OwnCached
  <1>9. RemovalsOut'
    BY <1>3 DEF RemovalsOut
  <1>10. ChildrenRegistered'
    <2> SUFFICES ASSUME hooked, NEW m \in Nodes, where'[m] = "child", Parent[Uuid(m)] = Nil
                 PROVE  Uuid(m) \in DOMAIN registry_' /\ registry_'[Uuid(m)].node = m
      BY DEF ChildrenRegistered
    <2>1. CASE m = n
      BY <1>4, <2>1
    <2>2. CASE m # n
      <3>1. where[m] = "child"
        BY <1>1, <2>2
      <3>2. Uuid(m) \in DOMAIN registry_ /\ registry_[Uuid(m)].node = m
        BY <3>1 DEF TreeInv, ChildrenRegistered
      <3>3. Uuid(m) # u
        BY <3>2, ConstantsAssumption DEF Nodes
      <3> QED BY <1>4, <3>2, <3>3
    <2> QED BY <2>1, <2>2
  <1> QED BY <1>5, <1>6, <1>7, <1>8, <1>9, <1>10, OwnDataFrame DEF TreeInv

\* LoadNext: mounts what the registry misses.
LEMMA LoadNextTree ==
  ASSUME IndInv, TreeInv, LoadNext
  PROVE  TreeInv'
  <1> DEFINE u == Head(load_queue_)
  <1>1. u \in Objects /\ pc = "load" /\ pc' = pc
    BY DEF LoadNext, IndInv, TypeOK, QueuesTypeOK
  <1>2. UNCHANGED <<hooked, born, object_removal_>> /\ UNCHANGED db
    BY DEF LoadNext, pending
  <1>3. node_cache_ \in [Objects -> Nodes \cup {NoNode}]
    BY DEF IndInv, TypeOK, CacheTypeOK
  <1>4. CASE UNCHANGED <<where, registry_, node_cache_>>
    <2>1. NodesInv'
      BY <1>2, <1>4, LeavingKeeps DEF TreeInv, OwnEntries, Leaving
    <2> QED BY <1>1, <1>2, <1>4, <2>1, OwnDataFrame DEF TreeInv, NodesInv, RemovalsOut
  <1>5. CASE ~UNCHANGED <<where, registry_, node_cache_>>
    <2>1. u \in DOMAIN registry_ /\ registry_[u].node = NoNode
      BY <1>5 DEF LoadNext, NoLoad
    <2>2. PICK n \in Nodes : Uuid(n) = u /\ Mount(u, n) /\ node_cache_' = Popped(u)
      <3>1. CASE node_cache_[u] # NoNode
        <4>1. Mount(u, node_cache_[u]) /\ node_cache_' = Popped(u)
          BY <2>1, <3>1 DEF LoadNext, NoLoad
        <4>2. node_cache_[u] \in Nodes /\ Uuid(node_cache_[u]) = u
          BY <1>1, <1>3, <3>1 DEF TreeInv, OwnCached
        <4> QED BY <4>1, <4>2
      <3>2. CASE node_cache_[u] = NoNode
        <4>1. UNCHANGED node_cache_ /\ \E i \in 1..MaxInst : Mount(u, <<u, i>>)
          BY <1>5, <2>1, <3>2 DEF LoadNext, NoLoad
        <4>2. node_cache_' = Popped(u)
          BY <1>1, <1>3, <3>2, <4>1 DEF Popped
        <4>3. \A i \in 1..MaxInst : <<u, i>> \in Nodes /\ Uuid(<<u, i>>) = u
          BY <1>1 DEF Nodes
        <4> QED BY <4>1, <4>2, <4>3
      <3> QED BY <3>1, <3>2
    <2> HIDE DEF u
    <2> QED BY <1>1, <1>2, <2>1, <2>2, MountTree DEF Popped
  <1> QED BY <1>4, <1>5

\* Objects the unloading re-creates were registered, and are below another one.
LEMMA RecreatedFacts ==
  ASSUME IndInv, TreeInv, NEW result, NEW order \in Orders(ToUnload(result)),
         NEW x \in Recreated(order)
  PROVE  x \in DOMAIN registry_ /\ Parent[x] # Nil
  <1>1. ToUnload(result) \in SUBSET Objects
    BY DEF ToUnload, IndInv, TypeOK, EntriesTypeOK
  <1>2. order \in Seq(Objects)
    BY <1>1, OrderFacts
  <1>3. PICK j \in 1..Len(order) : x \in _collect_descendants(order[j]) \ {order[j]}
    BY DEF Recreated
  <1>4. order[j] \in Objects /\ x \in Objects
    BY <1>2, <1>3 DEF _collect_descendants
  <1>5. x \in DOMAIN registry_
    BY <1>3, <1>4, DescendantsRegistered
  <1>6. Parent[x] # Nil
    BY <1>3, <1>4, RootOnTop DEF TreeInv
  <1> QED BY <1>5, <1>6

\* The merged entries: objects that were added, their own parents, and the
\* nodes the registry had.
LEMMA MergedKnown ==
  ASSUME IndInv, TreeInv, NEW result \in KnownMaps(born),
         NEW order \in Orders(ToUnload(result))
  PROVE  /\ KnownRows(Merged(result, order), born)
         /\ \A u \in DOMAIN Merged(result, order) :
              Merged(result, order)[u].node # NoNode =>
                /\ u \in DOMAIN registry_
                /\ Merged(result, order)[u].node = registry_[u].node
         /\ \A u \in DOMAIN registry_ \cap DOMAIN result :
              Parent[u] = Nil /\ u \notin Unloaded(result) =>
                /\ u \in DOMAIN Merged(result, order)
                /\ Merged(result, order)[u].node = registry_[u].node
  <1> DEFINE kept == Remaining(result, order)
  <1>1. DOMAIN kept = (DOMAIN registry_ \ ToUnload(result)) \cup Recreated(order)
    BY DEF Remaining
  <1>2. \A u \in Recreated(order) : u \in DOMAIN registry_ /\ Parent[u] # Nil
    BY RecreatedFacts
  <1>3. DOMAIN kept \subseteq DOMAIN registry_
    BY <1>1, <1>2
  <1>4. ASSUME NEW u \in DOMAIN kept
        PROVE  /\ kept[u].parent \in {Nil, registry_[u].parent}
               /\ kept[u].node \in {NoNode, registry_[u].node}
               /\ u \notin Recreated(order) /\ u \notin Unloaded(result)
                    => kept[u] = registry_[u]
    BY <1>1 DEF Remaining
  <1>5. Merged(result, order) =
          [u \in DOMAIN kept \cup DOMAIN result |->
            [parent |-> IF u \in DOMAIN result THEN result[u] ELSE kept[u].parent,
             node   |-> IF u \in DOMAIN kept THEN kept[u].node ELSE NoNode]]
    BY DEF Merged
  <1> HIDE DEF kept
  <1>6. KnownRows(Merged(result, order), born)
    <2>1. \A u \in DOMAIN kept : u \in born /\ kept[u].parent \in {Nil, Parent[u]}
      BY <1>3, <1>4 DEF TreeInv, OwnEntries, KnownRows
    <2> QED BY <1>5, <2>1 DEF KnownRows, KnownMaps
  <1>7. ASSUME NEW u \in DOMAIN Merged(result, order), Merged(result, order)[u].node # NoNode
        PROVE  u \in DOMAIN registry_ /\ Merged(result, order)[u].node = registry_[u].node
    BY <1>3, <1>4, <1>5, <1>7
  <1>8. ASSUME NEW u \in DOMAIN registry_ \cap DOMAIN result, Parent[u] = Nil,
               u \notin Unloaded(result)
        PROVE  /\ u \in DOMAIN Merged(result, order)
               /\ Merged(result, order)[u].node = registry_[u].node
    <2>1. u \notin ToUnload(result) /\ u \notin Recreated(order)
      BY <1>2, <1>8 DEF ToUnload
    <2>2. u \in DOMAIN kept /\ kept[u] = registry_[u]
      BY <1>1, <1>4, <1>8, <2>1
    <2> QED BY <1>5, <2>2
  <1> QED BY <1>6, <1>7, <1>8

\* RunCallback: a root that the result leaves out is unloaded itself, one that
\* it mentions keeps its node.
LEMMA RunCallbackTree ==
  ASSUME IndInv, TreeInv, RunCallback
  PROVE  TreeInv'
  <1> DEFINE result == Head(local)
             unloaded == Unloaded(result)
  <1>1. PICK order \in Orders(ToUnload(result)) :
          /\ registry_' = Merged(result, order)
          /\ where' = [n \in Nodes |->
                         IF where[n] = "child" /\ \E u \in unloaded : registry_[u].node = n
                           THEN "cached" ELSE where[n]]
          /\ node_cache_' = [u \in Objects |->
                               IF u \in unloaded THEN registry_[u].node ELSE node_cache_[u]]
    BY Zenon DEF RunCallback, _on_query_result
  <1>2. /\ UNCHANGED <<hooked, born, object_removal_, pc, rows, tasks, completed>>
        /\ local # <<>> /\ local' = Tail(local)
    BY DEF RunCallback
  <1>3. result \in KnownMaps(born) /\ local' \in Seq(KnownMaps(born))
    BY <1>2 DEF TreeInv, OwnData
  <1>4. \A u \in DOMAIN registry_ :
          registry_[u].node # NoNode /\ where[registry_[u].node] = "child"
          /\ u \notin DOMAIN result => u \in unloaded
    <2> SUFFICES ASSUME NEW u \in DOMAIN registry_, registry_[u].node # NoNode,
                        where[registry_[u].node] = "child", u \notin DOMAIN result
                 PROVE  u \in unloaded
      OBVIOUS
    <2>1. u \in ToUnload(result) /\ Live(u)
      BY DEF ToUnload, Live
    <2>2. u \in _collect_descendants(u)
      BY DEF _collect_descendants, IndInv, TypeOK, EntriesTypeOK
    <2> QED BY <2>1, <2>2 DEF Unloaded
  <1>5. \A u \in unloaded : Live(u)
    BY DEF Unloaded
  <1> DEFINE merged == Merged(result, order)
  <1>6. /\ KnownRows(merged, born)
        /\ \A u \in DOMAIN merged :
             merged[u].node # NoNode =>
               u \in DOMAIN registry_ /\ merged[u].node = registry_[u].node
        /\ \A u \in DOMAIN registry_ \cap DOMAIN result :
             Parent[u] = Nil /\ u \notin unloaded =>
               u \in DOMAIN merged /\ merged[u].node = registry_[u].node
    <2> HIDE DEF result
    <2> QED BY <1>3, MergedKnown
  <1>7. registry_' = merged
    BY <1>1
  <1> HIDE DEF result, unloaded, merged
  <1>8. /\ registry_ \in [DOMAIN registry_ -> Entry] /\ where \in [Nodes -> NodeStates]
        /\ node_cache_ \in [Objects -> Nodes \cup {NoNode}]
    BY DEF IndInv, TypeOK, EntriesTypeOK, EngineTypeOK, CacheTypeOK
  <1>9. \A n \in Nodes : /\ where[n] # "none" => where'[n] # "none"
                         /\ where[n] # "child" => where'[n] = where[n]
                         /\ where'[n] = "child" => where[n] = "child"
    BY <1>1
  <1>10. FreshNodes'
    BY <1>2, <1>9 DEF TreeInv, FreshNodes
  <1>11. OwnEntries'
    BY <1>2, <1>6, <1>7 DEF TreeInv, OwnEntries
  <1>12. OwnNodes'
    <2> SUFFICES ASSUME NEW u \in DOMAIN merged, merged[u].node # NoNode
                 PROVE  Uuid(merged[u].node) = u /\ where'[merged[u].node] # "none"
      BY <1>7 DEF OwnNodes
    <2>1. u \in DOMAIN registry_ /\ merged[u].node = registry_[u].node
      BY <1>6
    <2>2. registry_[u].node \in Nodes
      BY <1>8, <2>1 DEF Entry
    <2> QED BY <1>9, <2>1, <2>2 DEF TreeInv, OwnNodes
  <1>13. OwnCached'
    <2> SUFFICES ASSUME NEW u \in Objects, node_cache_'[u] # NoNode
                 PROVE  Uuid(node_cache_'[u]) = u /\ where'[node_cache_'[u]] \in {"cached", "held"}
      BY DEF OwnCached
    <2>1. CASE u \in unloaded
      <3> DEFINE n == registry_[u].node
      <3>1. node_cache_'[u] = n /\ Live(u)
        BY <1>1, <1>5, <2>1
      <3>2. n \in Nodes /\ Uuid(n) = u /\ where[n] \in NodeStates \ {"none", "freed"}
        BY <1>8, <3>1 DEF Live, Entry, TreeInv, OwnNodes
      <3>3. where[n] = "child" => where'[n] = "cached"
        BY <1>1, <2>1, <3>2
      <3> QED BY <1>9, <3>1, <3>2, <3>3 DEF NodeStates
    <2>2. CASE u \notin unloaded
      <3>1. node_cache_'[u] = node_cache_[u] /\ node_cache_[u] \in Nodes
        BY <1>1, <1>8, <2>2
      <3> QED BY <1>9, <3>1 DEF TreeInv, OwnCached
    <2> QED BY <2>1, <2>2
  <1>14. RemovalsOut'
    BY <1>2, <1>9 DEF TreeInv, RemovalsOut
  <1>15. ChildrenRegistered'
    <2> SUFFICES ASSUME hooked, NEW n \in Nodes, where'[n] = "child", Parent[Uuid(n)] = Nil
                 PROVE  Uuid(n) \in DOMAIN merged /\ merged[Uuid(n)].node = n
      BY <1>2, <1>7 DEF ChildrenRegistered
    <2> DEFINE u == Uuid(n)
    <2>1. where[n] = "child" /\ u \in DOMAIN registry_ /\ registry_[u].node = n
      BY <1>9 DEF TreeInv, ChildrenRegistered
    <2>2. u \notin unloaded
      BY <1>1, <2>1
    <2>3. u \in DOMAIN result
      BY <1>4, <2>1, <2>2, ConstantsAssumption DEF Nodes
    <2> QED BY <1>6, <2>1, <2>2, <2>3
  <1>16. OwnData'
    BY <1>2, <1>3 DEF TreeInv, OwnData
  <1> QED BY <1>10, <1>11, <1>12, <1>13, <1>14, <1>15, <1>16 DEF TreeInv

\* As long as no removed node is added again, the invariant holds: one lemma
\* per action.
LEMMA TreeInvariance ==
  ASSUME "readd" \notin Ops
  PROVE  Safety => []TreeInv
  <1>1. Init => TreeInv
    BY TreeInit
  <1>2. IndInv /\ TreeInv /\ [Next]_vars => TreeInv'
    <2> SUFFICES ASSUME IndInv, TreeInv, [Next]_vars PROVE TreeInv'
      OBVIOUS
    <2>1. CASE UserStep
      <3>1. ASSUME NEW n \in Nodes PROVE ~ReAdd(n)
        BY DEF ReAdd, User, Counted
      <3> QED BY <2>1, <3>1, AddTree, RemoveTree, QueueFreeTree, OtherUserTree, ExitTreeTree
              DEF UserStep
    <2>2. CASE FrameStep
      BY <2>2, QuietTree, RunCallbackTree, ProcessRemoveTree, ProcessSyncTree, LoadNextTree
         DEF FrameStep
    <2>3. CASE ThreadStep
      BY <2>3, DbStepTree, QuietTree DEF ThreadStep, FileStep
    <2>4. CASE UNCHANGED vars
      <3>1. /\ UNCHANGED <<where, hooked, born, registry_, node_cache_, pc, object_removal_>>
            /\ UNCHANGED db
        BY <2>4 DEF vars, engine, entries, pending, cache
      <3>2. NodesInv'
        BY <3>1, LeavingKeeps DEF TreeInv, OwnEntries, Leaving
      <3> QED BY <3>1, <3>2, OwnDataFrame DEF TreeInv, NodesInv, RemovalsOut
    <2> QED BY <2>1, <2>2, <2>3, <2>4 DEF Next
  <1> QED BY <1>1, <1>2, Invariance, PTL DEF Safety

\* Whatever is loaded, unloaded, deleted, freed or merged, and in whatever
\* order results arrive: each root among the children of a connected manager is
\* the node registered for its object.
THEOREM RootsRegistered ==
  ASSUME "readd" \notin Ops
  PROVE  Safety => []ChildrenRegistered
  <1>1. TreeInv => ChildrenRegistered
    BY DEF TreeInv
  <1> QED BY <1>1, TreeInvariance, PTL

\* _unload_object caches a node only as it takes it out of the tree, and
\* acquire pops it before it is mounted: nothing in the tree can be evicted.
THEOREM CacheHoldsNoChild ==
  ASSUME "readd" \notin Ops
  PROVE  Safety => []CachedNotInTree
  <1>1. TreeInv => CachedNotInTree
    BY DEF TreeInv, OwnCached, CachedNotInTree
  <1> QED BY <1>1, TreeInvariance, PTL

\* A root is never instantiated while a node of it is in the tree, as long as
\* the manager stays in the tree and no removed node is added again.
THEOREM RootsUnique ==
  ASSUME "readd" \notin Ops, "exit" \notin Ops
  PROVE  Safety => []OneNodePerRoot
  <1>1. Init => hooked
    BY DEF Init
  <1>2. hooked /\ [Next]_vars => hooked'
    BY DEF Next, vars, UserStep, FrameStep, ThreadStep, FileStep, Add, Remove, ReAdd,
           QueueFree, Move, Look, ExitTree, EnterTree, User, Counted, FrameStart,
           RunCallback, EndCallbacks, ProcessRemove, ProcessSync, ProcessUpdate, LoadNext,
           ProcessEnd, DbStep, SaveDone, SaveFailed, LoadDone, engine
  <1>3. Safety => []hooked
    BY <1>1, <1>2, PTL DEF Safety
  <1>4. hooked /\ ChildrenRegistered => OneNodePerRoot
    BY DEF ChildrenRegistered, OneNodePerRoot
  <1> QED BY <1>3, <1>4, RootsRegistered, PTL
=============================================================================
