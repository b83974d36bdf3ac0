------------------------- MODULE ManagerLinksProofs -------------------------
(***************************************************************************)
(* The links between probes, managers and workers, for any number of each: *)
(* the probes' pointers agree with the registrations, and the registry of  *)
(* workers never has a path open twice.                                    *)
(***************************************************************************)
EXTENDS ManagerLinks, TLAPS

-----------------------------------------------------------------------------
(* Probes.                                                                 *)

\* Every operation of a probe keeps the types of what it can change.
LEMMA ProbeStepTypes ==
    ASSUME ManagersTypeOK, ProbesTypeOK, ProbeStep
    PROVE  ManagersTypeOK' /\ ProbesTypeOK'
<1> USE DEF ManagersTypeOK, ProbesTypeOK, Targets
<1>1. PICK p \in Probes :
        \/ _enter_tree(p) \/ _ready(p) \/ _exit_tree(p) \/ Free(p)
        \/ SetVisible(p) \/ _on_visibility_changed(p)
        \/ \E path \in Targets : set_stream_manager_path(p, path)
  BY DEF ProbeStep
<1>2. CASE _enter_tree(p)
  BY <1>2 DEF _enter_tree, _resolve_and_cache_manager, Resolved, on_load_probe
<1>3. CASE _ready(p)
  BY <1>3 DEF _ready, _resolve_and_cache_manager, Resolved, on_load_probe
<1>4. CASE _exit_tree(p)
  BY <1>4 DEF _exit_tree, on_unload_probe
<1>5. CASE Free(p)
  BY <1>5 DEF Free
<1>6. CASE SetVisible(p)
  BY <1>6 DEF SetVisible
<1>7. CASE _on_visibility_changed(p)
  BY <1>7 DEF _on_visibility_changed, _resolve_and_cache_manager, Resolved,
              on_load_probe, on_unload_probe
<1>8. ASSUME NEW path \in Targets, set_stream_manager_path(p, path)
      PROVE  ManagersTypeOK' /\ ProbesTypeOK'
  BY <1>8 DEF set_stream_manager_path, _resolve_and_cache_manager, Resolved,
              on_load_probe
<1>9. QED
  BY <1>1, <1>2, <1>3, <1>4, <1>5, <1>6, <1>7, <1>8

\* PointerRegistered for one probe.
Linked(p) ==
    LET m == stream_manager_[p]
    IN  m # NoManager =>
            /\ IsInsideTree(p)
            /\ Alive(m) /\ probe[p] = "in" /\ visible[p] /\ ~pending[p]
                   => p \in registered_probes_[m]

\* An operation of one probe leaves the links of the others alone.
LEMMA OthersKeepLinks ==
    ASSUME ManagersTypeOK, ProbesTypeOK, NEW p \in Probes, NEW q \in Probes, q # p,
           Linked(q), UNCHANGED manager,
           probe'[q] = probe[q], visible'[q] = visible[q], pending'[q] = pending[q],
           stream_manager_'[q] = stream_manager_[q],
           \A m \in Managers : q \in registered_probes_[m] => q \in registered_probes_'[m]
    PROVE  Linked(q)'
BY DEF Linked, IsInsideTree, Alive, ManagersTypeOK, ProbesTypeOK, Targets

\* Every operation of a probe keeps pointers and registrations in agreement.
LEMMA ProbeStepLinks ==
    ASSUME ManagersTypeOK, ProbesTypeOK, ProbeStep, \A p \in Probes : Linked(p)
    PROVE  \A p \in Probes : Linked(p)'
<1> USE DEF ManagersTypeOK, ProbesTypeOK, Targets
<1>1. PICK p \in Probes :
        \/ _enter_tree(p) \/ _ready(p) \/ _exit_tree(p) \/ Free(p)
        \/ SetVisible(p) \/ _on_visibility_changed(p)
        \/ \E path \in Targets : set_stream_manager_path(p, path)
  BY DEF ProbeStep
<1>2. \A q \in Probes : q # p =>
         /\ UNCHANGED manager
         /\ probe'[q] = probe[q] /\ visible'[q] = visible[q]
         /\ pending'[q] = pending[q] /\ stream_manager_'[q] = stream_manager_[q]
         /\ \A m \in Managers :
              q \in registered_probes_[m] => q \in registered_probes_'[m]
  BY <1>1 DEF _enter_tree, _ready, _exit_tree, Free, SetVisible,
              _on_visibility_changed, set_stream_manager_path,
              _resolve_and_cache_manager, on_load_probe, on_unload_probe
<1>3. \A q \in Probes : q # p => Linked(q)'
  BY <1>2, OthersKeepLinks
<1>4. Linked(p)'
  <2> USE DEF Linked, IsInsideTree
  <2>1. CASE _enter_tree(p)
    BY <2>1, ProbeAssumption DEF _enter_tree, _resolve_and_cache_manager, Resolved,
                                 on_load_probe
  <2>2. CASE _ready(p)
    BY <2>2, ProbeAssumption DEF _ready, _resolve_and_cache_manager, Resolved,
                                 on_load_probe
  <2>3. CASE _exit_tree(p)
    BY <2>3 DEF _exit_tree
  <2>4. CASE Free(p)
    BY <2>4 DEF Free
  <2>5. CASE SetVisible(p)
    BY <2>5 DEF SetVisible, Alive
  <2>6. CASE _on_visibility_changed(p)
    BY <2>6, ProbeAssumption DEF _on_visibility_changed, _resolve_and_cache_manager,
                                 Resolved, on_load_probe, on_unload_probe
  <2>7. ASSUME NEW path \in Targets, set_stream_manager_path(p, path)
        PROVE  Linked(p)'
    BY <2>7, ProbeAssumption DEF set_stream_manager_path, _resolve_and_cache_manager,
                                 Resolved, on_load_probe
  <2>8. QED
    BY <1>1, <2>1, <2>2, <2>3, <2>4, <2>5, <2>6, <2>7
<1>5. QED
  BY <1>3, <1>4

-----------------------------------------------------------------------------
(* Workers.                                                                *)

\* The last worker made for a path has that path.
CacheRight ==
    \A path \in Paths : _db_worker_cache[path] # 0 => opened[_db_worker_cache[path]] = path

\* A worker in use is the one that the cache has for its path.
CacheKnows ==
    \A m \in Managers : db_worker_[m] # 0 =>
        _db_worker_cache[opened[db_worker_[m]]] = db_worker_[m]

\* Only managers that are ready have a worker.
HoldersReady == \A m \in Managers : db_worker_[m] # 0 => IsReady(m)

\* The results that can still arrive come from workers in use.
QueriesHeld == \A q \in queries : q.worker \in Held(db_worker_)

RegistryInv ==
    /\ RegistryTypeOK
    /\ CacheRight /\ CacheKnows /\ HoldersReady /\ QueriesHeld
    /\ WorkerFollowsPath

\* make_db gives the manager a worker of the path, and leaves the other workers
\* and what the cache has for them as they are.
LEMMA MakeDb ==
    ASSUME RegistryTypeOK, CacheRight, CacheKnows,
           NEW m \in Managers, NEW path \in Paths, make_db(m, path)
    PROVE  /\ db_worker_' \in [Managers -> 0..Len(opened')]
           /\ opened' \in Seq(Paths) /\ Len(opened') <= MaxWorkers
           /\ _db_worker_cache' \in [Paths -> 0..Len(opened')]
           /\ CacheRight' /\ CacheKnows'
           /\ db_worker_'[m] # 0 /\ opened'[db_worker_'[m]] = path
           /\ \A n \in Managers \ {m} :
                /\ db_worker_'[n] = db_worker_[n]
                /\ db_worker_[n] # 0 => opened'[db_worker_[n]] = opened[db_worker_[n]]
<1> DEFINE known == _db_worker_cache[path]
           made == Len(opened) + 1
<1> USE DEF RegistryTypeOK
<1>1. CASE known \in Held(db_worker_)
  <2>1. PICK n \in Managers : known = db_worker_[n] /\ known # 0
    BY <1>1 DEF Held
  <2>2. /\ db_worker_' = [db_worker_ EXCEPT ![m] = known]
        /\ UNCHANGED <<opened, _db_worker_cache>>
    BY <1>1 DEF make_db
  <2>3. opened[known] = path
    BY <2>1 DEF CacheRight
  <2>4. QED
    BY <2>1, <2>2, <2>3 DEF CacheRight, CacheKnows
<1>2. CASE known \notin Held(db_worker_)
  <2>1. /\ made <= MaxWorkers
        /\ db_worker_' = [db_worker_ EXCEPT ![m] = made]
        /\ opened' = Append(opened, path)
        /\ _db_worker_cache' = [_db_worker_cache EXCEPT ![path] = made]
    BY <1>2 DEF make_db
  <2>2. /\ opened' \in Seq(Paths) /\ Len(opened') = made /\ made \in Nat \ {0}
        /\ opened'[made] = path
        /\ \A i \in 1..Len(opened) : opened'[i] = opened[i]
    BY <2>1
  <2>3. \A n \in Managers : db_worker_[n] # 0 => opened[db_worker_[n]] # path
    BY <1>2 DEF CacheKnows, Held
  <2>4. \A n \in Managers : db_worker_[n] # 0 =>
          db_worker_[n] \in 1..Len(opened) /\ opened[db_worker_[n]] \in Paths
    OBVIOUS
  <2>5. CacheRight'
    <3> SUFFICES ASSUME NEW q \in Paths, _db_worker_cache'[q] # 0
                 PROVE  opened'[_db_worker_cache'[q]] = q
      BY DEF CacheRight
    <3>1. CASE q = path
      BY <3>1, <2>1, <2>2
    <3>2. CASE q # path
      BY <3>2, <2>1, <2>2 DEF CacheRight
    <3> QED
      BY <3>1, <3>2
  <2>6. CacheKnows'
    <3> SUFFICES ASSUME NEW n \in Managers, db_worker_'[n] # 0
                 PROVE  _db_worker_cache'[opened'[db_worker_'[n]]] = db_worker_'[n]
      BY DEF CacheKnows
    <3>1. CASE n = m
      BY <3>1, <2>1, <2>2
    <3>2. CASE n # m
      BY <3>2, <2>1, <2>2, <2>3, <2>4 DEF CacheKnows
    <3> QED
      BY <3>1, <3>2
  <2>7. QED
    BY <2>1, <2>2, <2>4, <2>5, <2>6
<1>3. QED
  BY <1>1, <1>2

\* _init_database gives a usable path its worker and changes nothing otherwise.
LEMMA InitDatabase ==
    ASSUME RegistryInv, NEW m \in Managers, NEW path \in Paths \cup {NoPath},
           _init_database(m, path)
    PROVE  /\ db_worker_' \in [Managers -> 0..Len(opened')]
           /\ opened' \in Seq(Paths) /\ Len(opened') <= MaxWorkers
           /\ _db_worker_cache' \in [Paths -> 0..Len(opened')]
           /\ queries' \subseteq Query
           /\ CacheRight' /\ CacheKnows' /\ QueriesHeld'
           /\ path \in Paths \ Unwritable =>
                db_worker_'[m] # 0 /\ opened'[db_worker_'[m]] = path
           /\ path \notin Paths \ Unwritable => UNCHANGED <<db_worker_, opened>>
           /\ \A n \in Managers \ {m} :
                /\ db_worker_'[n] = db_worker_[n]
                /\ db_worker_[n] # 0 => opened'[db_worker_[n]] = opened[db_worker_[n]]
<1>1. CASE path \in Paths \ Unwritable
  <2>1. make_db(m, path) /\ Release
    BY <1>1 DEF _init_database
  <2>2. queries' \subseteq Query /\ QueriesHeld'
    BY <2>1 DEF Release, QueriesHeld, RegistryInv, RegistryTypeOK
  <2>3. QED
    BY <1>1, <2>1, <2>2, MakeDb DEF RegistryInv
<1>2. CASE path \notin Paths \ Unwritable
  BY <1>2 DEF _init_database, RegistryInv, RegistryTypeOK, CacheRight, CacheKnows,
              QueriesHeld, Held
<1>3. QED
  BY <1>1, <1>2

\* Entering the tree, new paths and the deletion of managers, and callbacks.
LEMMA RegistryStepInv ==
    ASSUME ManagersTypeOK, RegistryInv, RegistryStep
    PROVE  ManagersTypeOK' /\ RegistryInv'
<1>1. ASSUME NEW m \in Managers, EnterTree(m)
      PROVE  ManagersTypeOK' /\ RegistryInv'
  <2>1. manager[m] \in {"new", "out"} /\ manager' = [manager EXCEPT ![m] = "in"]
    BY <1>1 DEF EnterTree, Entering
  <2>2. ManagersTypeOK' /\ UNCHANGED database_path_
    BY <1>1, <2>1 DEF EnterTree, ManagersTypeOK
  <2>3. CASE manager[m] = "new"
    <3>1. _init_database(m, database_path_[m]) /\ database_path_[m] \in Paths \cup {NoPath}
      BY <1>1, <2>3 DEF EnterTree, RegistryInv, RegistryTypeOK
    <3>2. RegistryTypeOK' /\ CacheRight' /\ CacheKnows' /\ QueriesHeld'
      BY <3>1, <2>2, InitDatabase DEF RegistryTypeOK, RegistryInv
    <3>3. HoldersReady'
      BY <3>1, <2>1, InitDatabase
         DEF RegistryInv, HoldersReady, IsReady, ManagersTypeOK
    <3>4. WorkerFollowsPath'
      BY <3>1, <2>1, <2>2, InitDatabase
         DEF RegistryInv, WorkerFollowsPath, IsReady, ManagersTypeOK
    <3>5. QED
      BY <2>2, <3>2, <3>3, <3>4 DEF RegistryInv
  <2>4. CASE manager[m] # "new"
    <3>1. UNCHANGED registry
      BY <1>1, <2>4 DEF EnterTree, registry
    <3>2. QED
      BY <3>1, <2>1, <2>2, <2>4
         DEF registry, RegistryInv, RegistryTypeOK, CacheRight, CacheKnows,
             HoldersReady, QueriesHeld, Held, WorkerFollowsPath, IsReady, ManagersTypeOK
  <2>5. QED
    BY <2>3, <2>4
<1>2. ASSUME NEW m \in Managers, ExitTree(m)
      PROVE  ManagersTypeOK' /\ RegistryInv'
  BY <1>2 DEF ExitTree, Leaving, registry, RegistryInv, RegistryTypeOK, CacheRight,
              CacheKnows, HoldersReady, QueriesHeld, Held, WorkerFollowsPath, IsReady,
              ManagersTypeOK
<1>3. ASSUME NEW m \in Managers, FreeManager(m)
      PROVE  ManagersTypeOK' /\ RegistryInv'
  <2>1. /\ manager' = [manager EXCEPT ![m] = "freed"]
        /\ database_path_' = [database_path_ EXCEPT ![m] = NoPath]
        /\ db_worker_' = [db_worker_ EXCEPT ![m] = 0]
        /\ UNCHANGED <<opened, _db_worker_cache>>
    BY <1>3 DEF FreeManager, Freeing
  <2>2. queries' \subseteq Query /\ QueriesHeld'
    BY <1>3 DEF FreeManager, Release, QueriesHeld, RegistryInv, RegistryTypeOK
  <2>3. ManagersTypeOK' /\ RegistryTypeOK'
    BY <2>1, <2>2 DEF ManagersTypeOK, RegistryInv, RegistryTypeOK
  <2>4. CacheRight' /\ CacheKnows' /\ HoldersReady' /\ WorkerFollowsPath'
    BY <2>1 DEF ManagersTypeOK, RegistryInv, RegistryTypeOK, CacheRight, CacheKnows,
                HoldersReady, IsReady, WorkerFollowsPath
  <2>5. QED
    BY <2>2, <2>3, <2>4 DEF RegistryInv
<1>4. ASSUME NEW m \in Managers, NEW path \in Paths \cup {NoPath},
             set_database_path(m, path)
      PROVE  ManagersTypeOK' /\ RegistryInv'
  <2>1. /\ UNCHANGED manager
        /\ database_path_' = [database_path_ EXCEPT ![m] = path]
    BY <1>4 DEF set_database_path
  <2>2. CASE IsReady(m)
    <3>1. _init_database(m, path)
      BY <1>4, <2>2 DEF set_database_path
    <3>2. ManagersTypeOK' /\ RegistryTypeOK' /\ CacheRight' /\ CacheKnows' /\ QueriesHeld'
      BY <3>1, <2>1, InitDatabase DEF RegistryTypeOK, RegistryInv, ManagersTypeOK
    <3>3. HoldersReady'
      BY <3>1, <2>1, <2>2, InitDatabase
         DEF RegistryInv, HoldersReady, IsReady, ManagersTypeOK
    <3>4. WorkerFollowsPath'
      BY <3>1, <2>1, InitDatabase
         DEF RegistryInv, RegistryTypeOK, WorkerFollowsPath, IsReady, ManagersTypeOK
    <3>5. QED
      BY <3>2, <3>3, <3>4 DEF RegistryInv
  <2>3. CASE ~IsReady(m)
    <3>1. UNCHANGED <<db_worker_, opened, _db_worker_cache, queries>>
      BY <1>4, <2>3 DEF set_database_path
    <3>2. QED
      BY <3>1, <2>1, <2>3
         DEF RegistryInv, RegistryTypeOK, CacheRight, CacheKnows, HoldersReady,
             QueriesHeld, Held, WorkerFollowsPath, IsReady, ManagersTypeOK
  <2>4. QED
    BY <2>2, <2>3
<1>5. ASSUME NEW q \in Query, RunCallback(q)
      PROVE  ManagersTypeOK' /\ RegistryInv'
  BY <1>5 DEF RunCallback, RegistryInv, RegistryTypeOK, CacheRight, CacheKnows,
              HoldersReady, QueriesHeld, Held, WorkerFollowsPath, IsReady, ManagersTypeOK
<1>6. QED
  BY <1>1, <1>2, <1>3, <1>4, <1>5 DEF RegistryStep

-----------------------------------------------------------------------------
(* Together.                                                               *)

Inv ==
    /\ ManagersTypeOK /\ ProbesTypeOK /\ RegistryInv
    /\ \A p \in Probes : Linked(p)

LEMMA InitInv == Init => Inv
<1> SUFFICES ASSUME Init PROVE Inv
  OBVIOUS
<1> USE DEF Init, ManagersInit, ProbesInit, RegistryInit
<1>1. ManagersTypeOK /\ ProbesTypeOK
  BY DEF ManagersTypeOK, ProbesTypeOK, Targets
<1>2. RegistryTypeOK
  BY RegistryAssumption DEF RegistryTypeOK
<1>3. RegistryInv
  BY <1>2 DEF RegistryInv, CacheRight, CacheKnows, HoldersReady, QueriesHeld,
              WorkerFollowsPath, IsReady
<1>4. \A p \in Probes : Linked(p)
  BY DEF Linked
<1>5. QED
  BY <1>1, <1>3, <1>4 DEF Inv

\* A poll drops freed probes only, and asks a worker in use.
LEMMA PollInv ==
    ASSUME Inv, NEW m \in Managers, Poll(m)
    PROVE  Inv'
<1>1. /\ db_worker_[m] # 0
      /\ registered_probes_' = [registered_probes_ EXCEPT ![m] = Pruned(m)]
      /\ queries' = queries \/ queries' = queries \cup {[worker |-> db_worker_[m], by |-> m]}
      /\ UNCHANGED <<manager, probe, visible, pending, stream_manager_path_,
                     stream_manager_, database_path_, db_worker_, opened,
                     _db_worker_cache>>
  BY DEF Poll, Pushed
<1>2. ManagersTypeOK' /\ ProbesTypeOK'
  BY <1>1 DEF Inv, ManagersTypeOK, ProbesTypeOK, Pruned, Targets
<1>3. db_worker_[m] \in Workers
  BY <1>1, RegistryAssumption DEF Inv, RegistryInv, RegistryTypeOK, Workers
<1>4. queries' \subseteq Query /\ QueriesHeld'
  BY <1>1, <1>3 DEF Inv, RegistryInv, RegistryTypeOK, QueriesHeld, Held, Query
<1>5. RegistryInv'
  BY <1>1, <1>4 DEF Inv, RegistryInv, RegistryTypeOK, CacheRight, CacheKnows,
                    HoldersReady, WorkerFollowsPath, IsReady
<1>6. \A p \in Probes : Linked(p)'
  BY <1>1 DEF Inv, Linked, IsInsideTree, Alive, Pruned, ProbesTypeOK, Targets
<1>7. QED
  BY <1>2, <1>5, <1>6 DEF Inv

LEMMA NextInv == Inv /\ [Next]_vars => Inv'
<1> SUFFICES ASSUME Inv, [Next]_vars PROVE Inv'
  OBVIOUS
<1>1. CASE ProbeStep /\ UNCHANGED registry
  <2>1. /\ ManagersTypeOK' /\ ProbesTypeOK' /\ (\A p \in Probes : Linked(p)')
    BY <1>1, ProbeStepTypes, ProbeStepLinks DEF Inv
  <2>2. UNCHANGED manager
    BY <1>1 DEF ProbeStep, _enter_tree, _ready, _exit_tree, Free, SetVisible,
                _on_visibility_changed, set_stream_manager_path
  <2>3. RegistryInv'
    BY <1>1, <2>2 DEF Inv, registry, RegistryInv, RegistryTypeOK, CacheRight, CacheKnows,
                      HoldersReady, QueriesHeld, Held, WorkerFollowsPath, IsReady
  <2>4. QED
    BY <2>1, <2>3 DEF Inv
<1>2. CASE RegistryStep /\ UNCHANGED probes
  <2>1. ManagersTypeOK' /\ RegistryInv'
    BY <1>2, RegistryStepInv DEF Inv
  <2>2. \A m \in Managers : manager'[m] # "freed" => manager[m] # "freed"
    BY <1>2 DEF Inv, RegistryStep, EnterTree, Entering, ExitTree, Leaving, FreeManager,
                Freeing, set_database_path, RunCallback, ManagersTypeOK
  <2>3. ProbesTypeOK' /\ \A p \in Probes : Linked(p)'
    BY <1>2, <2>2 DEF Inv, probes, ProbesTypeOK, Linked, IsInsideTree, Alive, Targets
  <2>4. QED
    BY <2>1, <2>3 DEF Inv
<1>3. CASE \E m \in Managers : Poll(m)
  BY <1>3, PollInv
<1>4. CASE UNCHANGED vars
  BY <1>4 DEF vars, probes, registry, Inv, ManagersTypeOK, ProbesTypeOK, RegistryInv,
              RegistryTypeOK, CacheRight, CacheKnows, HoldersReady, QueriesHeld, Held,
              WorkerFollowsPath, IsReady, Linked, IsInsideTree, Alive
<1>5. QED
  BY <1>1, <1>2, <1>3, <1>4 DEF Next

LEMMA Invariance == Spec => []Inv
BY InitInv, NextInv, PTL DEF Spec

-----------------------------------------------------------------------------
(* Theorems.                                                               *)

\* For any number of probes, managers and paths the variables of the three
\* components keep their types; the workers' numbers stay within those made.
THEOREM TypeCorrect == Spec => []TypeOK
<1>1. Inv => TypeOK
  BY DEF Inv, TypeOK, RegistryInv
<1>2. QED
  BY <1>1, Invariance, PTL

\* Whatever is shown, hidden, redirected, entered and freed in whichever order, a
\* visible probe in the tree is registered with the manager it points to
\* (stream_world_probe.cpp, all handlers).
THEOREM RegistrationFollowsPointer == Spec => []PointerRegistered
<1>1. Inv => PointerRegistered
  BY DEF Inv, Linked, PointerRegistered
<1>2. QED
  BY <1>1, Invariance, PTL

\* make_db never opens a path that a live worker has open.
THEOREM NoSecondWorker == Spec => []OneWorkerPerPath
<1>1. Inv => OneWorkerPerPath
  <2> SUFFICES ASSUME Inv, NEW v \in Held(db_worker_), NEW w \in Held(db_worker_),
                      opened[v] = opened[w]
               PROVE  v = w
    BY DEF OneWorkerPerPath
  <2>1. PICK m \in Managers : v = db_worker_[m] /\ v # 0
    BY DEF Held
  <2>2. PICK n \in Managers : w = db_worker_[n] /\ w # 0
    BY DEF Held
  <2>3. QED
    BY <2>1, <2>2 DEF Inv, RegistryInv, CacheKnows
<1>2. QED
  BY <1>1, Invariance, PTL

\* A ready manager whose path can be used has the worker of that path, however
\* often set_database_path was called and whatever other managers did.
THEOREM WorkersFollowPaths == Spec => []WorkerFollowsPath
<1>1. Inv => WorkerFollowsPath
  BY DEF Inv, RegistryInv
<1>2. QED
  BY <1>1, Invariance, PTL

\* A result of a replaced database arrives only while another manager, which
\* names that database or could not leave it, keeps its worker.
THEOREM ForeignResultsAreShared == Spec => []ForeignResultsShared
<1>1. Inv => ForeignResultsShared
  <2> SUFFICES ASSUME Inv, NEW q \in queries
               PROVE  \E m \in Managers :
                        /\ db_worker_[m] = q.worker
                        /\ database_path_[m] = opened[q.worker]
                           \/ database_path_[m] \in Unwritable \cup {NoPath}
    BY DEF ForeignResultsShared
  <2>1. PICK m \in Managers : db_worker_[m] = q.worker /\ q.worker # 0
    BY DEF Inv, RegistryInv, QueriesHeld, Held
  <2>2. IsReady(m) /\ database_path_[m] \in Paths \cup {NoPath}
    BY <2>1 DEF Inv, RegistryInv, HoldersReady, RegistryTypeOK
  <2>3. QED
    BY <2>1, <2>2 DEF Inv, RegistryInv, WorkerFollowsPath
<1>2. QED
  BY <1>1, Invariance, PTL
=============================================================================
