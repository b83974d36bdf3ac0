--------------------------- MODULE WorkerRegistry ---------------------------
(***************************************************************************)
(* AsyncDbWorker::make_db and its weak cache of workers, and how managers  *)
(* acquire, share, replace and release them (stream_manager.cpp:           *)
(* _init_database, set_database_path, _query_aabb).  A worker lives as     *)
(* long as a manager holds it.  Releasing the last reference joins its     *)
(* thread; callbacks it has not delivered by then are dropped.             *)
(***************************************************************************)
EXTENDS SceneTree, Naturals, Sequences

CONSTANTS
    Paths,         \* database paths
    NoPath,        \* the empty path
    Unwritable,    \* paths whose scene directory cannot be made
    MaxWorkers     \* bound: workers opened

ASSUME RegistryAssumption ==
    /\ NoPath \notin Paths /\ Unwritable \subseteq Paths /\ MaxWorkers \in Nat

VARIABLES
    database_path_,
    db_worker_,          \* the worker of each manager, or 0
    opened,              \* the path of each worker, in the order they were made
    _db_worker_cache,    \* the last worker made for a path, dead or alive
    queries              \* which managers wait for results of which workers

registry == <<database_path_, db_worker_, opened, _db_worker_cache, queries>>

Workers == 1..MaxWorkers
Query == [worker : Workers, by : Managers]

RegistryTypeOK ==
    /\ database_path_ \in [Managers -> Paths \cup {NoPath}]
    /\ db_worker_ \in [Managers -> 0..Len(opened)]
    /\ opened \in Seq(Paths) /\ Len(opened) <= MaxWorkers
    /\ _db_worker_cache \in [Paths -> 0..Len(opened)]
    /\ queries \subseteq Query

RegistryInit ==
    /\ database_path_ = [m \in Managers |-> NoPath]
    /\ db_worker_ = [m \in Managers |-> 0]
    /\ opened = <<>> /\ _db_worker_cache = [p \in Paths |-> 0]
    /\ queries = {}

\* The workers that the links keep alive.
Held(links) == {links[m] : m \in Managers} \ {0}

-----------------------------------------------------------------------------

\* Mutant: the cached id never leads to the worker.
make_db_AlwaysNew(m, path) ==
    /\ Len(opened) < MaxWorkers
    /\ db_worker_' = [db_worker_ EXCEPT ![m] = Len(opened) + 1]
    /\ opened' = Append(opened, path)
    /\ _db_worker_cache' = [_db_worker_cache EXCEPT ![path] = Len(opened) + 1]

\* db_worker_ = make_db(path): the live worker of that path, or a new one.
make_db(m, path) ==
    LET known == _db_worker_cache[path]
        made == Len(opened) + 1
    IN  IF known \in Held(db_worker_)
          THEN /\ db_worker_' = [db_worker_ EXCEPT ![m] = known]
               /\ UNCHANGED <<opened, _db_worker_cache>>
          ELSE /\ made <= MaxWorkers
               /\ db_worker_' = [db_worker_ EXCEPT ![m] = made]
               /\ opened' = Append(opened, path)
               /\ _db_worker_cache' = [_db_worker_cache EXCEPT ![path] = made]

\* Mutant: a dying worker stays connected to process_frame.
Release_StillConnected == UNCHANGED queries

\* NOTIFICATION_PREDELETE of the workers that lost their last manager: their
\* threads finish the tasks, and nothing calls the callbacks.
Release == queries' = {q \in queries : q.worker \in Held(db_worker_')}

_init_database(m, path) ==
    IF path \in Paths \ Unwritable
      THEN make_db(m, path) /\ Release
      ELSE UNCHANGED <<db_worker_, opened, _db_worker_cache, queries>>

\* The first time, _ready opens the database.
EnterTree(m) ==
    /\ Entering(m)
    /\ IF manager[m] = "new" THEN _init_database(m, database_path_[m])
       ELSE UNCHANGED <<db_worker_, opened, _db_worker_cache, queries>>
    /\ UNCHANGED database_path_

\* Mutant: the database is changed in the tree only.
set_database_path_InTree(m, path) ==
    /\ Alive(m)
    /\ database_path_' = [database_path_ EXCEPT ![m] = path]
    /\ IF manager[m] = "in" THEN _init_database(m, path)
       ELSE UNCHANGED <<db_worker_, opened, _db_worker_cache, queries>>
    /\ UNCHANGED manager

set_database_path(m, path) ==
    /\ Alive(m)
    /\ database_path_' = [database_path_ EXCEPT ![m] = path]
    /\ IF IsReady(m) THEN _init_database(m, path)
       ELSE UNCHANGED <<db_worker_, opened, _db_worker_cache, queries>>
    /\ UNCHANGED manager

ExitTree(m) == Leaving(m) /\ UNCHANGED registry

\* The manager's members go with it, and drop the Ref.
FreeManager(m) ==
    /\ Freeing(m)
    /\ database_path_' = [database_path_ EXCEPT ![m] = NoPath]
    /\ db_worker_' = [db_worker_ EXCEPT ![m] = 0]
    /\ Release
    /\ UNCHANGED <<opened, _db_worker_cache>>

\* _query_aabb.
Pushed(m) == queries' = queries \cup {[worker |-> db_worker_[m], by |-> m]}

\* The query is executed, and _flush_callbacks runs its callback, which gives
\* the result to its manager if that is alive.
RunCallback(q) ==
    /\ q \in queries
    /\ queries' = queries \ {q}
    /\ UNCHANGED <<manager, database_path_, db_worker_, opened, _db_worker_cache>>

RegistryStep ==
    \/ \E m \in Managers :
         \/ EnterTree(m) \/ ExitTree(m) \/ FreeManager(m)
         \/ \E path \in Paths \cup {NoPath} : set_database_path(m, path)
    \/ \E q \in Query : RunCallback(q)

-----------------------------------------------------------------------------
(* Properties.                                                             *)

\* A database path is open in one worker at a time: managers that name it share
\* one connection, one task queue and one pair of caches, also when the path is
\* left by all of them and named again.
OneWorkerPerPath ==
    \A v, w \in Held(db_worker_) : opened[v] = opened[w] => v = w

\* A ready manager works on the database it was last given, as far as its path
\* can be used at all; a manager given the empty path, or one whose directory
\* cannot be made, goes on with the database it had.
WorkerFollowsPath ==
    \A m \in Managers : IsReady(m) /\ database_path_[m] \in Paths \ Unwritable =>
        db_worker_[m] # 0 /\ opened[db_worker_[m]] = database_path_[m]

\* The result of a query can only reach a manager that has changed its database
\* in the meantime when another manager keeps the old worker alive; a worker
\* that was replaced or released takes its undelivered results with it.
ForeignResultsShared ==
    \A q \in queries : db_worker_[q.by] # q.worker =>
        \E m \in Managers : /\ db_worker_[m] = q.worker
                            /\ database_path_[m] = opened[q.worker]
                               \/ database_path_[m] \in Unwritable \cup {NoPath}
=============================================================================
