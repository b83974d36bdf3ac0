--------------------------- MODULE StreamSqliteDB ---------------------------
(***************************************************************************)
(* core/components/stream_sqlite_db.cpp: the rows of the objects and of    *)
(* the chunks, the connection's two LRU caches, and the flush task of      *)
(* StreamManager that writes them in one transaction, one call at a time.  *)
(*                                                                         *)
(* The file holds what was committed.  The process may end at any moment.  *)
(* Another connection may hold the write lock of the file for longer than  *)
(* the busy timeout (5 seconds): until the transaction has the lock, each  *)
(* of its writes may then be given up, which the code prints and ignores.  *)
(***************************************************************************)
EXTENDS Chunk, LruCache

CONSTANTS
    Objects,       \* uuids
    Nil,           \* the nil uuid
    Null,          \* SQL's NULL
    Parent,        \* the parent_uuid of each object
    Boxes,         \* the AABBs that nodes report
    Views,         \* the AABBs of probes
    ChunkCap,      \* capacity of chunk_cache (500)
    AabbCap,       \* capacity of aabb_cache (1000)
    MaxFlushes,    \* bound: flush tasks
    MaxDirty,      \* bound: AABBs per flush
    Contention     \* another connection writes to the file

ASSUME DatabaseAssumption ==
    /\ IsFiniteSet(Objects) /\ Nil \notin Objects
    /\ Parent \in [Objects -> Objects \cup {Nil}]
    /\ \A S \in SUBSET Objects : S # {} => \E u \in S : Parent[u] \notin S
    /\ \A b \in Boxes \cup Views : b \in Box /\ \A a \in Axes : b.lo[a] <= b.hi[a]
    /\ Null \notin Box \cup Nat
    /\ ChunkCap \in Nat /\ AabbCap \in Nat /\ MaxDirty \in Nat
    /\ MaxFlushes \in Nat
    /\ Contention \in BOOLEAN

VARIABLES
    born,          \* the uuids handed out
    flushes,       \* flush tasks begun
    disk,          \* the committed rows and chunks
    db,            \* what the connection sees
    chunk_cache, aabb_cache,
    request,       \* the flush under way: remove, upsert and dirty
    at,            \* the loop that the flush goes on with once up is Nil
    todo,          \* what this loop has not visited
    up,            \* the next ancestor to file, or Nil
    holds,         \* the transaction has the write lock
    lost           \* a write was given up since the file was opened

vars == <<born, flushes, disk, db, chunk_cache, aabb_cache, request, at, todo, up,
          holds, lost>>

Row == [parent : Objects \cup {Nil}, box : Box \cup {Null}, chunk : Nat \cup {Null}]
Maps(S, V) == UNION {[T -> V] : T \in SUBSET S}
NoRequest == [remove |-> {}, upsert |-> {}, dirty |-> [u \in {} |-> 0]]

Init ==
    /\ born = {} /\ flushes = 0
    /\ disk = [rows |-> [u \in {} |-> 0], chunks |-> <<>>] /\ db = disk
    /\ chunk_cache = Empty /\ aabb_cache = Empty
    /\ request = NoRequest /\ at = "idle" /\ todo = {} /\ up = Nil
    /\ holds = FALSE /\ lost = FALSE

-----------------------------------------------------------------------------
(* Statements.                                                             *)

\* A write succeeds and has the lock from now on, or is given up.
Write(ok) ==
    \/ ok /\ holds' = TRUE /\ UNCHANGED lost
    \/ ~ok /\ Contention /\ ~holds /\ lost' = TRUE /\ UNCHANGED holds

HasRow(u) == u \in DOMAIN db.rows

\* INSERT ... ON CONFLICT(uuid) DO UPDATE: a new row, or a new parent.
Upserted(rows, u) ==
    [x \in DOMAIN rows \cup {u} |->
        IF x # u THEN rows[x]
        ELSE IF HasRow(u) THEN [rows[u] EXCEPT !.parent = Parent[u]]
        ELSE [parent |-> Parent[u], box |-> Null, chunk |-> Null]]

\* DELETE, with ON DELETE CASCADE on parent_uuid.
Cascade(rows, u) ==
    LET Closed(S) == \A x \in DOMAIN rows : rows[x].parent \in S => x \in S
    IN  [x \in {x \in DOMAIN rows : \E S \in SUBSET DOMAIN rows :
                    Closed(S \cup {u}) /\ x \notin S \cup {u}} |-> rows[x]]

\* query_children_aabb: a child without an AABB has the default one.
Stored(row) == IF row.box = Null THEN DefaultBox ELSE OfInts(row.box)

ChildBoxes(rows, p) == {Stored(rows[c]) : c \in {c \in DOMAIN rows : rows[c].parent = p}}

\* get_object_aabb.
CachedBox(u) ==
    IF u \in Keys(aabb_cache) THEN aabb_cache.items[u]
    ELSE IF HasRow(u) THEN Stored(db.rows[u])
    ELSE DefaultBox

\* The ids of the rows of chunk_metadata for c: none or one.
Ids(c) == {i \in 1..Len(db.chunks) : db.chunks[i] = c}

Cached(c) == c \in Keys(chunk_cache)

\* What a query task finds for one box.
query_objects(view) ==
    {u \in DOMAIN db.rows : /\ db.rows[u].chunk # Null
                            /\ Matches(db.chunks[db.rows[u].chunk], view)}

-----------------------------------------------------------------------------
(* The calls of the flush task.                                            *)

\* What the loops of the task visit, in order.
Loops == <<"remove", "upsert", "aabb", "chunk">>
Visits(r, l) ==
    CASE l = "remove" -> r.remove [] l = "upsert" -> r.upsert [] OTHER -> DOMAIN r.dirty

\* The task goes on with the first loop from the i-th that visits something.
GoTo(i, r) ==
    LET left == {j \in i..Len(Loops) : Visits(r, Loops[j]) # {}}
        next == Loops[CHOOSE j \in left : \A k \in left : j <= k]
    IN  IF left = {} THEN at' = "commit" /\ todo' = {}
        ELSE at' = next /\ todo' = Visits(r, next)

\* BEGIN TRANSACTION for the next task.  A uuid is upserted once, when its
\* object is new; what is removed is neither upserted nor dirty.
Begin(r) ==
    /\ at = "idle" /\ flushes < MaxFlushes
    /\ r.upsert \cap born = {} /\ r.remove \subseteq born
    /\ DOMAIN r.dirty \subseteq (born \cup r.upsert) \ r.remove
    /\ born' = born \cup r.upsert /\ flushes' = flushes + 1
    /\ request' = r /\ GoTo(1, r)
    /\ UNCHANGED <<disk, db, chunk_cache, aabb_cache, up, holds, lost>>

\* The i-th loop visits u.
Visit(i, u) ==
    /\ at = Loops[i] /\ up = Nil /\ u \in todo
    /\ IF todo = {u} THEN GoTo(i + 1, request) ELSE todo' = todo \ {u} /\ UNCHANGED at
    /\ UNCHANGED <<born, flushes, disk, request>>

remove_object(u) ==
    /\ Visit(1, u)
    /\ \E ok \in BOOLEAN :
         /\ Write(ok)
         /\ db' = IF ok THEN [db EXCEPT !.rows = Cascade(@, u)] ELSE db
    /\ aabb_cache' = Removed(aabb_cache, u)
    /\ UNCHANGED <<chunk_cache, up>>

\* The foreign key on parent_uuid refuses a child whose parent has no row.
upsert_object_uuids(u) ==
    /\ Visit(2, u)
    /\ \E ok \in BOOLEAN :
         /\ Write(ok)
         /\ db' = IF ok /\ Parent[u] \in DOMAIN db.rows \cup {Nil}
                    THEN [db EXCEPT !.rows = Upserted(@, u)] ELSE db
    /\ UNCHANGED <<chunk_cache, aabb_cache, up>>

\* Mutant: the cache keeps its older value.
set_object_aabb_CacheKept(u) ==
    /\ Visit(3, u)
    /\ \E ok \in BOOLEAN :
         /\ Write(ok)
         /\ db' = IF ok /\ HasRow(u)
                    THEN [db EXCEPT !.rows[u].box = ToInts(request.dirty[u])] ELSE db
    /\ UNCHANGED <<chunk_cache, aabb_cache, up>>

\* The cache is given the AABB whether the row exists and was written or not.
set_object_aabb(u) ==
    /\ Visit(3, u)
    /\ \E ok \in BOOLEAN :
         /\ Write(ok)
         /\ db' = IF ok /\ HasRow(u)
                    THEN [db EXCEPT !.rows[u].box = ToInts(request.dirty[u])] ELSE db
    /\ aabb_cache' = Put(aabb_cache, u, request.dirty[u], AabbCap)
    /\ UNCHANGED <<chunk_cache, up>>

\* set_object_chunk: the foreign key on chunk_id refuses -1.
set_object_chunk(u, id) ==
    \E ok \in BOOLEAN :
        /\ Write(ok)
        /\ db' = IF ok /\ HasRow(u) /\ id # -1
                   THEN [db EXCEPT !.rows[u].chunk = id] ELSE db

Remember(c, id) == chunk_cache' = Put(chunk_cache, c, id, ChunkCap)

\* query_chunk for c, and set_object_chunk of u to the id it returns.
FileUnder(u, c) ==
    \/ /\ Cached(c)
       /\ chunk_cache' = Got(chunk_cache, c)
       /\ set_object_chunk(u, chunk_cache.items[c])
    \/ /\ ~Cached(c)
       /\ \E id \in Ids(c) : Remember(c, id) /\ set_object_chunk(u, id)
    \/ /\ ~Cached(c) /\ Ids(c) = {}
       /\ LET id == Len(db.chunks) + 1
          IN  /\ Write(TRUE)
              /\ Remember(c, id)
              /\ db' = [rows |-> IF HasRow(u) THEN [db.rows EXCEPT ![u].chunk = id]
                                 ELSE db.rows,
                        chunks |-> Append(db.chunks, c)]
    \* The INSERT is given up; the UPDATE that follows may get the lock.
    \/ /\ ~Cached(c) /\ Ids(c) = {} /\ Contention /\ ~holds
       /\ Remember(c, -1)
       /\ lost' = TRUE /\ holds' \in BOOLEAN /\ UNCHANGED db

\* The body of the last loop for a dirty object.
FileObject(u) ==
    /\ Visit(4, u)
    /\ FileUnder(u, compute_chunk(Merged(request.dirty[u], ChildBoxes(db.rows, u))))
    /\ up' = IF HasRow(u) THEN db.rows[u].parent ELSE Nil
    /\ UNCHANGED aabb_cache

\* And for each of its ancestors.
FileAncestor ==
    /\ up # Nil
    /\ FileUnder(up, compute_chunk(Merged(CachedBox(up), ChildBoxes(db.rows, up))))
    /\ aabb_cache' = IF up \in Keys(aabb_cache) THEN Got(aabb_cache, up)
                     ELSE Put(aabb_cache, up, CachedBox(up), AabbCap)
    /\ up' = IF HasRow(up) THEN db.rows[up].parent ELSE Nil
    /\ UNCHANGED <<born, flushes, disk, request, at, todo>>

Idle == request' = NoRequest /\ at' = "idle" /\ todo' = {} /\ up' = Nil /\ holds' = FALSE

Commit ==
    /\ at = "commit" /\ up = Nil
    /\ disk' = db
    /\ Idle
    /\ UNCHANGED <<born, flushes, db, chunk_cache, aabb_cache, lost>>

\* Mutant: the transaction is rolled back, the caches are kept.
Crash_CachesKept ==
    /\ at # "idle"
    /\ db' = disk /\ lost' = FALSE
    /\ Idle
    /\ UNCHANGED <<born, flushes, disk, chunk_cache, aabb_cache>>

\* Mutant: every statement is a transaction of its own.
Crash_HalfWritten ==
    /\ disk' = db /\ lost' = FALSE
    /\ chunk_cache' = Empty /\ aabb_cache' = Empty
    /\ Idle
    /\ UNCHANGED <<born, flushes, db>>

\* The process ends, in a transaction or between two, and opens the file again.
Crash ==
    /\ db' = disk /\ lost' = FALSE
    /\ chunk_cache' = Empty /\ aabb_cache' = Empty
    /\ Idle
    /\ UNCHANGED <<born, flushes, disk>>

Requests ==
    [remove : SUBSET Objects, upsert : SUBSET Objects,
     dirty : {d \in Maps(Objects, Boxes) : Cardinality(DOMAIN d) <= MaxDirty}]
    \ {NoRequest}

Call ==
    \/ \E u \in Objects : \/ remove_object(u) \/ upsert_object_uuids(u)
                          \/ set_object_aabb(u) \/ FileObject(u)
    \/ FileAncestor
    \/ Commit

Next == (\E r \in Requests : Begin(r)) \/ Call \/ Crash

Spec == Init /\ [][Next]_vars

-----------------------------------------------------------------------------
(* Properties.                                                             *)

TypeOK ==
    /\ born \subseteq Objects /\ flushes \in 0..MaxFlushes
    /\ \A s \in {disk, db} : /\ DOMAIN s = {"rows", "chunks"}
                            /\ DOMAIN s.rows \subseteq born
                            /\ \A u \in DOMAIN s.rows : s.rows[u] \in Row
                            /\ s.chunks \in Seq(Chunks)
    /\ WellFormed(chunk_cache, Chunks, Nat \cup {-1})
    /\ WellFormed(aabb_cache, Objects, Box)
    /\ DOMAIN request = {"remove", "upsert", "dirty"}
    /\ request.remove \cup request.upsert \cup DOMAIN request.dirty \subseteq born
    /\ \A u \in DOMAIN request.dirty : request.dirty[u] \in Boxes
    /\ at \in {Loops[i] : i \in 1..Len(Loops)} \cup {"idle", "commit"}
    /\ todo \subseteq Objects /\ up \in Objects \cup {Nil}
    /\ holds \in BOOLEAN /\ lost \in BOOLEAN
    /\ lost => Contention

\* An id in chunk_cache is the id of exactly that chunk, in the transaction as
\* in the file: filing through the cache files under the right tile.  -1 is
\* there only when an INSERT was given up.
ChunkCacheCoherent ==
    \A c \in Keys(chunk_cache) :
        \/ chunk_cache.items[c] \in Ids(c)
        \/ chunk_cache.items[c] = -1 /\ lost

\* The AABB cached for a row is the one in the row, but for the fractions that
\* the row has not, as long as no write was given up: it makes no difference
\* for set_object_aabb, remove_object and the cascade that the default AABB of
\* a row without one is cached, and that dead objects stay in the cache.
AabbCacheCoherent ==
    ~lost => \A u \in Keys(aabb_cache) \cap DOMAIN db.rows :
                LET row == db.rows[u]
                    b == aabb_cache.items[u]
                IN  IF row.box = Null THEN b = DefaultBox ELSE ToInts(b) = row.box

\* The file as the abstract specification sees it: the tile for its id.
Index == INSTANCE ObjectIndex WITH
    rows <- [u \in DOMAIN disk.rows |->
                [disk.rows[u] EXCEPT !.chunk = IF @ = Null THEN Null ELSE disk.chunks[@]]]

\* The rows that the flush under way has filed anew, when no call is left.
Filed == {u \in DOMAIN db.rows : \E d \in DOMAIN request.dirty \cap DOMAIN db.rows :
             u \in Index!Lineage(db.rows, d)}

\* The R-tree can hold the world: the sides of the tiles and twice as much are
\* integers.  With 32 bits the world reaches 2^29 units in each direction.
WorldFits == \E l \in 0..31 : 2 * l + 2 <= IntBits /\ \A b \in Boxes : Within(b, l)

\* What is indexed can be found: a view that holds the first corner of the box
\* that spans an object and its children, at whatever level and on whichever side of
\* the origin, finds the object once the flush that filed it is over.
CornerFound ==
    at = "commit" /\ up = Nil /\ ~lost =>
        \A u \in Filed, v \in Views :
            LET corner == Merged(Stored(db.rows[u]), ChildBoxes(db.rows, u)).lo
            IN  Intersects([lo |-> corner, hi |-> corner], v) => u \in query_objects(v)

\* README.md:9: the objects that intersect the box of the query are found.
QueriesComplete ==
    at = "idle" =>
        \A u \in DOMAIN db.rows, v \in Views :
            db.rows[u].box # Null /\ Intersects(OfInts(db.rows[u].box), v)
                => u \in query_objects(v)

\* The code behaves as ObjectIndex: a crash between two statements leaves the
\* file as it was before the flush, a committed flush is applied as a whole, and
\* the rows and chunks it writes are those of the flush whatever is cached,
\* evicted or left over in chunk_cache and aabb_cache.
ImplementsIndex == Index!Spec
=============================================================================
