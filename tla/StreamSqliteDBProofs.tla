------------------------ MODULE StreamSqliteDBProofs ------------------------
(***************************************************************************)
(* The two caches of StreamSqliteDB agree with the rows, for any number of *)
(* objects, any family, any boxes and capacities, whatever is evicted,     *)
(* given up or interrupted.                                                *)
(***************************************************************************)
EXTENDS StreamSqliteDB, LruCacheProofs

-----------------------------------------------------------------------------
(* Boxes.                                                                  *)

\* Whole coordinates survive the way into the database and back.
LEMMA QuotientExact ==
    ASSUME NEW x \in Nat, NEW k \in Nat \ {0}
    PROVE  (k * x) \div k = x
OBVIOUS

LEMMA TruncatedExact ==
    ASSUME NEW x \in Int
    PROVE  Truncated(Unit * x) = x
BY ChunkAssumption, QuotientExact DEF Truncated

LEMMA BoxTypes ==
    /\ DefaultBox \in Box
    /\ \A b \in Box : /\ ToInts(b) \in Box /\ OfInts(b) \in Box
                      /\ ToInts(OfInts(b)) = b
<1>1. DefaultBox \in Box
  BY DEF DefaultBox, Box
<1>2. ASSUME NEW b \in Box PROVE ToInts(b) \in Box
  <2>1. \A x \in Int : Truncated(x) \in Int
    BY ChunkAssumption DEF Truncated
  <2>2. QED
    BY <2>1 DEF ToInts, Box
<1>3. ASSUME NEW b \in Box PROVE OfInts(b) \in Box
  BY ChunkAssumption DEF OfInts, Box
<1>4. ASSUME NEW b \in Box PROVE ToInts(OfInts(b)) = b
  <2>1. \A a \in Axes : Truncated(OfInts(b).lo[a]) = b.lo[a]
    BY TruncatedExact DEF OfInts, Box
  <2>2. \A a \in Axes : Truncated(OfInts(b).hi[a]) = b.hi[a]
    BY TruncatedExact DEF OfInts, Box
  <2>3. QED
    BY <2>1, <2>2 DEF ToInts, Box
<1>5. QED
  BY <1>1, <1>2, <1>3, <1>4

LEMMA StoredBox == ASSUME NEW row \in Row PROVE Stored(row) \in Box
BY BoxTypes DEF Stored, Row

-----------------------------------------------------------------------------
(* The invariant.                                                          *)

\* The rows are well formed, and each has its parent (the foreign key).
Sound(s) ==
    /\ s = [rows |-> s.rows, chunks |-> s.chunks]
    /\ s.rows \in [DOMAIN s.rows -> Row]
    /\ DOMAIN s.rows \subseteq born
    /\ \A x \in DOMAIN s.rows : s.rows[x].parent \in DOMAIN s.rows \cup {Nil}
    /\ \E S : s.chunks \in Seq(S)

\* What query_chunk returns.
ChunkIds == Nat \cup {-1}

ChunkCacheOK ==
    /\ WellFormed(chunk_cache, Keys(chunk_cache), ChunkIds)
    /\ IsFiniteSet(Keys(chunk_cache))
    /\ Cardinality(Keys(chunk_cache)) <= Capacity(ChunkCap)

AabbCacheOK ==
    /\ WellFormed(aabb_cache, Objects, Box)
    /\ Cardinality(Keys(aabb_cache)) <= Capacity(AabbCap)
    /\ Keys(aabb_cache) \subseteq born

RequestOK ==
    /\ born \subseteq Objects /\ lost \in BOOLEAN
    /\ request.upsert \subseteq born
    /\ DOMAIN request.dirty \subseteq born
    /\ \A u \in DOMAIN request.dirty : request.dirty[u] \in Boxes

\* Where the task is; ancestors are walked in the last loop only.
PlaceOK ==
    /\ at = "upsert" => todo \subseteq request.upsert
    /\ at \in {"aabb", "chunk"} => todo \subseteq DOMAIN request.dirty
    /\ up \in born \cup {Nil}
    /\ up # Nil => at \in {"chunk", "commit"}

\* Until the new rows are there, no box is cached for them: this is what makes
\* the boxes that the cascade and missing rows leave behind harmless.
NewUncached == at \in {"remove", "upsert"} => Keys(aabb_cache) \cap request.upsert = {}

IndInv ==
    /\ Sound(disk) /\ Sound(db)
    /\ ChunkCacheOK /\ AabbCacheOK /\ RequestOK /\ PlaceOK /\ NewUncached
    /\ ChunkCacheCoherent /\ AabbCacheCoherent

-----------------------------------------------------------------------------
(* Caches.                                                                 *)

\* Put into a finite cache whose keys have no type.
LEMMA PutNew ==
    ASSUME NEW V, NEW c, WellFormed(c, Keys(c), V), IsFiniteSet(Keys(c)),
           NEW k, NEW v \in V, NEW m \in Nat, Cardinality(Keys(c)) <= Capacity(m)
    PROVE  LET d == Put(c, k, v, m) IN
           /\ WellFormed(d, Keys(d), V) /\ IsFiniteSet(Keys(d))
           /\ Cardinality(Keys(d)) <= Capacity(m)
           /\ d.items[k] = v
           /\ Keys(d) \subseteq Keys(c) \cup {k}
           /\ \A x \in Keys(d) \ {k} : d.items[x] = c.items[x]
<1> DEFINE K == Keys(c) \cup {k}
           d == Put(c, k, v, m)
<1>1. IsFiniteSet(K) /\ k \in K
  BY FS_AddElement
<1>2. WellFormed(c, K, V)
  BY DEF WellFormed
<1> HIDE DEF K
<1>3. /\ WellFormed(d, K, V)
      /\ Cardinality(Keys(d)) <= Capacity(m)
      /\ d.items[k] = v
      /\ Keys(d) \subseteq Keys(c) \cup {k}
      /\ \A x \in Keys(d) \ {k} : d.items[x] = c.items[x]
  BY <1>1, <1>2, PutCorrect
<1>4. IsFiniteSet(Keys(d))
  BY <1>1, <1>3, FS_Subset DEF K
<1>5. WellFormed(d, Keys(d), V)
  BY <1>3 DEF WellFormed
<1>6. QED
  BY <1>3, <1>4, <1>5

\* Remember keeps chunk_cache coherent when the id is right or lost.
LEMMA RememberOK ==
    ASSUME ChunkCacheOK, ChunkCacheCoherent, NEW c, NEW id \in ChunkIds,
           Remember(c, id), lost \in BOOLEAN, lost => lost',
           \A k : Ids(k) \subseteq Ids(k)',
           id \in Ids(c)' \/ (id = -1 /\ lost')
    PROVE  ChunkCacheOK' /\ ChunkCacheCoherent'
<1> DEFINE d == Put(chunk_cache, c, id, ChunkCap)
<1>1. ChunkCap \in Nat
  BY DatabaseAssumption
<1>2. /\ WellFormed(d, Keys(d), ChunkIds) /\ IsFiniteSet(Keys(d))
      /\ Cardinality(Keys(d)) <= Capacity(ChunkCap)
      /\ d.items[c] = id
      /\ Keys(d) \subseteq Keys(chunk_cache) \cup {c}
      /\ \A x \in Keys(d) \ {c} : d.items[x] = chunk_cache.items[x]
  BY <1>1, PutNew DEF ChunkCacheOK
<1>3. chunk_cache' = d
  BY DEF Remember
<1>4. ChunkCacheOK'
  BY <1>2, <1>3 DEF ChunkCacheOK
<1>5. ChunkCacheCoherent'
  BY <1>2, <1>3 DEF ChunkCacheCoherent
<1>6. QED
  BY <1>4, <1>5

\* What is cached stays right while ids stay what they are.
LEMMA ChunkCacheFrame ==
    ASSUME ChunkCacheOK, ChunkCacheCoherent, lost \in BOOLEAN, lost => lost',
           \A k : Ids(k) \subseteq Ids(k)',
           UNCHANGED chunk_cache \/ \E c : chunk_cache' = Got(chunk_cache, c)
    PROVE  ChunkCacheOK' /\ ChunkCacheCoherent'
<1> DEFINE K == Keys(chunk_cache)
           V == ChunkIds
<1>1. CASE UNCHANGED chunk_cache
  BY <1>1 DEF ChunkCacheOK, ChunkCacheCoherent, WellFormed, Keys, Lists
<1>2. ASSUME NEW c, chunk_cache' = Got(chunk_cache, c)
      PROVE  ChunkCacheOK' /\ ChunkCacheCoherent'
  <2> DEFINE d == Got(chunk_cache, c)
  <2>1. /\ WellFormed(d, K, V) /\ Keys(d) = K
        /\ d.items = chunk_cache.items
    BY GotWellFormed DEF ChunkCacheOK, Got
  <2>2. QED
    BY <1>2, <2>1 DEF ChunkCacheOK, ChunkCacheCoherent
<1>3. QED
  BY <1>1, <1>2

\* Ids survive as long as chunks are only appended.
LEMMA IdsKept ==
    ASSUME \E S : db.chunks \in Seq(S),
           db'.chunks = db.chunks \/ \E c : db'.chunks = Append(db.chunks, c)
    PROVE  \A k : Ids(k) \subseteq Ids(k)'
BY DEF Ids

\* Putting a box into aabb_cache.
LEMMA PutBox ==
    ASSUME AabbCacheOK, born \subseteq Objects, UNCHANGED born,
           NEW u \in born, NEW b \in Box,
           aabb_cache' = Put(aabb_cache, u, b, AabbCap)
    PROVE  /\ AabbCacheOK'
           /\ u \in Keys(aabb_cache)' /\ aabb_cache'.items[u] = b
           /\ Keys(aabb_cache)' \subseteq Keys(aabb_cache) \cup {u}
           /\ \A x \in Keys(aabb_cache)' \ {u} : aabb_cache'.items[x] = aabb_cache.items[x]
<1> DEFINE d == Put(aabb_cache, u, b, AabbCap)
<1>1. /\ WellFormed(d, Objects, Box)
      /\ Cardinality(Keys(d)) <= Capacity(AabbCap)
      /\ u \in Keys(d) /\ d.items[u] = b
      /\ Keys(d) \subseteq Keys(aabb_cache) \cup {u}
      /\ \A x \in Keys(d) \ {u} : d.items[x] = aabb_cache.items[x]
  <2>1. u \in Objects /\ AabbCap \in Nat /\ IsFiniteSet(Objects)
    BY DatabaseAssumption
  <2>2. QED
    BY <2>1, PutCorrect DEF AabbCacheOK
<1>2. QED
  BY <1>1 DEF AabbCacheOK

-----------------------------------------------------------------------------
(* Statements.                                                             *)

\* t has the rows of s but for the chunks they are filed under.
SameBoxes(s, t) ==
    /\ DOMAIN t.rows = DOMAIN s.rows
    /\ \A x \in DOMAIN s.rows : t.rows[x].box = s.rows[x].box

LEMMA WriteLost ==
    ASSUME lost \in BOOLEAN, NEW ok \in BOOLEAN, Write(ok)
    PROVE  lost' \in BOOLEAN /\ (lost => lost') /\ (~ok => lost')
BY DEF Write

\* Filing a row leaves everything but its chunk alone.
LEMMA FiledRow ==
    ASSUME Sound(db), NEW u \in DOMAIN db.rows, NEW id \in Nat, NEW more,
           \E S : more \in Seq(S), UNCHANGED born,
           db' = [rows |-> [db.rows EXCEPT ![u].chunk = id], chunks |-> more]
    PROVE  Sound(db)' /\ SameBoxes(db, db')
BY DEF Sound, SameBoxes, Row

LEMMA SetChunk ==
    ASSUME Sound(db), lost \in BOOLEAN, UNCHANGED born,
           NEW u, NEW id \in ChunkIds, set_object_chunk(u, id)
    PROVE  /\ Sound(db)' /\ SameBoxes(db, db') /\ db'.chunks = db.chunks
           /\ lost' \in BOOLEAN /\ (lost => lost')
<1>1. PICK ok \in BOOLEAN :
        /\ Write(ok)
        /\ db' = IF ok /\ HasRow(u) /\ id # -1
                   THEN [db EXCEPT !.rows[u].chunk = id] ELSE db
  BY DEF set_object_chunk
<1>2. lost' \in BOOLEAN /\ (lost => lost')
  BY <1>1, WriteLost
<1>3. CASE ok /\ HasRow(u) /\ id # -1
  <2>1. db' = [rows |-> [db.rows EXCEPT ![u].chunk = id], chunks |-> db.chunks]
    BY <1>1, <1>3 DEF Sound
  <2>2. u \in DOMAIN db.rows /\ id \in Nat /\ \E S : db.chunks \in Seq(S)
    BY <1>3 DEF HasRow, Sound, ChunkIds
  <2>3. QED
    BY <1>2, <2>1, <2>2, FiledRow
<1>4. CASE ~(ok /\ HasRow(u) /\ id # -1)
  <2>1. db' = db
    BY <1>1, <1>4
  <2>2. QED
    BY <1>2, <2>1 DEF Sound, SameBoxes
<1>5. QED
  BY <1>3, <1>4

\* query_chunk and set_object_chunk: whichever of their four ways they go, the
\* boxes stay, and chunk_cache is right afterwards.
LEMMA FileUnderOK ==
    ASSUME Sound(db), ChunkCacheOK, ChunkCacheCoherent, lost \in BOOLEAN,
           UNCHANGED born, NEW u, NEW c, FileUnder(u, c)
    PROVE  /\ Sound(db)' /\ SameBoxes(db, db')
           /\ ChunkCacheOK' /\ ChunkCacheCoherent'
           /\ lost' \in BOOLEAN /\ (lost => lost')
<1>0. \E S : db.chunks \in Seq(S)
  BY DEF Sound
<1>1. CASE /\ Cached(c) /\ chunk_cache' = Got(chunk_cache, c)
           /\ set_object_chunk(u, chunk_cache.items[c])
  <2>1. chunk_cache.items[c] \in ChunkIds
    BY <1>1 DEF Cached, ChunkCacheOK, WellFormed
  <2>2. /\ Sound(db)' /\ SameBoxes(db, db') /\ db'.chunks = db.chunks
        /\ lost' \in BOOLEAN /\ (lost => lost')
    BY <1>1, <2>1, SetChunk
  <2>3. \A k : Ids(k) \subseteq Ids(k)'
    BY <1>0, <2>2, IdsKept
  <2>4. QED
    BY <1>1, <2>2, <2>3, ChunkCacheFrame
<1>2. ASSUME NEW id \in Ids(c), Remember(c, id), set_object_chunk(u, id)
      PROVE  /\ Sound(db)' /\ SameBoxes(db, db')
             /\ ChunkCacheOK' /\ ChunkCacheCoherent'
             /\ lost' \in BOOLEAN /\ (lost => lost')
  <2>1. id \in ChunkIds
    BY <1>0 DEF Ids, ChunkIds
  <2>2. /\ Sound(db)' /\ SameBoxes(db, db') /\ db'.chunks = db.chunks
        /\ lost' \in BOOLEAN /\ (lost => lost')
    BY <1>2, <2>1, SetChunk
  <2>3. \A k : Ids(k) \subseteq Ids(k)'
    BY <1>0, <2>2, IdsKept
  <2>4. QED
    BY <1>2, <2>1, <2>2, <2>3, RememberOK
<1>3. ASSUME NEW id, id = Len(db.chunks) + 1,
             Write(TRUE), Remember(c, id),
             db' = [rows |-> IF HasRow(u) THEN [db.rows EXCEPT ![u].chunk = id] ELSE db.rows,
                    chunks |-> Append(db.chunks, c)]
      PROVE  /\ Sound(db)' /\ SameBoxes(db, db')
             /\ ChunkCacheOK' /\ ChunkCacheCoherent'
             /\ lost' \in BOOLEAN /\ (lost => lost')
  <2>1. id \in Nat /\ id \in ChunkIds
    BY <1>0, <1>3 DEF ChunkIds
  <2>2. lost' \in BOOLEAN /\ (lost => lost')
    BY <1>3, WriteLost
  <2>3. \E S : Append(db.chunks, c) \in Seq(S)
    <3>1. PICK S : db.chunks \in Seq(S)
      BY <1>0
    <3>2. Append(db.chunks, c) \in Seq(S \cup {c})
      BY <3>1
    <3>3. QED
      BY <3>2
  <2>4. Sound(db)' /\ SameBoxes(db, db')
    <3>1. CASE HasRow(u)
      BY <1>3, <2>1, <2>3, <3>1, FiledRow DEF HasRow
    <3>2. CASE ~HasRow(u)
      BY <1>3, <2>3, <3>2 DEF Sound, SameBoxes
    <3>3. QED
      BY <3>1, <3>2
  <2>5. \A k : Ids(k) \subseteq Ids(k)'
    BY <1>0, <1>3, IdsKept
  <2>6. id \in Ids(c)'
    <3>1. PICK S : db.chunks \in Seq(S)
      BY <1>0
    <3>2. db'.chunks[id] = c /\ Len(db'.chunks) = id
      BY <1>3, <3>1
    <3>3. QED
      BY <2>1, <3>1, <3>2, <1>3 DEF Ids
  <2>7. QED
    BY <1>3, <2>1, <2>2, <2>4, <2>5, <2>6, RememberOK
<1>4. CASE Remember(c, -1) /\ lost' = TRUE /\ UNCHANGED db
  <2>1. Sound(db)' /\ SameBoxes(db, db')
    BY <1>4 DEF Sound, SameBoxes
  <2>2. \A k : Ids(k) \subseteq Ids(k)'
    BY <1>0, <1>4, IdsKept
  <2>3. -1 \in ChunkIds
    BY DEF ChunkIds
  <2>4. QED
    BY <1>4, <2>1, <2>2, <2>3, RememberOK
<1>5. QED
  BY <1>1, <1>2, <1>3, <1>4 DEF FileUnder

\* The task goes on with a later loop, or is ready to commit.
LEMMA NextLoop ==
    ASSUME NEW i \in 1..5, NEW r, GoTo(i, r)
    PROVE  \/ i <= 1 /\ at' = "remove" /\ todo' = r.remove
           \/ i <= 2 /\ at' = "upsert" /\ todo' = r.upsert
           \/ i <= 3 /\ at' = "aabb" /\ todo' = DOMAIN r.dirty
           \/ i <= 4 /\ at' = "chunk" /\ todo' = DOMAIN r.dirty
           \/ at' = "commit" /\ todo' = {}
<1> DEFINE left == {j \in i..Len(Loops) : Visits(r, Loops[j]) # {}}
<1>1. Len(Loops) = 4
  BY DEF Loops
<1>2. CASE left = {}
  BY <1>2 DEF GoTo
<1>3. CASE left # {}
  <2> DEFINE k == CHOOSE j \in left : \A q \in left : j <= q
  <2>1. left \subseteq 1..4
    BY <1>1
  <2>2. \E j \in left : \A q \in left : j <= q
    <3> HIDE DEF left
    <3>1. PICK e \in left : TRUE
      BY <1>3
    <3>2. e = 1 \/ e = 2 \/ e = 3 \/ e = 4
      BY <2>1, <3>1
    <3>3. QED
      BY <2>1, <3>1, <3>2
  <2>3. k \in left
    BY <2>2
  <2>4. at' = Loops[k] /\ todo' = Visits(r, Loops[k])
    BY <1>3 DEF GoTo
  <2>5. k \in 1..4 /\ i <= k
    BY <2>3, <1>1
  <2> HIDE DEF k, left
  <2>6. k = 1 \/ k = 2 \/ k = 3 \/ k = 4
    BY <2>5
  <2>7. QED
    BY <2>4, <2>5, <2>6 DEF Loops, Visits
<1>4. QED
  BY <1>2, <1>3

\* A visit leaves the task in its loop with less to do, or goes to a later one.
LEMMA VisitMoves ==
    ASSUME NEW i \in 1..4, NEW u, Visit(i, u)
    PROVE  /\ at = Loops[i] /\ up = Nil /\ u \in todo
           /\ UNCHANGED <<born, flushes, disk, request>>
           /\ \/ at' = at /\ todo' = todo \ {u}
              \/ i <= 1 /\ at' = "upsert" /\ todo' = request.upsert
              \/ i <= 2 /\ at' = "aabb" /\ todo' = DOMAIN request.dirty
              \/ i <= 3 /\ at' = "chunk" /\ todo' = DOMAIN request.dirty
              \/ at' = "commit" /\ todo' = {}
<1>1. /\ at = Loops[i] /\ up = Nil /\ u \in todo
      /\ UNCHANGED <<born, flushes, disk, request>>
  BY DEF Visit
<1>2. CASE todo = {u}
  <2>1. GoTo(i + 1, request) /\ i + 1 \in 1..5
    BY <1>2 DEF Visit
  <2>2. QED
    BY <1>1, <2>1, NextLoop
<1>3. CASE todo # {u}
  BY <1>1, <1>3 DEF Visit
<1>4. QED
  BY <1>2, <1>3

-----------------------------------------------------------------------------
(* Calls.                                                                  *)

\* What a call keeps that only moves the task on.
LEMMA VisitPlace ==
    ASSUME IndInv, NEW i \in 1..4, NEW u, Visit(i, u), lost' \in BOOLEAN,
           up' = Nil \/ (i = 4 /\ up' \in born)
    PROVE  /\ Sound(disk)' /\ RequestOK' /\ PlaceOK'
           /\ i <= 2 /\ Keys(aabb_cache)' \subseteq Keys(aabb_cache) => NewUncached'
           /\ i > 2 => NewUncached'
<1>1. /\ at = Loops[i] /\ up = Nil /\ u \in todo
      /\ UNCHANGED <<born, flushes, disk, request>>
      /\ \/ at' = at /\ todo' = todo \ {u}
         \/ i <= 1 /\ at' = "upsert" /\ todo' = request.upsert
         \/ i <= 2 /\ at' = "aabb" /\ todo' = DOMAIN request.dirty
         \/ i <= 3 /\ at' = "chunk" /\ todo' = DOMAIN request.dirty
         \/ at' = "commit" /\ todo' = {}
  BY VisitMoves
<1>2. /\ i = 1 => at = "remove"
      /\ i = 2 => at = "upsert"
      /\ i = 3 => at = "aabb"
      /\ i = 4 => at = "chunk"
  BY <1>1 DEF Loops
<1>3. i = 1 \/ i = 2 \/ i = 3 \/ i = 4
  OBVIOUS
<1>4. Sound(disk)' /\ RequestOK'
  BY <1>1 DEF IndInv, Sound, RequestOK
<1>5. PlaceOK'
  BY <1>1, <1>2, <1>3 DEF IndInv, PlaceOK
<1>6. i <= 2 /\ Keys(aabb_cache)' \subseteq Keys(aabb_cache) => NewUncached'
  BY <1>1, <1>2, <1>3 DEF IndInv, NewUncached
<1>7. i > 2 => NewUncached'
  BY <1>1, <1>2, <1>3 DEF NewUncached
<1>8. QED
  BY <1>4, <1>5, <1>6, <1>7

\* The cascade takes the descendants along: what stays has its parent.
LEMMA CascadeSound ==
    ASSUME Sound(db), UNCHANGED born, NEW u, db' = [db EXCEPT !.rows = Cascade(@, u)]
    PROVE  /\ Sound(db)' /\ db'.chunks = db.chunks
           /\ DOMAIN db'.rows \subseteq DOMAIN db.rows
           /\ \A x \in DOMAIN db'.rows : db'.rows[x] = db.rows[x]
<1> DEFINE rows == db.rows
           Closed(S) == \A x \in DOMAIN rows : rows[x].parent \in S => x \in S
           D == {x \in DOMAIN rows : \E S \in SUBSET DOMAIN rows :
                    Closed(S \cup {u}) /\ x \notin S \cup {u}}
<1>1. Cascade(rows, u) = [x \in D |-> rows[x]]
  BY DEF Cascade
<1>2. db'.rows = [x \in D |-> rows[x]] /\ db' = [rows |-> db'.rows, chunks |-> db.chunks]
  BY <1>1 DEF Sound
<1>3. ASSUME NEW x \in D PROVE rows[x].parent \in D \cup {Nil}
  <2>1. PICK S \in SUBSET DOMAIN rows : Closed(S \cup {u}) /\ x \notin S \cup {u}
    BY <1>3
  <2>2. rows[x].parent \notin S \cup {u}
    BY <2>1
  <2>3. rows[x].parent \in DOMAIN rows \cup {Nil}
    BY DEF Sound
  <2>4. QED
    BY <2>1, <2>2, <2>3
<1>4. D \subseteq DOMAIN rows
  OBVIOUS
<1> HIDE DEF D
<1>5. QED
  BY <1>2, <1>3, <1>4 DEF Sound

LEMMA RemoveInv ==
    ASSUME IndInv, NEW u \in Objects, remove_object(u)
    PROVE  IndInv'
<1>1. PICK ok \in BOOLEAN :
        /\ Write(ok)
        /\ db' = IF ok THEN [db EXCEPT !.rows = Cascade(@, u)] ELSE db
  BY DEF remove_object
<1>2. /\ Visit(1, u) /\ aabb_cache' = Removed(aabb_cache, u)
      /\ UNCHANGED <<chunk_cache, up>> /\ UNCHANGED <<born, disk, request>>
  BY DEF remove_object, Visit
<1>3. lost' \in BOOLEAN /\ (lost => lost')
  BY <1>1, WriteLost DEF IndInv, RequestOK
<1>4. /\ Sound(db)' /\ db'.chunks = db.chunks
      /\ DOMAIN db'.rows \subseteq DOMAIN db.rows
      /\ \A x \in DOMAIN db'.rows : db'.rows[x] = db.rows[x]
  <2>1. CASE ok
    BY <1>1, <1>2, <2>1, CascadeSound DEF IndInv
  <2>2. CASE ~ok
    BY <1>1, <1>2, <2>2 DEF IndInv, Sound
  <2>3. QED
    BY <2>1, <2>2
<1>5. /\ AabbCacheOK'
      /\ Keys(aabb_cache)' \subseteq Keys(aabb_cache)
      /\ \A x \in Keys(aabb_cache)' : aabb_cache'.items[x] = aabb_cache.items[x]
  <2> DEFINE d == Removed(aabb_cache, u)
  <2>1. /\ WellFormed(d, Objects, Box)
        /\ Keys(d) = Keys(aabb_cache) \ {u}
        /\ Cardinality(Keys(d)) <= Cardinality(Keys(aabb_cache))
        /\ \A x \in Keys(d) : d.items[x] = aabb_cache.items[x]
    BY RemovedWellFormed, DatabaseAssumption DEF IndInv, AabbCacheOK
  <2>2. Cardinality(Keys(d)) <= Capacity(AabbCap)
    <3>1. /\ Cardinality(Keys(d)) \in Nat /\ Cardinality(Keys(aabb_cache)) \in Nat
          /\ Capacity(AabbCap) \in Nat
      BY <2>1, DatabaseAssumption, FS_Subset, FS_CardinalityType
         DEF IndInv, AabbCacheOK, WellFormed, Capacity
    <3>2. QED
      BY <2>1, <3>1 DEF IndInv, AabbCacheOK
  <2>3. QED
    BY <1>2, <2>1, <2>2 DEF IndInv, AabbCacheOK
<1>6. AabbCacheCoherent'
  BY <1>3, <1>4, <1>5 DEF IndInv, AabbCacheCoherent, RequestOK
<1>7. ChunkCacheOK' /\ ChunkCacheCoherent'
  BY <1>2, <1>3, <1>4, IdsKept, ChunkCacheFrame DEF IndInv, Sound, RequestOK
<1>8. up' = Nil
  BY <1>2, VisitMoves
<1>9. QED
  BY <1>2, <1>3, <1>4, <1>5, <1>6, <1>7, <1>8, VisitPlace DEF IndInv

\* A new row has no box, and none is cached for it.
LEMMA UpsertInv ==
    ASSUME IndInv, NEW u \in Objects, upsert_object_uuids(u)
    PROVE  IndInv'
<1>1. PICK ok \in BOOLEAN :
        /\ Write(ok)
        /\ db' = IF ok /\ Parent[u] \in DOMAIN db.rows \cup {Nil}
                   THEN [db EXCEPT !.rows = Upserted(@, u)] ELSE db
  BY DEF upsert_object_uuids
<1>2. /\ Visit(2, u) /\ UNCHANGED <<chunk_cache, aabb_cache, up>>
      /\ UNCHANGED <<born, disk, request>> /\ at = "upsert" /\ u \in todo
  BY DEF upsert_object_uuids, Visit, Loops
<1>3. lost' \in BOOLEAN /\ (lost => lost')
  BY <1>1, WriteLost DEF IndInv, RequestOK
<1>4. u \in request.upsert /\ u \in born /\ u \notin Keys(aabb_cache)
  BY <1>2 DEF IndInv, PlaceOK, RequestOK, NewUncached
<1>5. /\ Sound(db)' /\ db'.chunks = db.chunks
      /\ DOMAIN db'.rows \subseteq DOMAIN db.rows \cup {u}
      /\ \A x \in DOMAIN db'.rows \ {u} : db'.rows[x] = db.rows[x]
  <2>1. CASE ok /\ Parent[u] \in DOMAIN db.rows \cup {Nil}
    <3> DEFINE D == DOMAIN db.rows \cup {u}
               row == IF HasRow(u) THEN [db.rows[u] EXCEPT !.parent = Parent[u]]
                      ELSE [parent |-> Parent[u], box |-> Null, chunk |-> Null]
    <3>1. db' = [rows |-> [x \in D |-> IF x # u THEN db.rows[x] ELSE row],
                 chunks |-> db.chunks]
      BY <1>1, <2>1 DEF IndInv, Sound, Upserted
    <3>2. row \in Row /\ row.parent = Parent[u]
      <4>1. Parent[u] \in Objects \cup {Nil}
        BY DatabaseAssumption
      <4>2. CASE HasRow(u)
        <5>1. db.rows[u] \in Row
          BY <4>2 DEF IndInv, Sound, HasRow
        <5>2. row = [db.rows[u] EXCEPT !.parent = Parent[u]]
          BY <4>2
        <5>3. QED
          BY <4>1, <5>1, <5>2 DEF Row
      <4>3. CASE ~HasRow(u)
        <5>1. row = [parent |-> Parent[u], box |-> Null, chunk |-> Null]
          BY <4>3
        <5>2. QED
          BY <4>1, <5>1 DEF Row
      <4>4. QED
        BY <4>2, <4>3
    <3> HIDE DEF row
    <3>3. QED
      BY <1>2, <1>4, <2>1, <3>1, <3>2 DEF IndInv, Sound
  <2>2. CASE ~(ok /\ Parent[u] \in DOMAIN db.rows \cup {Nil})
    BY <1>1, <1>2, <2>2 DEF IndInv, Sound
  <2>3. QED
    BY <2>1, <2>2
<1>6. AabbCacheOK' /\ Keys(aabb_cache)' = Keys(aabb_cache)
  BY <1>2 DEF IndInv, AabbCacheOK, WellFormed, Keys, Lists
<1>7. AabbCacheCoherent'
  BY <1>2, <1>3, <1>4, <1>5, <1>6 DEF IndInv, AabbCacheCoherent, RequestOK
<1>8. ChunkCacheOK' /\ ChunkCacheCoherent'
  BY <1>2, <1>3, <1>5, IdsKept, ChunkCacheFrame DEF IndInv, Sound, RequestOK
<1>9. up' = Nil
  BY <1>2, VisitMoves
<1>10. QED
  BY <1>2, <1>3, <1>5, <1>6, <1>7, <1>8, <1>9, VisitPlace DEF IndInv

LEMMA SetAabbInv ==
    ASSUME IndInv, NEW u \in Objects, set_object_aabb(u)
    PROVE  IndInv'
<1>1. PICK ok \in BOOLEAN :
        /\ Write(ok)
        /\ db' = IF ok /\ HasRow(u)
                   THEN [db EXCEPT !.rows[u].box = ToInts(request.dirty[u])] ELSE db
  BY DEF set_object_aabb
<1> DEFINE b == request.dirty[u]
<1>2. /\ Visit(3, u) /\ aabb_cache' = Put(aabb_cache, u, b, AabbCap)
      /\ UNCHANGED <<chunk_cache, up>> /\ UNCHANGED <<born, disk, request>>
      /\ at = "aabb" /\ u \in todo
  BY DEF set_object_aabb, Visit, Loops
<1>3. lost' \in BOOLEAN /\ (lost => lost') /\ (~ok => lost')
  BY <1>1, WriteLost DEF IndInv, RequestOK
<1>4. u \in born /\ b \in Box /\ ToInts(b) \in Box /\ ToInts(b) # Null
  BY <1>2, DatabaseAssumption, BoxTypes DEF IndInv, PlaceOK, RequestOK
<1>5. /\ Sound(db)' /\ db'.chunks = db.chunks
      /\ DOMAIN db'.rows = DOMAIN db.rows
      /\ \A x \in DOMAIN db.rows \ {u} : db'.rows[x] = db.rows[x]
      /\ ok /\ HasRow(u) => db'.rows[u].box = ToInts(b)
  <2>1. CASE ok /\ HasRow(u)
    <3>1. db' = [rows |-> [db.rows EXCEPT ![u].box = ToInts(b)], chunks |-> db.chunks]
      BY <1>1, <2>1 DEF IndInv, Sound
    <3> HIDE DEF b
    <3>2. QED
      BY <1>2, <1>4, <2>1, <3>1 DEF IndInv, Sound, Row, HasRow
  <2>2. CASE ~(ok /\ HasRow(u))
    BY <1>1, <1>2, <2>2 DEF IndInv, Sound
  <2>3. QED
    BY <2>1, <2>2
<1>6. /\ AabbCacheOK'
      /\ u \in Keys(aabb_cache)' /\ aabb_cache'.items[u] = b
      /\ Keys(aabb_cache)' \subseteq Keys(aabb_cache) \cup {u}
      /\ \A x \in Keys(aabb_cache)' \ {u} : aabb_cache'.items[x] = aabb_cache.items[x]
  <2> HIDE DEF b
  <2>1. QED
    BY <1>2, <1>4, PutBox DEF IndInv, RequestOK
<1>7. AabbCacheCoherent'
  <2> SUFFICES ASSUME ~lost', NEW x \in Keys(aabb_cache)', x \in DOMAIN db'.rows
               PROVE  IF db'.rows[x].box = Null THEN aabb_cache'.items[x] = DefaultBox
                      ELSE ToInts(aabb_cache'.items[x]) = db'.rows[x].box
    BY DEF AabbCacheCoherent
  <2> HIDE DEF b
  <2>1. ~lost /\ ok
    BY <1>3 DEF IndInv, RequestOK
  <2>2. CASE x = u
    BY <1>4, <1>5, <1>6, <2>1, <2>2 DEF HasRow
  <2>3. CASE x # u
    BY <1>5, <1>6, <2>1, <2>3 DEF IndInv, AabbCacheCoherent
  <2>4. QED
    BY <2>2, <2>3
<1>8. ChunkCacheOK' /\ ChunkCacheCoherent'
  BY <1>2, <1>3, <1>5, IdsKept, ChunkCacheFrame DEF IndInv, Sound, RequestOK
<1>9. up' = Nil
  BY <1>2, VisitMoves
<1>10. QED
  BY <1>2, <1>3, <1>5, <1>6, <1>7, <1>8, <1>9, VisitPlace DEF IndInv

LEMMA FileObjectInv ==
    ASSUME IndInv, NEW u \in Objects, FileObject(u)
    PROVE  IndInv'
<1>1. /\ Visit(4, u) /\ UNCHANGED <<born, aabb_cache>>
      /\ \E c : FileUnder(u, c)
      /\ up' = IF HasRow(u) THEN db.rows[u].parent ELSE Nil
  BY DEF FileObject, Visit
<1>2. /\ Sound(db)' /\ SameBoxes(db, db')
      /\ ChunkCacheOK' /\ ChunkCacheCoherent'
      /\ lost' \in BOOLEAN /\ (lost => lost')
  BY <1>1, FileUnderOK DEF IndInv, RequestOK
<1>3. up' = Nil \/ up' \in born
  BY <1>1 DEF IndInv, Sound, HasRow
<1>4. AabbCacheOK' /\ Keys(aabb_cache)' = Keys(aabb_cache)
  BY <1>1 DEF IndInv, AabbCacheOK, WellFormed, Keys, Lists
<1>5. AabbCacheCoherent'
  BY <1>1, <1>2, <1>4 DEF IndInv, AabbCacheCoherent, SameBoxes, RequestOK
<1>6. QED
  BY <1>1, <1>2, <1>3, <1>4, <1>5, VisitPlace DEF IndInv

\* get_object_aabb caches what the row says.
LEMMA FileAncestorInv ==
    ASSUME IndInv, FileAncestor
    PROVE  IndInv'
<1>1. /\ up # Nil /\ UNCHANGED <<born, flushes, disk, request, at, todo>>
      /\ \E c : FileUnder(up, c)
      /\ aabb_cache' = IF up \in Keys(aabb_cache) THEN Got(aabb_cache, up)
                       ELSE Put(aabb_cache, up, CachedBox(up), AabbCap)
      /\ up' = IF HasRow(up) THEN db.rows[up].parent ELSE Nil
  BY DEF FileAncestor
<1>2. /\ Sound(db)' /\ SameBoxes(db, db')
      /\ ChunkCacheOK' /\ ChunkCacheCoherent'
      /\ lost' \in BOOLEAN /\ (lost => lost')
  BY <1>1, FileUnderOK DEF IndInv, RequestOK
<1>3. up \in born /\ up' \in born \cup {Nil} /\ at \in {"chunk", "commit"}
  BY <1>1 DEF IndInv, PlaceOK, Sound, HasRow
<1>4. Sound(disk)' /\ RequestOK' /\ PlaceOK' /\ NewUncached'
  BY <1>1, <1>2, <1>3 DEF IndInv, Sound, RequestOK, PlaceOK, NewUncached
<1>5. AabbCacheOK' /\ AabbCacheCoherent'
  <2>1. CASE up \in Keys(aabb_cache)
    <3> DEFINE d == Got(aabb_cache, up)
    <3>1. /\ WellFormed(d, Objects, Box) /\ Keys(d) = Keys(aabb_cache)
          /\ d.items = aabb_cache.items
      BY GotWellFormed DEF IndInv, AabbCacheOK, Got
    <3>2. QED
      BY <1>1, <1>2, <2>1, <3>1
         DEF IndInv, AabbCacheOK, AabbCacheCoherent, SameBoxes, RequestOK
  <2>2. CASE up \notin Keys(aabb_cache)
    <3> DEFINE b == CachedBox(up)
    <3>1. /\ b \in Box
          /\ HasRow(up) => b = Stored(db.rows[up])
      BY <2>2, BoxTypes, StoredBox DEF CachedBox, HasRow, IndInv, Sound
    <3> HIDE DEF b
    <3>2. aabb_cache' = Put(aabb_cache, up, b, AabbCap)
      BY <1>1, <2>2 DEF b
    <3>3. /\ AabbCacheOK'
          /\ up \in Keys(aabb_cache)' /\ aabb_cache'.items[up] = b
          /\ Keys(aabb_cache)' \subseteq Keys(aabb_cache) \cup {up}
          /\ \A x \in Keys(aabb_cache)' \ {up} :
               aabb_cache'.items[x] = aabb_cache.items[x]
      BY <1>1, <1>3, <3>1, <3>2, PutBox DEF IndInv, RequestOK
    <3>4. AabbCacheCoherent'
      <4> SUFFICES ASSUME ~lost', NEW x \in Keys(aabb_cache)', x \in DOMAIN db'.rows
                   PROVE  IF db'.rows[x].box = Null THEN aabb_cache'.items[x] = DefaultBox
                          ELSE ToInts(aabb_cache'.items[x]) = db'.rows[x].box
        BY DEF AabbCacheCoherent
      <4>1. ~lost /\ x \in DOMAIN db.rows /\ db'.rows[x].box = db.rows[x].box
        BY <1>2 DEF SameBoxes, IndInv, RequestOK
      <4>2. CASE x = up
        <5>1. b = Stored(db.rows[up]) /\ db.rows[up].box \in Box \cup {Null}
          BY <3>1, <4>1, <4>2 DEF HasRow, IndInv, Sound, Row
        <5>2. QED
          BY <3>3, <4>1, <4>2, <5>1, BoxTypes DEF Stored
      <4>3. CASE x # up
        BY <3>3, <4>1, <4>3 DEF IndInv, AabbCacheCoherent
      <4>4. QED
        BY <4>2, <4>3
    <3>5. QED
      BY <3>3, <3>4
  <2>3. QED
    BY <2>1, <2>2
<1>6. QED
  BY <1>2, <1>4, <1>5 DEF IndInv

-----------------------------------------------------------------------------
(* Tasks.                                                                  *)

LEMMA BeginInv ==
    ASSUME IndInv, NEW r \in Requests, Begin(r)
    PROVE  IndInv'
<1>1. /\ at = "idle" /\ r.upsert \cap born = {}
      /\ DOMAIN r.dirty \subseteq born \cup r.upsert
      /\ born' = born \cup r.upsert /\ request' = r /\ GoTo(1, r)
      /\ UNCHANGED <<disk, db, chunk_cache, aabb_cache, up, lost>>
  BY DEF Begin
<1>2. r.upsert \subseteq Objects /\ \A u \in DOMAIN r.dirty : r.dirty[u] \in Boxes
  BY DEF Requests, Maps
<1>3. \/ at' = "remove" /\ todo' = r.remove
      \/ at' = "upsert" /\ todo' = r.upsert
      \/ at' = "aabb" /\ todo' = DOMAIN r.dirty
      \/ at' = "chunk" /\ todo' = DOMAIN r.dirty
      \/ at' = "commit" /\ todo' = {}
  BY <1>1, NextLoop
<1>4. Sound(disk)' /\ Sound(db)'
  BY <1>1 DEF IndInv, Sound
<1>5. AabbCacheOK' /\ ChunkCacheOK' /\ ChunkCacheCoherent' /\ AabbCacheCoherent'
  BY <1>1 DEF IndInv, AabbCacheOK, ChunkCacheOK, ChunkCacheCoherent, AabbCacheCoherent,
              WellFormed, Keys, Lists, Ids
<1>6. RequestOK'
  BY <1>1, <1>2 DEF IndInv, RequestOK
<1>7. PlaceOK'
  BY <1>1, <1>3 DEF IndInv, PlaceOK
<1>8. NewUncached'
  BY <1>1 DEF IndInv, NewUncached, AabbCacheOK, Keys
<1>9. QED
  BY <1>4, <1>5, <1>6, <1>7, <1>8 DEF IndInv

LEMMA CommitInv ==
    ASSUME IndInv, Commit
    PROVE  IndInv'
<1>1. /\ disk' = db /\ UNCHANGED <<born, db, chunk_cache, aabb_cache, lost>>
      /\ request' = NoRequest /\ at' = "idle" /\ up' = Nil
  BY DEF Commit, Idle
<1>2. QED
  BY <1>1 DEF IndInv, Sound, AabbCacheOK, ChunkCacheOK, ChunkCacheCoherent,
              AabbCacheCoherent, WellFormed, Keys, Lists, Ids, RequestOK, PlaceOK,
              NewUncached, NoRequest

\* An empty cache is in order.
LEMMA EmptyOK ==
    /\ Keys(Empty) = {} /\ IsFiniteSet(Keys(Empty)) /\ Cardinality(Keys(Empty)) = 0
    /\ WellFormed(Empty, Objects, Box) /\ WellFormed(Empty, Keys(Empty), ChunkIds)
    /\ 0 <= Capacity(ChunkCap) /\ 0 <= Capacity(AabbCap)
<1>1. Keys(Empty) = {} /\ WellFormed(Empty, Objects, Box) /\ WellFormed(Empty, {}, ChunkIds)
  BY EmptyWellFormed
<1>2. IsFiniteSet({}) /\ Cardinality({}) = 0
  BY FS_EmptySet
<1>3. 0 <= Capacity(ChunkCap) /\ 0 <= Capacity(AabbCap)
  BY DatabaseAssumption DEF Capacity
<1>4. QED
  BY <1>1, <1>2, <1>3

\* After a crash both caches are empty.
LEMMA CrashInv ==
    ASSUME IndInv, Crash
    PROVE  IndInv'
<1>1. /\ db' = disk /\ lost' = FALSE /\ UNCHANGED <<born, disk>>
      /\ chunk_cache' = Empty /\ aabb_cache' = Empty
      /\ request' = NoRequest /\ at' = "idle" /\ up' = Nil
  BY DEF Crash, Idle
<1>2. ChunkCacheOK' /\ ChunkCacheCoherent'
  BY <1>1, EmptyOK DEF ChunkCacheOK, ChunkCacheCoherent
<1>3. AabbCacheOK' /\ AabbCacheCoherent'
  BY <1>1, EmptyOK DEF AabbCacheOK, AabbCacheCoherent
<1>4. QED
  BY <1>1, <1>2, <1>3 DEF IndInv, Sound, RequestOK, PlaceOK, NewUncached, NoRequest

LEMMA InitInv == Init => IndInv
<1> SUFFICES ASSUME Init PROVE IndInv
  OBVIOUS
<1>1. ChunkCacheOK /\ AabbCacheOK /\ ChunkCacheCoherent /\ AabbCacheCoherent
  BY EmptyOK DEF Init, ChunkCacheOK, AabbCacheOK, ChunkCacheCoherent, AabbCacheCoherent
<1>2. Sound(disk) /\ Sound(db)
  BY DEF Init, Sound
<1>3. QED
  BY <1>1, <1>2 DEF Init, IndInv, RequestOK, PlaceOK, NewUncached, NoRequest

LEMMA NextInv == IndInv /\ [Next]_vars => IndInv'
<1> SUFFICES ASSUME IndInv, [Next]_vars PROVE IndInv'
  OBVIOUS
<1>1. CASE \E r \in Requests : Begin(r)
  BY <1>1, BeginInv
<1>2. CASE Call
  BY <1>2, RemoveInv, UpsertInv, SetAabbInv, FileObjectInv, FileAncestorInv, CommitInv
     DEF Call
<1>3. CASE Crash
  BY <1>3, CrashInv
<1>4. CASE UNCHANGED vars
  BY <1>4 DEF vars, IndInv, Sound, AabbCacheOK, ChunkCacheOK, ChunkCacheCoherent,
              AabbCacheCoherent, WellFormed, Keys, Lists, Ids, RequestOK, PlaceOK,
              NewUncached
<1>5. QED
  BY <1>1, <1>2, <1>3, <1>4 DEF Next

LEMMA Invariance == Spec => []IndInv
BY InitInv, NextInv, PTL DEF Spec

-----------------------------------------------------------------------------
(* Theorems.                                                               *)

\* query_chunk never returns the id of another chunk, for any set of objects and
\* any capacity, across rollbacks and given-up insertions.
THEOREM ChunkIdsRight == Spec => []ChunkCacheCoherent
BY Invariance, PTL DEF IndInv

\* get_object_aabb answers from the cache what the row would have answered, but
\* for fractions: neither the cascade, nor evictions, nor default boxes cached for
\* rows without one put a wrong box there while no write is given up.
THEOREM CachedBoxesRight == Spec => []AabbCacheCoherent
BY Invariance, PTL DEF IndInv

\* In the file as in the transaction every row has its parent, whatever is
\* removed in cascade, refused by the foreign key, given up or rolled back.
THEOREM ParentsStored == Spec => [](Sound(disk) /\ Sound(db))
BY Invariance, PTL DEF IndInv
=============================================================================
