-------------------------- MODULE ObjectIndexProofs --------------------------
(***************************************************************************)
(* StreamSqliteDB implements ObjectIndex, for any family of objects, any   *)
(* boxes and any capacities of the caches; and what it has filed is found. *)
(***************************************************************************)
EXTENDS StreamSqliteDBProofs, ChunkProofs

-----------------------------------------------------------------------------
(* The operators of ObjectIndex are those of StreamSqliteDB.               *)

\* ObjectIndex takes its operators from a copy of Chunk; they are Chunk's own:
\* the powers of two,
LEMMA SameTwoTo == Index!TwoTo = TwoTo
BY DEF TwoTo, Index!TwoTo

\* the level of a box,
LEMMA SameLevel == \A b : Index!Level(b) = Level(b)
BY DEF Level, Fits, Side, TwoTo, Index!Level, Index!Fits, Index!Side, Index!TwoTo

\* its tile,
LEMMA SameChunk == \A b : Index!compute_chunk(b) = compute_chunk(b)
<1>1. \A l : Index!Side(l) = Side(l)
  BY SameTwoTo DEF Side, Index!Side
<1>2. \A x, l : Index!Masked(x, l) = Masked(x, l)
  BY <1>1 DEF Masked, Index!Masked
<1>3. \A x : Index!Truncated(x) = Truncated(x)
  BY DEF Truncated, Index!Truncated
<1>4. QED
  BY <1>2, <1>3, SameLevel DEF compute_chunk, Index!compute_chunk

\* the union of boxes,
LEMMA SameMerged == \A b, S : Index!Merged(b, S) = Merged(b, S)
BY DEF Merged, Index!Merged

\* the conversions,
LEMMA SameBoxOps ==
    /\ Index!DefaultBox = DefaultBox
    /\ \A b : Index!ToInts(b) = ToInts(b) /\ Index!OfInts(b) = OfInts(b)
    /\ \A row : Index!Stored(row) = Stored(row)
<1>1. Index!DefaultBox = DefaultBox
  BY DEF DefaultBox, Index!DefaultBox
<1>2. \A x : Index!Truncated(x) = Truncated(x)
  BY DEF Truncated, Index!Truncated
<1>3. \A b : Index!ToInts(b) = ToInts(b) /\ Index!OfInts(b) = OfInts(b)
  BY <1>2 DEF ToInts, OfInts, Index!ToInts, Index!OfInts
<1>4. \A row : Index!Stored(row) = Stored(row)
  BY <1>1, <1>3 DEF Stored, Index!Stored
<1>5. QED
  BY <1>1, <1>3, <1>4

\* What the flush files an object under is what ObjectIndex says.
LEMMA SameFiled ==
    \A r, u, b : Index!Filed(r, u, b) = compute_chunk(Merged(b, ChildBoxes(r, u)))
BY SameChunk, SameMerged, SameBoxOps DEF Index!Filed, ChildBoxes

\* and the boxes an ancestor may be filed by.
LEMMA SameReadings ==
    \A row : Index!Readings(row) =
        IF row.box = Null THEN {DefaultBox}
        ELSE {OfInts(row.box)} \cup {b \in Boxes : ToInts(b) = row.box}
BY SameBoxOps DEF Index!Readings

-----------------------------------------------------------------------------
(* Lineages.                                                               *)

\* Every row has its parent.
Rooted(r) == \A x \in DOMAIN r : r[x].parent \in DOMAIN r \cup {Nil}

\* S goes with every object its ancestors.
Upward(r, S) == S \subseteq DOMAIN r /\ \A y \in S : r[y].parent \in S \cup {Nil}

\* The lineage of an object, as the least set that goes upward.
LEMMA LineageIs ==
    ASSUME NEW r, NEW u
    PROVE  Index!Lineage(r, u) =
             {x \in DOMAIN r : \A S : Upward(r, S) /\ u \in S => x \in S}
BY DEF Index!Lineage, Upward

\* An object is in its lineage, which goes upward, is the least such set and
\* holds the lineages of its members.
LEMMA LineageBasics ==
    ASSUME NEW r, Rooted(r), NEW u \in DOMAIN r
    PROVE  /\ u \in Index!Lineage(r, u)
           /\ Upward(r, Index!Lineage(r, u))
           /\ \A S : Upward(r, S) /\ u \in S => Index!Lineage(r, u) \subseteq S
           /\ \A x \in Index!Lineage(r, u) : Index!Lineage(r, x) \subseteq Index!Lineage(r, u)
<1> DEFINE L(x) == Index!Lineage(r, x)
<1>1. u \in L(u)
  BY LineageIs
<1>2. Upward(r, L(u))
  <2>1. ASSUME NEW y \in L(u) PROVE r[y].parent \in L(u) \cup {Nil}
    <3>1. y \in DOMAIN r /\ \A S : Upward(r, S) /\ u \in S => y \in S
      BY LineageIs
    <3>2. \A S : Upward(r, S) /\ u \in S => r[y].parent \in S \cup {Nil}
      BY <3>1 DEF Upward
    <3>3. QED
      BY <3>1, <3>2, LineageIs DEF Rooted
  <2>2. L(u) \subseteq DOMAIN r
    BY LineageIs
  <2> HIDE DEF L
  <2>3. QED
    BY <2>1, <2>2 DEF Upward
<1>3. \A S : Upward(r, S) /\ u \in S => L(u) \subseteq S
  BY LineageIs
<1>4. \A x \in L(u) : L(x) \subseteq L(u)
  <2>1. \A x : \A S : Upward(r, S) /\ x \in S => L(x) \subseteq S
    BY LineageIs
  <2> HIDE DEF L
  <2>2. QED
    BY <1>2, <2>1
<1>5. QED
  BY <1>1, <1>2, <1>3, <1>4

\* What is above u, and not u, is above its parent or the parent itself.
LEMMA LineageStep ==
    ASSUME NEW r, Rooted(r), NEW u \in DOMAIN r
    PROVE  /\ r[u].parent = Nil => Index!Lineage(r, u) = {u}
           /\ r[u].parent # Nil =>
                /\ r[u].parent \in DOMAIN r
                /\ Index!Lineage(r, u) = {u} \cup Index!Lineage(r, r[u].parent)
<1> DEFINE L(x) == Index!Lineage(r, x)
           p == r[u].parent
<1>0. u \in L(u) /\ Upward(r, L(u)) /\ \A x \in L(u) : L(x) \subseteq L(u)
  BY LineageBasics
<1>00. \A S : Upward(r, S) /\ u \in S => L(u) \subseteq S
  BY LineageBasics
<1>1. CASE p = Nil
  <2>1. Upward(r, {u})
    BY <1>1 DEF Upward
  <2>2. QED
    BY <1>0, <1>00, <1>1, <2>1
<1>2. CASE p # Nil
  <2>1. p \in DOMAIN r /\ p \in L(u)
    BY <1>0, <1>2 DEF Rooted, Upward
  <2>2. Upward(r, L(p)) /\ p \in L(p)
    BY <2>1, LineageBasics
  <2>3. Upward(r, {u} \cup L(p))
    BY <2>2 DEF Upward
  <2>4. L(u) \subseteq {u} \cup L(p)
    BY <1>00, <2>3
  <2>5. L(p) \subseteq L(u)
    BY <1>0, <2>1
  <2> HIDE DEF L
  <2>6. L(u) = {u} \cup L(p)
    BY <1>0, <2>4, <2>5
  <2>7. QED
    BY <1>2, <2>1, <2>6 DEF L
<1>3. QED
  BY <1>1, <1>2

\* Parents as in Parent: nobody is above itself.
LEMMA LineageAcyclic ==
    ASSUME NEW r, Rooted(r), DOMAIN r \subseteq Objects,
           \A x \in DOMAIN r : r[x].parent = Parent[x],
           NEW u \in DOMAIN r, r[u].parent # Nil
    PROVE  u \notin Index!Lineage(r, r[u].parent)
<1> DEFINE L(x) == Index!Lineage(r, x)
           p == r[u].parent
           C == {x \in L(p) : u \in L(x)}
<1>1. SUFFICES ASSUME u \in L(p) PROVE FALSE
  OBVIOUS
<1>2. p \in DOMAIN r /\ p \in L(p) /\ Upward(r, L(p))
  BY LineageStep, LineageBasics
<1>3. C \in SUBSET Objects /\ p \in C
  BY <1>1, <1>2 DEF Upward
<1>4. PICK y \in C : Parent[y] \notin C
  <2> HIDE DEF C
  <2>1. QED
    BY <1>3, DatabaseAssumption
<1>5. y \in DOMAIN r /\ r[y].parent = Parent[y] /\ u \in L(y) /\ y \in L(p)
  BY <1>2, <1>4 DEF Upward
<1>6. CASE y = u
  BY <1>3, <1>4, <1>5, <1>6
<1>7. CASE y # u
  <2>1. Parent[y] # Nil /\ u \in L(Parent[y])
    BY <1>5, <1>7, LineageStep
  <2>2. Parent[y] \in L(p)
    BY <1>2, <1>5, <2>1 DEF Upward
  <2>3. QED
    BY <1>4, <2>1, <2>2
<1>8. QED
  BY <1>6, <1>7

\* Lineages depend on the parents alone.
LEMMA LineageSame ==
    ASSUME NEW r, NEW s, DOMAIN s = DOMAIN r,
           \A x \in DOMAIN r : s[x].parent = r[x].parent
    PROVE  \A u : Index!Lineage(s, u) = Index!Lineage(r, u)
<1>1. \A S : Upward(r, S) <=> Upward(s, S)
  BY DEF Upward
<1>2. QED
  BY <1>1, LineageIs

\* A part that is closed upward has the same lineages.
LEMMA LineagePart ==
    ASSUME NEW r, NEW s, Rooted(r), Rooted(s), DOMAIN s \subseteq DOMAIN r,
           \A x \in DOMAIN s : s[x].parent = r[x].parent
    PROVE  \A u \in DOMAIN s : Index!Lineage(s, u) = Index!Lineage(r, u)
<1> SUFFICES ASSUME NEW u \in DOMAIN s
             PROVE  Index!Lineage(s, u) = Index!Lineage(r, u)
  OBVIOUS
<1>1. Upward(r, Index!Lineage(s, u)) /\ u \in Index!Lineage(s, u)
  <2>1. Upward(s, Index!Lineage(s, u)) /\ u \in Index!Lineage(s, u)
    BY LineageBasics
  <2>2. QED
    BY <2>1 DEF Upward
<1>2. Index!Lineage(r, u) \subseteq Index!Lineage(s, u)
  BY <1>1, LineageBasics
<1>3. Upward(r, DOMAIN s)
  BY DEF Upward, Rooted
<1>4. Index!Lineage(r, u) \subseteq DOMAIN s
  BY <1>3, LineageBasics
<1>5. Upward(s, Index!Lineage(r, u)) /\ u \in Index!Lineage(r, u)
  <2>1. Upward(r, Index!Lineage(r, u)) /\ u \in Index!Lineage(r, u)
    BY LineageBasics
  <2>2. QED
    BY <1>4, <2>1 DEF Upward
<1>6. Index!Lineage(s, u) \subseteq Index!Lineage(r, u)
  BY <1>5, LineageBasics
<1>7. QED
  BY <1>2, <1>6

\* The cascade takes u and everything below it.
LEMMA CascadeIs ==
    ASSUME NEW r, Rooted(r), Nil \notin DOMAIN r, NEW u, u # Nil
    PROVE  Cascade(r, u) = [x \in {x \in DOMAIN r : u \notin Index!Lineage(r, x)} |-> r[x]]
<1> DEFINE Closed(S) == \A x \in DOMAIN r : r[x].parent \in S => x \in S
           D == {x \in DOMAIN r : \E S \in SUBSET DOMAIN r :
                    Closed(S \cup {u}) /\ x \notin S \cup {u}}
           E == {x \in DOMAIN r : u \notin Index!Lineage(r, x)}
<1>1. Cascade(r, u) = [x \in D |-> r[x]]
  BY DEF Cascade
<1>2. ASSUME NEW x \in D PROVE x \in E
  <2>1. PICK S \in SUBSET DOMAIN r : Closed(S \cup {u}) /\ x \notin S \cup {u}
    BY <1>2
  <2>2. Upward(r, DOMAIN r \ (S \cup {u}))
    BY <2>1 DEF Upward, Rooted
  <2>3. Index!Lineage(r, x) \subseteq DOMAIN r \ (S \cup {u})
    BY <2>1, <2>2, LineageBasics
  <2>4. QED
    BY <2>3
<1>3. ASSUME NEW x \in E PROVE x \in D
  <2> DEFINE S == DOMAIN r \ Index!Lineage(r, x)
  <2>1. Upward(r, Index!Lineage(r, x)) /\ x \in Index!Lineage(r, x)
    BY LineageBasics
  <2>2. Closed(S \cup {u})
    <3>1. ASSUME NEW y \in DOMAIN r, r[y].parent \in S \cup {u}, y \notin S \cup {u}
          PROVE  FALSE
      <4>1. y \in Index!Lineage(r, x)
        BY <3>1
      <4>2. r[y].parent \in Index!Lineage(r, x) \cup {Nil}
        BY <2>1, <4>1 DEF Upward
      <4>3. QED
        BY <3>1, <4>2
    <3>2. QED
      BY <3>1
  <2>3. x \notin S \cup {u} /\ S \in SUBSET DOMAIN r
    BY <2>1
  <2> HIDE DEF S
  <2>4. QED
    BY <2>2, <2>3
<1>4. D = E
  BY <1>2, <1>3
<1> HIDE DEF D
<1>5. QED
  BY <1>1, <1>4

-----------------------------------------------------------------------------
(* The invariant: how far the flush has come.                              *)

\* What the loops of the flush have visited.
Gone == IF at = "remove" THEN request.remove \ todo ELSE request.remove
Come ==
    IF at = "remove" THEN {} ELSE IF at = "upsert" THEN request.upsert \ todo
    ELSE request.upsert
Measured ==
    IF at \in {"remove", "upsert"} THEN {}
    ELSE IF at = "aabb" THEN DOMAIN request.dirty \ todo
    ELSE DOMAIN request.dirty
Refiled ==
    IF at \in {"remove", "upsert", "aabb"} THEN {}
    ELSE IF at = "chunk" THEN DOMAIN request.dirty \ todo
    ELSE DOMAIN request.dirty

\* u and what is above it, in the transaction and in the file.
LineOf(u) == Index!Lineage(db.rows, u)

\* The rows of the file that the removals so far have left.
Spared == {u \in DOMAIN disk.rows : Index!Lineage(disk.rows, u) \cap Gone = {}}

\* The rows are those of the file but for what was visited.
RowsRight ==
    /\ Spared \subseteq DOMAIN db.rows /\ DOMAIN db.rows \subseteq Spared \cup Come
    /\ \A u \in Come : Parent[u] \in Spared \cup {Nil} => u \in DOMAIN db.rows

BoxesRight ==
    \A u \in DOMAIN db.rows :
        db.rows[u].box = IF u \in Measured THEN ToInts(request.dirty[u])
                         ELSE IF u \in Spared THEN disk.rows[u].box ELSE Null

\* Dirty objects that have a row and were visited, and what is above them.
Sources == Refiled \cap DOMAIN db.rows
Above(u) == \E d \in Sources : u # d /\ u \in LineOf(d)

\* u is filed where this flush must file it.
FiledAnew(u) ==
    /\ db.rows[u].chunk # Null
    /\ LET c == db.chunks[db.rows[u].chunk]
       IN  \/ u \in Sources /\ c = Index!Filed(db.rows, u, request.dirty[u])
           \/ /\ Above(u)
              /\ \E b \in Index!Readings(db.rows[u]) : c = Index!Filed(db.rows, u, b)

\* u is filed where it was; what is above a visited object is still to come.
FiledBefore(u) ==
    /\ db.rows[u].chunk = IF u \in Spared THEN disk.rows[u].chunk ELSE Null
    /\ u \notin Sources
    /\ Above(u) => up # Nil /\ u \in LineOf(up)

ChunksRight == \A u \in DOMAIN db.rows : FiledAnew(u) \/ FiledBefore(u)

\* The walk goes up from a visited object.
WalkRight == up # Nil => up \in DOMAIN db.rows /\ Above(up)

\* Chunks are only added.
ChunksKept ==
    /\ Len(disk.chunks) <= Len(db.chunks)
    /\ \A i \in 1..Len(disk.chunks) : db.chunks[i] = disk.chunks[i]

Progress ==
    ~lost /\ at # "idle" =>
        RowsRight /\ BoxesRight /\ ChunksRight /\ WalkRight /\ ChunksKept

\* The types of TypeOK that the proofs above did not need, the rows' parents and
\* ids, and where boxes come from.
Typed(s) ==
    /\ s.chunks \in Seq(Chunks)
    /\ \A u \in DOMAIN s.rows :
        /\ s.rows[u].parent = Parent[u]
        /\ s.rows[u].chunk \in 1..Len(s.chunks) \cup {Null}
        /\ s.rows[u].box = Null \/ \E b \in Boxes : s.rows[u].box = ToInts(b)

CachedFrom ==
    /\ Keys(chunk_cache) \subseteq Chunks
    /\ \A u \in Keys(aabb_cache) :
        LET b == aabb_cache.items[u] IN b \in Boxes \/ b = OfInts(ToInts(b))

TaskOK ==
    /\ flushes \in 0..MaxFlushes
    /\ at \in {"idle", "remove", "upsert", "aabb", "chunk", "commit"}
    /\ at = "idle" => db = disk /\ todo = {} /\ up = Nil /\ request = NoRequest
    /\ at # "idle" => request # NoRequest
    /\ at = "remove" => todo \subseteq request.remove
    /\ at = "commit" => todo = {}
    /\ request = [remove |-> request.remove, upsert |-> request.upsert,
                  dirty |-> request.dirty]
    /\ request.remove \subseteq born
    /\ request.upsert \cap DOMAIN disk.rows = {}
    /\ holds \in BOOLEAN /\ (lost => Contention)

IInv == Typed(disk) /\ Typed(db) /\ CachedFrom /\ TaskOK /\ Progress

-----------------------------------------------------------------------------
(* Going from loop to loop.                                                *)

\* The task goes on with the first loop from the i-th that has something to do:
\* the loops before it are done, those from it on have not begun.
LEMMA GoToDone ==
    ASSUME NEW i \in 1..5, GoTo(i, request')
    PROVE  /\ at' \in {"remove", "upsert", "aabb", "chunk", "commit"}
           /\ at' = "remove" => todo' = request'.remove
           /\ at' = "commit" => todo' = {}
           /\ todo' \subseteq request'.remove \cup request'.upsert \cup DOMAIN request'.dirty
           /\ Gone' = IF i <= 1 THEN {} ELSE request'.remove
           /\ Come' = IF i <= 2 THEN {} ELSE request'.upsert
           /\ Measured' = IF i <= 3 THEN {} ELSE DOMAIN request'.dirty
           /\ Refiled' = IF i <= 4 THEN {} ELSE DOMAIN request'.dirty
<1> DEFINE r == request'
           left == {j \in i..Len(Loops) : Visits(r, Loops[j]) # {}}
<1>0. Len(Loops) = 4
  BY DEF Loops
<1>00. i = 1 \/ i = 2 \/ i = 3 \/ i = 4 \/ i = 5
  OBVIOUS
<1>1. /\ Visits(r, Loops[1]) = r.remove /\ Visits(r, Loops[2]) = r.upsert
      /\ Visits(r, Loops[3]) = DOMAIN r.dirty /\ Visits(r, Loops[4]) = DOMAIN r.dirty
      /\ Loops[1] = "remove" /\ Loops[2] = "upsert" /\ Loops[3] = "aabb"
      /\ Loops[4] = "chunk"
  BY DEF Loops, Visits
<1>2. CASE left = {}
  <2>1. at' = "commit" /\ todo' = {}
    BY <1>2 DEF GoTo
  <2>2. /\ i <= 1 => r.remove = {}
        /\ i <= 2 => r.upsert = {}
        /\ i <= 3 => DOMAIN r.dirty = {}
        /\ i <= 4 => DOMAIN r.dirty = {}
    <3>1. \A j \in i..4 : Visits(r, Loops[j]) = {}
      BY <1>0, <1>2
    <3>2. QED
      BY <1>00, <1>1, <3>1
  <2>3. QED
    BY <2>1, <2>2 DEF Gone, Come, Measured, Refiled
<1>3. CASE left # {}
  <2> DEFINE k == CHOOSE j \in left : \A q \in left : j <= q
  <2>1. left \subseteq Nat
    BY <1>0
  <2>2. k \in left /\ \A q \in left : k <= q
    <3> HIDE DEF left
    <3>1. QED
      BY <1>3, <2>1, NatMin
  <2>3. at' = Loops[k] /\ todo' = Visits(r, Loops[k])
    BY <1>3 DEF GoTo
  <2> HIDE DEF k
  <2>4. k \in i..4 /\ k \in 1..4 /\ \A j \in i..4 : j < k => Visits(r, Loops[j]) = {}
    <3>1. k \in i..4
      BY <1>0, <2>2
    <3>2. ASSUME NEW j \in i..4, j < k PROVE Visits(r, Loops[j]) = {}
      <4>1. j \notin left
        BY <2>2, <3>1, <3>2
      <4>2. QED
        BY <1>0, <4>1
    <3>3. QED
      BY <3>1, <3>2
  <2> HIDE DEF left
  <2>5. /\ i <= 1 /\ 1 < k => r.remove = {}
        /\ i <= 2 /\ 2 < k => r.upsert = {}
        /\ i <= 3 /\ 3 < k => DOMAIN r.dirty = {}
    BY <1>00, <1>1, <2>4
  <2>6. CASE k = 1
    BY <1>1, <2>3, <2>4, <2>6 DEF Gone, Come, Measured, Refiled
  <2>7. CASE k = 2
    BY <1>1, <2>3, <2>4, <2>5, <2>7 DEF Gone, Come, Measured, Refiled
  <2>8. CASE k = 3
    BY <1>1, <2>3, <2>4, <2>5, <2>8 DEF Gone, Come, Measured, Refiled
  <2>9. CASE k = 4
    BY <1>1, <2>3, <2>4, <2>5, <2>9 DEF Gone, Come, Measured, Refiled
  <2>10. QED
    BY <2>4, <2>6, <2>7, <2>8, <2>9
<1>4. QED
  BY <1>2, <1>3

\* A visit adds u to what its loop has done, and leaves the other loops alone.
LEMMA VisitDone ==
    ASSUME IndInv, TaskOK, NEW i \in 1..4, NEW u, Visit(i, u)
    PROVE  /\ at = Loops[i] /\ up = Nil /\ u \in todo
           /\ UNCHANGED <<born, flushes, disk, request>>
           /\ at' \in {"remove", "upsert", "aabb", "chunk", "commit"}
           /\ at' = "remove" => todo' \subseteq request.remove
           /\ at' = "commit" => todo' = {}
           /\ Gone' = IF i = 1 THEN Gone \cup {u} ELSE Gone
           /\ Come' = IF i = 2 THEN Come \cup {u} ELSE Come
           /\ Measured' = IF i = 3 THEN Measured \cup {u} ELSE Measured
           /\ Refiled' = IF i = 4 THEN Refiled \cup {u} ELSE Refiled
<1>0. i = 1 \/ i = 2 \/ i = 3 \/ i = 4
  OBVIOUS
<1>1. /\ at = Loops[i] /\ up = Nil /\ u \in todo
      /\ UNCHANGED <<born, flushes, disk, request>>
  BY DEF Visit
<1>2. /\ i = 1 => at = "remove" /\ todo \subseteq request.remove
      /\ i = 2 => at = "upsert" /\ todo \subseteq request.upsert
      /\ i = 3 => at = "aabb" /\ todo \subseteq DOMAIN request.dirty
      /\ i = 4 => at = "chunk" /\ todo \subseteq DOMAIN request.dirty
  BY <1>1 DEF Loops, IndInv, PlaceOK, TaskOK
<1>3. CASE todo = {u}
  <2>1. GoTo(i + 1, request') /\ i + 1 \in 1..5
    BY <1>1, <1>3 DEF Visit
  <2>2. /\ at' \in {"remove", "upsert", "aabb", "chunk", "commit"}
        /\ at' = "remove" => todo' = request'.remove
        /\ at' = "commit" => todo' = {}
        /\ Gone' = request'.remove
        /\ Come' = IF i + 1 <= 2 THEN {} ELSE request'.upsert
        /\ Measured' = IF i + 1 <= 3 THEN {} ELSE DOMAIN request'.dirty
        /\ Refiled' = IF i + 1 <= 4 THEN {} ELSE DOMAIN request'.dirty
    BY <2>1, GoToDone
  <2>3. CASE i = 1
    BY <1>1, <1>2, <1>3, <2>2, <2>3 DEF Gone, Come, Measured, Refiled
  <2>4. CASE i = 2
    BY <1>1, <1>2, <1>3, <2>2, <2>4 DEF Gone, Come, Measured, Refiled
  <2>5. CASE i = 3
    BY <1>1, <1>2, <1>3, <2>2, <2>5 DEF Gone, Come, Measured, Refiled
  <2>6. CASE i = 4
    BY <1>1, <1>2, <1>3, <2>2, <2>6 DEF Gone, Come, Measured, Refiled
  <2>7. QED
    BY <1>0, <2>3, <2>4, <2>5, <2>6
<1>4. CASE todo # {u}
  <2>1. todo' = todo \ {u} /\ at' = at
    BY <1>4 DEF Visit
  <2>2. CASE i = 1
    BY <1>1, <1>2, <2>1, <2>2 DEF Gone, Come, Measured, Refiled
  <2>3. CASE i = 2
    BY <1>1, <1>2, <2>1, <2>3 DEF Gone, Come, Measured, Refiled
  <2>4. CASE i = 3
    BY <1>1, <1>2, <2>1, <2>4 DEF Gone, Come, Measured, Refiled
  <2>5. CASE i = 4
    BY <1>1, <1>2, <2>1, <2>5 DEF Gone, Come, Measured, Refiled
  <2>6. QED
    BY <1>0, <2>2, <2>3, <2>4, <2>5
<1>5. QED
  BY <1>3, <1>4

-----------------------------------------------------------------------------
(* Filing.                                                                 *)

\* What SameBoxes says, and the same parents.
SameShape(s, t) ==
    /\ DOMAIN t.rows = DOMAIN s.rows
    /\ \A x \in DOMAIN s.rows : t.rows[x].box = s.rows[x].box
                               /\ t.rows[x].parent = s.rows[x].parent

\* In t, u is filed under c.
FiledAt(t, u, c) ==
    t.rows[u].chunk \in 1..Len(t.chunks) /\ t.chunks[t.rows[u].chunk] = c

\* u, and nothing else, may have been filed under c, which may be new.
Files(s, t, u, c) ==
    /\ SameShape(s, t)
    /\ t.chunks = s.chunks \/ t.chunks = Append(s.chunks, c)
    /\ \A x \in DOMAIN s.rows : x # u => t.rows[x].chunk = s.rows[x].chunk
    /\ u \in DOMAIN s.rows => t.rows[u].chunk = s.rows[u].chunk \/ FiledAt(t, u, c)

\* A write takes the lock, or is given up under contention.
LEMMA WriteHolds ==
    ASSUME holds \in BOOLEAN, lost => Contention, NEW ok \in BOOLEAN, Write(ok)
    PROVE  holds' \in BOOLEAN /\ (lost' => Contention)
<1>1. CASE ok /\ holds' = TRUE /\ UNCHANGED lost
  BY <1>1
<1>2. CASE ~ok /\ Contention /\ ~holds /\ lost' = TRUE /\ UNCHANGED holds
  BY <1>2
<1>3. QED
  BY <1>1, <1>2 DEF Write

\* set_object_chunk files the row under the chunk of the id, unless the write is
\* given up.
LEMMA SetChunkFiles ==
    ASSUME Sound(db), Typed(db), lost \in BOOLEAN, holds \in BOOLEAN,
           lost => Contention, NEW u, NEW c, NEW id \in Ids(c) \cup {-1},
           set_object_chunk(u, id)
    PROVE  /\ Files(db, db', u, c)
           /\ holds' \in BOOLEAN /\ (lost' => Contention)
           /\ ~lost' /\ id # -1 /\ u \in DOMAIN db.rows => FiledAt(db', u, c)
<1>1. PICK ok \in BOOLEAN :
        /\ Write(ok)
        /\ db' = IF ok /\ HasRow(u) /\ id # -1
                   THEN [db EXCEPT !.rows[u].chunk = id] ELSE db
  BY DEF set_object_chunk
<1>2. holds' \in BOOLEAN /\ (lost' => Contention) /\ (~ok => lost')
  BY <1>1, WriteHolds, WriteLost
<1>3. CASE ok /\ HasRow(u) /\ id # -1
  <2>1. db' = [rows |-> [db.rows EXCEPT ![u].chunk = id], chunks |-> db.chunks]
    BY <1>1, <1>3 DEF Sound
  <2>2. id \in 1..Len(db.chunks) /\ db.chunks[id] = c /\ u \in DOMAIN db.rows
    BY <1>3 DEF Ids, HasRow
  <2>3. /\ DOMAIN db'.rows = DOMAIN db.rows /\ db'.chunks = db.chunks
        /\ db'.rows[u] = [db.rows[u] EXCEPT !.chunk = id]
        /\ \A x \in DOMAIN db.rows : x # u => db'.rows[x] = db.rows[x]
    BY <2>1, <2>2 DEF Sound
  <2>4. db.rows[u] \in Row
    BY <2>2 DEF Sound
  <2>5. /\ db'.rows[u].chunk = id
        /\ db'.rows[u].box = db.rows[u].box /\ db'.rows[u].parent = db.rows[u].parent
    BY <2>3, <2>4 DEF Row
  <2>6. FiledAt(db', u, c)
    BY <2>2, <2>3, <2>5 DEF FiledAt
  <2>7. SameShape(db, db')
    BY <2>3, <2>5 DEF SameShape
  <2>8. QED
    BY <1>2, <2>3, <2>6, <2>7 DEF Files
<1>4. CASE ~(ok /\ HasRow(u) /\ id # -1)
  <2>1. db' = db
    BY <1>1, <1>4
  <2>2. QED
    BY <1>2, <1>4, <2>1 DEF Files, SameShape, HasRow
<1>5. QED
  BY <1>3, <1>4

\* query_chunk and set_object_chunk: an id that was cached, found or made files
\* the object under c, unless a write is given up.
LEMMA FileUnderFiles ==
    ASSUME IndInv, Typed(db), Keys(chunk_cache) \subseteq Chunks,
           holds \in BOOLEAN, lost => Contention,
           NEW u, NEW c \in Chunks, FileUnder(u, c)
    PROVE  /\ Files(db, db', u, c)
           /\ Keys(chunk_cache)' \subseteq Chunks
           /\ holds' \in BOOLEAN /\ (lost' => Contention)
           /\ ~lost' /\ u \in DOMAIN db.rows => FiledAt(db', u, c)
<1>0. /\ Sound(db) /\ lost \in BOOLEAN /\ ChunkCacheOK /\ ChunkCacheCoherent
      /\ db.chunks \in Seq(Chunks) /\ ChunkCap \in Nat
  BY DatabaseAssumption DEF IndInv, RequestOK, Typed
<1>00. ASSUME NEW id \in ChunkIds, Remember(c, id)
       PROVE  Keys(chunk_cache)' \subseteq Chunks
  <2>1. Keys(Put(chunk_cache, c, id, ChunkCap)) \subseteq Keys(chunk_cache) \cup {c}
    BY <1>0, <1>00, PutNew DEF ChunkCacheOK
  <2>2. QED
    BY <1>00, <2>1 DEF Remember
<1>000. \A id \in Ids(c) : id \in ChunkIds /\ id # -1
  BY <1>0 DEF Ids, ChunkIds
<1>1. CASE /\ Cached(c) /\ chunk_cache' = Got(chunk_cache, c)
           /\ set_object_chunk(u, chunk_cache.items[c])
  <2> DEFINE id == chunk_cache.items[c]
  <2>1. id \in Ids(c) \/ (id = -1 /\ lost)
    BY <1>0, <1>1 DEF ChunkCacheCoherent, Cached
  <2>2. id \in Ids(c) \cup {-1}
    BY <2>1
  <2>3. set_object_chunk(u, id)
    BY <1>1
  <2> HIDE DEF id
  <2>4. /\ Files(db, db', u, c)
        /\ holds' \in BOOLEAN /\ (lost' => Contention)
        /\ ~lost' /\ id # -1 /\ u \in DOMAIN db.rows => FiledAt(db', u, c)
    BY <1>0, <2>2, <2>3, SetChunkFiles
  <2>5. lost => lost'
    BY <1>0, WriteLost, <2>3 DEF set_object_chunk
  <2>6. Keys(chunk_cache)' = Keys(chunk_cache)
    BY <1>0, <1>1, GotWellFormed DEF ChunkCacheOK
  <2>7. QED
    BY <1>0, <1>000, <2>1, <2>4, <2>5, <2>6
<1>2. ASSUME NEW id \in Ids(c), Remember(c, id), set_object_chunk(u, id)
      PROVE  /\ Files(db, db', u, c)
             /\ Keys(chunk_cache)' \subseteq Chunks
             /\ holds' \in BOOLEAN /\ (lost' => Contention)
             /\ ~lost' /\ u \in DOMAIN db.rows => FiledAt(db', u, c)
  <2>1. /\ Files(db, db', u, c)
        /\ holds' \in BOOLEAN /\ (lost' => Contention)
        /\ ~lost' /\ id # -1 /\ u \in DOMAIN db.rows => FiledAt(db', u, c)
    BY <1>0, <1>2, SetChunkFiles
  <2>2. QED
    BY <1>00, <1>000, <1>2, <2>1
<1>3. ASSUME NEW id, id = Len(db.chunks) + 1,
             Write(TRUE), Remember(c, id),
             db' = [rows |-> IF HasRow(u) THEN [db.rows EXCEPT ![u].chunk = id] ELSE db.rows,
                    chunks |-> Append(db.chunks, c)]
      PROVE  /\ Files(db, db', u, c)
             /\ Keys(chunk_cache)' \subseteq Chunks
             /\ holds' \in BOOLEAN /\ (lost' => Contention)
             /\ ~lost' /\ u \in DOMAIN db.rows => FiledAt(db', u, c)
  <2>1. id \in ChunkIds /\ id \in 1..Len(Append(db.chunks, c)) /\ Append(db.chunks, c)[id] = c
    BY <1>0, <1>3 DEF ChunkIds
  <2>2. Keys(chunk_cache)' \subseteq Chunks
    BY <1>00, <1>3, <2>1
  <2>3. holds' \in BOOLEAN /\ (lost' => Contention)
    BY <1>3 DEF Write
  <2>4. CASE HasRow(u)
    <3>1. /\ DOMAIN db'.rows = DOMAIN db.rows /\ db'.chunks = Append(db.chunks, c)
          /\ db'.rows[u] = [db.rows[u] EXCEPT !.chunk = id]
          /\ \A x \in DOMAIN db.rows : x # u => db'.rows[x] = db.rows[x]
          /\ u \in DOMAIN db.rows
      BY <1>0, <1>3, <2>4 DEF Sound, HasRow
    <3>2. db.rows[u] \in Row
      BY <1>0, <3>1 DEF Sound
    <3>3. /\ db'.rows[u].chunk = id
          /\ db'.rows[u].box = db.rows[u].box /\ db'.rows[u].parent = db.rows[u].parent
      BY <3>1, <3>2 DEF Row
    <3>4. FiledAt(db', u, c)
      BY <2>1, <3>1, <3>3 DEF FiledAt
    <3>5. SameShape(db, db')
      BY <3>1, <3>3 DEF SameShape
    <3>6. QED
      BY <2>2, <2>3, <3>1, <3>4, <3>5 DEF Files
  <2>5. CASE ~HasRow(u)
    BY <1>3, <2>2, <2>3, <2>5 DEF Files, SameShape, HasRow
  <2>6. QED
    BY <2>4, <2>5
<1>4. CASE Remember(c, -1) /\ lost' = TRUE /\ UNCHANGED db /\ holds' \in BOOLEAN /\ Contention
  <2>1. -1 \in ChunkIds
    BY DEF ChunkIds
  <2>2. Keys(chunk_cache)' \subseteq Chunks
    BY <1>00, <1>4, <2>1
  <2>3. QED
    BY <1>4, <2>2 DEF Files, SameShape
<1>5. QED
  BY <1>1, <1>2, <1>3, <1>4 DEF FileUnder

\* Filing keeps the types.
LEMMA FilesTyped ==
    ASSUME NEW s, NEW t, NEW u, NEW c \in Chunks, Typed(s), Files(s, t, u, c)
    PROVE  Typed(t)
<1>1. s.chunks \in Seq(Chunks)
  BY DEF Typed
<1>2. t.chunks \in Seq(Chunks) /\ Len(s.chunks) \in Nat /\ Len(t.chunks) \in Nat
      /\ Len(s.chunks) <= Len(t.chunks)
  <2>1. CASE t.chunks = s.chunks
    BY <1>1, <2>1
  <2>2. CASE t.chunks = Append(s.chunks, c)
    BY <1>1, <2>2
  <2>3. QED
    BY <2>1, <2>2 DEF Files
<1>3. ASSUME NEW x \in DOMAIN t.rows
      PROVE  /\ t.rows[x].parent = Parent[x]
             /\ t.rows[x].chunk \in 1..Len(t.chunks) \cup {Null}
             /\ t.rows[x].box = Null \/ \E b \in Boxes : t.rows[x].box = ToInts(b)
  <2>1. /\ x \in DOMAIN s.rows /\ t.rows[x].box = s.rows[x].box
        /\ t.rows[x].parent = s.rows[x].parent
    BY DEF Files, SameShape
  <2>2. t.rows[x].chunk = s.rows[x].chunk \/ t.rows[x].chunk \in 1..Len(t.chunks)
    BY <2>1 DEF Files, FiledAt
  <2>3. s.rows[x].chunk \in 1..Len(s.chunks) \cup {Null}
    BY <2>1 DEF Typed
  <2>4. t.rows[x].chunk \in 1..Len(t.chunks) \cup {Null}
    BY <1>2, <2>2, <2>3
  <2>5. QED
    BY <2>1, <2>4 DEF Typed
<1>4. QED
  BY <1>2, <1>3 DEF Typed

-----------------------------------------------------------------------------
(* Calls.                                                                  *)

\* The rows of both states are families.
LEMMA Families ==
    ASSUME IndInv, Typed(disk), Typed(db)
    PROVE  \A s \in {disk, db} :
             /\ Rooted(s.rows) /\ DOMAIN s.rows \subseteq Objects
             /\ Nil \notin DOMAIN s.rows
             /\ \A x \in DOMAIN s.rows : s.rows[x].parent = Parent[x] /\ s.rows[x] \in Row
BY DatabaseAssumption DEF IndInv, RequestOK, Sound, Typed, Rooted

\* Visiting an object stays within the loops of the task.
LEMMA VisitTask ==
    ASSUME IndInv, IInv, NEW i \in 1..4, NEW u, Visit(i, u),
           holds' \in BOOLEAN, lost' => Contention
    PROVE  TaskOK' /\ Typed(disk)' /\ at # "idle"
<1>1. /\ at = Loops[i] /\ UNCHANGED <<born, flushes, disk, request>>
      /\ at' \in {"remove", "upsert", "aabb", "chunk", "commit"}
      /\ at' = "remove" => todo' \subseteq request.remove
      /\ at' = "commit" => todo' = {}
  BY VisitDone DEF IInv
<1>2. at # "idle" /\ at' # "idle"
  <2>1. i = 1 \/ i = 2 \/ i = 3 \/ i = 4
    OBVIOUS
  <2>2. QED
    BY <1>1, <2>1 DEF Loops
<1>3. TaskOK'
  BY <1>1, <1>2 DEF IInv, TaskOK
<1>4. QED
  BY <1>1, <1>2, <1>3 DEF IInv, Typed

\* A removal takes the object and what is below it, and nothing else.
LEMMA RemoveProgress ==
    ASSUME IndInv, IInv, NEW u \in Objects, remove_object(u)
    PROVE  IInv'
<1>1. PICK ok \in BOOLEAN :
        /\ Write(ok)
        /\ db' = IF ok THEN [db EXCEPT !.rows = Cascade(@, u)] ELSE db
  BY DEF remove_object
<1>2. /\ Visit(1, u) /\ aabb_cache' = Removed(aabb_cache, u)
      /\ UNCHANGED <<chunk_cache, up>> /\ lost \in BOOLEAN
  BY DEF remove_object, IndInv, RequestOK
<1>3. /\ holds' \in BOOLEAN /\ (lost' => Contention)
      /\ (lost => lost') /\ (~ok => lost')
  BY <1>1, <1>2, WriteHolds, WriteLost DEF IInv, TaskOK
<1>4. TaskOK' /\ Typed(disk)' /\ at # "idle"
  BY <1>2, <1>3, VisitTask
<1>5. /\ at = "remove" /\ UNCHANGED <<born, flushes, disk, request>>
      /\ Gone' = Gone \cup {u} /\ Come' = Come /\ Measured' = Measured /\ Refiled' = Refiled
      /\ Come = {} /\ Measured = {} /\ Refiled = {}
  BY <1>2, VisitDone DEF IInv, Loops, Come, Measured, Refiled
<1> DEFINE D == {x \in DOMAIN db.rows : u \notin Index!Lineage(db.rows, x)}
<1>6. ok => db' = [rows |-> [x \in D |-> db.rows[x]], chunks |-> db.chunks]
  <2>1. u # Nil /\ Rooted(db.rows) /\ Nil \notin DOMAIN db.rows
    BY Families, DatabaseAssumption DEF IInv
  <2>2. Cascade(db.rows, u) = [x \in D |-> db.rows[x]]
    BY <2>1, CascadeIs
  <2> HIDE DEF D
  <2>3. QED
    BY <1>1, <2>2 DEF IndInv, Sound
<1>7. Typed(db)'
  <2>1. CASE ok
    BY <1>6, <2>1 DEF IInv, Typed
  <2>2. CASE ~ok
    BY <1>1, <2>2 DEF IInv, Typed
  <2>3. QED
    BY <2>1, <2>2
<1>8. CachedFrom'
  <2> DEFINE d == Removed(aabb_cache, u)
  <2>1. /\ Keys(d) = Keys(aabb_cache) \ {u}
        /\ \A x \in Keys(d) : d.items[x] = aabb_cache.items[x]
    BY RemovedWellFormed, DatabaseAssumption DEF IndInv, AabbCacheOK
  <2> HIDE DEF d
  <2>2. aabb_cache' = d /\ chunk_cache' = chunk_cache
    BY <1>2 DEF d
  <2>3. QED
    BY <2>1, <2>2 DEF IInv, CachedFrom, Keys
<1>9. Progress'
  <2> SUFFICES ASSUME ~lost'
               PROVE  (RowsRight /\ BoxesRight /\ ChunksRight /\ WalkRight /\ ChunksKept)'
    BY DEF Progress
  <2>1. ok /\ ~lost /\ RowsRight /\ BoxesRight /\ ChunksRight /\ ChunksKept /\ up = Nil
    BY <1>2, <1>3, <1>4, VisitDone DEF IInv, Progress
  <2>2. DOMAIN db.rows = Spared
    BY <1>5, <2>1 DEF RowsRight
  <2>3. \A x \in DOMAIN db.rows : Index!Lineage(db.rows, x) = Index!Lineage(disk.rows, x)
    <3>1. /\ Rooted(disk.rows) /\ Rooted(db.rows) /\ DOMAIN db.rows \subseteq DOMAIN disk.rows
          /\ \A x \in DOMAIN db.rows : db.rows[x].parent = disk.rows[x].parent
      BY <2>2, Families DEF IInv, Spared
    <3>2. QED
      BY <3>1, LineagePart
  <2>4. D = Spared'
    BY <1>5, <2>2, <2>3 DEF Spared
  <2>5. /\ DOMAIN db'.rows = Spared' /\ Spared' \subseteq Spared
        /\ \A x \in Spared' : db'.rows[x] = db.rows[x]
        /\ db'.chunks = db.chunks
    <3> HIDE DEF D
    <3>1. db' = [rows |-> [x \in D |-> db.rows[x]], chunks |-> db.chunks]
      BY <1>6, <2>1
    <3>2. D \subseteq Spared
      BY <2>2 DEF D
    <3>3. QED
      BY <2>4, <3>1, <3>2
  <2>6. RowsRight'
    BY <1>5, <2>5 DEF RowsRight
  <2>7. BoxesRight'
    BY <1>5, <2>1, <2>2, <2>5 DEF BoxesRight
  <2>8. Sources' = {} /\ Sources = {}
    BY <1>5 DEF Sources
  <2>9. ChunksRight'
    <3>1. ASSUME NEW x \in Spared' PROVE FiledBefore(x)'
      <4>1. x \in DOMAIN db.rows /\ x \in Spared
        BY <2>2, <2>5
      <4>2. FiledBefore(x)
        BY <2>1, <2>8, <4>1 DEF ChunksRight, FiledAnew, Above
      <4>3. ~Above(x)' /\ x \notin Sources'
        BY <2>8 DEF Above
      <4>4. db'.rows[x].chunk = disk'.rows[x].chunk
        BY <1>5, <2>5, <4>1, <4>2 DEF FiledBefore
      <4>5. QED
        BY <4>3, <4>4 DEF FiledBefore
    <3>2. QED
      BY <2>5, <3>1 DEF ChunksRight
  <2>10. WalkRight'
    BY <1>2, <2>1 DEF WalkRight
  <2>11. ChunksKept'
    BY <1>5, <2>1, <2>5 DEF ChunksKept
  <2>12. QED
    BY <2>6, <2>7, <2>9, <2>10, <2>11
<1>10. QED
  BY <1>4, <1>7, <1>8, <1>9 DEF IInv

\* An insertion adds a row to those of the file, if its parent has one.
LEMMA UpsertProgress ==
    ASSUME IndInv, IInv, NEW u \in Objects, upsert_object_uuids(u)
    PROVE  IInv'
<1>1. PICK ok \in BOOLEAN :
        /\ Write(ok)
        /\ db' = IF ok /\ Parent[u] \in DOMAIN db.rows \cup {Nil}
                   THEN [db EXCEPT !.rows = Upserted(@, u)] ELSE db
  BY DEF upsert_object_uuids
<1>2. Visit(2, u) /\ UNCHANGED <<chunk_cache, aabb_cache, up>> /\ lost \in BOOLEAN
  BY DEF upsert_object_uuids, IndInv, RequestOK
<1>3. /\ holds' \in BOOLEAN /\ (lost' => Contention)
      /\ (lost => lost') /\ (~ok => lost')
  BY <1>1, <1>2, WriteHolds, WriteLost DEF IInv, TaskOK
<1>4. TaskOK' /\ Typed(disk)' /\ at # "idle"
  BY <1>2, <1>3, VisitTask
<1>5. /\ at = "upsert" /\ UNCHANGED <<born, flushes, disk, request>> /\ u \in todo
      /\ Gone' = Gone /\ Come' = Come \cup {u} /\ Measured' = Measured /\ Refiled' = Refiled
      /\ u \notin Come /\ Measured = {} /\ Refiled = {} /\ u \in request.upsert
  BY <1>2, VisitDone DEF IInv, Loops, Come, Measured, Refiled, IndInv, PlaceOK
<1>6. Spared' = Spared /\ u \notin DOMAIN disk.rows /\ u \notin Spared
  BY <1>5 DEF Spared, IInv, TaskOK
<1> DEFINE D == DOMAIN db.rows \cup {u}
           new == [parent |-> Parent[u], box |-> Null, chunk |-> Null]
           Inserted == ok /\ Parent[u] \in DOMAIN db.rows \cup {Nil}
<1>7. ASSUME Inserted
      PROVE  /\ DOMAIN db'.rows = D /\ db'.chunks = db.chunks
             /\ \A x \in DOMAIN db.rows : x # u => db'.rows[x] = db.rows[x]
             /\ IF HasRow(u) THEN db'.rows[u] = [db.rows[u] EXCEPT !.parent = Parent[u]]
                ELSE db'.rows[u] = new
  <2>1. db' = [rows |-> Upserted(db.rows, u), chunks |-> db.chunks]
    BY <1>1, <1>7 DEF IndInv, Sound
  <2>2. QED
    BY <2>1 DEF Upserted
<1>8. ~Inserted => db' = db
  BY <1>1
<1> HIDE DEF new, Inserted
<1>9. Typed(db)'
  <2>1. CASE Inserted
    <3>1. ASSUME NEW x \in D
          PROVE  /\ db'.rows[x].parent = Parent[x]
                 /\ db'.rows[x].chunk \in 1..Len(db'.chunks) \cup {Null}
                 /\ db'.rows[x].box = Null \/ \E b \in Boxes : db'.rows[x].box = ToInts(b)
      <4>1. CASE x # u
        BY <1>7, <2>1, <4>1 DEF IInv, Typed
      <4>2. CASE x = u /\ HasRow(u)
        <5>1. db.rows[u] \in Row
          BY <4>2, Families DEF HasRow, IInv
        <5>2. /\ db'.rows[u].parent = Parent[u] /\ db'.rows[u].box = db.rows[u].box
              /\ db'.rows[u].chunk = db.rows[u].chunk
          BY <1>7, <2>1, <4>2, <5>1 DEF Row
        <5>3. QED
          BY <1>7, <2>1, <4>2, <5>2 DEF IInv, Typed, HasRow
      <4>3. CASE x = u /\ ~HasRow(u)
        BY <1>7, <2>1, <4>3 DEF new
      <4>4. QED
        BY <4>1, <4>2, <4>3
    <3>2. QED
      BY <1>7, <2>1, <3>1 DEF IInv, Typed
  <2>2. CASE ~Inserted
    BY <1>8, <2>2 DEF IInv, Typed
  <2>3. QED
    BY <2>1, <2>2
<1>10. CachedFrom'
  BY <1>2 DEF IInv, CachedFrom, Keys
<1>11. Progress'
  <2> SUFFICES ASSUME ~lost'
               PROVE  (RowsRight /\ BoxesRight /\ ChunksRight /\ WalkRight /\ ChunksKept)'
    BY DEF Progress
  <2>1. ok /\ ~lost /\ RowsRight /\ BoxesRight /\ ChunksRight /\ ChunksKept /\ up = Nil
    BY <1>2, <1>3, <1>4, VisitDone DEF IInv, Progress
  <2>2. ~HasRow(u)
    BY <1>5, <1>6, <2>1 DEF RowsRight, HasRow
  <2>3. /\ DOMAIN db'.rows = IF Inserted THEN D ELSE DOMAIN db.rows
        /\ db'.chunks = db.chunks
        /\ \A x \in DOMAIN db.rows : db'.rows[x] = db.rows[x]
        /\ Inserted => db'.rows[u] = new
    BY <1>7, <1>8, <2>2 DEF HasRow
  <2>4. RowsRight'
    <3>1. Parent[u] \in Spared \cup {Nil} => Inserted
      BY <2>1 DEF RowsRight, Inserted
    <3>2. QED
      BY <1>5, <1>6, <2>1, <2>3, <3>1 DEF RowsRight
  <2>5. BoxesRight'
    <3>1. ASSUME NEW x \in DOMAIN db'.rows
          PROVE  db'.rows[x].box = IF x \in Spared THEN disk.rows[x].box ELSE Null
      <4>1. CASE x \in DOMAIN db.rows
        BY <1>5, <2>1, <2>3, <4>1 DEF BoxesRight
      <4>2. CASE x \notin DOMAIN db.rows
        <5>1. x = u /\ Inserted
          BY <2>3, <4>2
        <5>2. QED
          BY <1>6, <2>3, <5>1 DEF new
      <4>3. QED
        BY <4>1, <4>2
    <3>2. QED
      BY <1>5, <1>6, <3>1 DEF BoxesRight
  <2>6. Sources' = {} /\ Sources = {}
    BY <1>5 DEF Sources
  <2>7. ChunksRight'
    <3>1. ASSUME NEW x \in DOMAIN db'.rows PROVE FiledBefore(x)'
      <4>1. ~Above(x)' /\ x \notin Sources'
        BY <2>6 DEF Above
      <4>2. db'.rows[x].chunk = IF x \in Spared THEN disk.rows[x].chunk ELSE Null
        <5>1. CASE x \in DOMAIN db.rows
          <6>1. FiledBefore(x)
            BY <2>1, <2>6, <5>1 DEF ChunksRight, FiledAnew, Above
          <6>2. QED
            BY <2>3, <5>1, <6>1 DEF FiledBefore
        <5>2. CASE x \notin DOMAIN db.rows
          <6>1. x = u /\ Inserted
            BY <2>3, <5>2
          <6>2. QED
            BY <1>6, <2>3, <6>1 DEF new
        <5>3. QED
          BY <5>1, <5>2
      <4>3. QED
        BY <1>5, <1>6, <4>1, <4>2 DEF FiledBefore
    <3>2. QED
      BY <3>1 DEF ChunksRight
  <2>8. WalkRight'
    BY <1>2, <2>1 DEF WalkRight
  <2>9. ChunksKept'
    BY <1>5, <2>1, <2>3 DEF ChunksKept
  <2>10. QED
    BY <2>4, <2>5, <2>7, <2>8, <2>9
<1>12. QED
  BY <1>4, <1>9, <1>10, <1>11 DEF IInv

\* A measured object has its new box, in its row if it has one.
LEMMA SetAabbProgress ==
    ASSUME IndInv, IInv, NEW u \in Objects, set_object_aabb(u)
    PROVE  IInv'
<1> DEFINE b == request.dirty[u]
<1>1. PICK ok \in BOOLEAN :
        /\ Write(ok)
        /\ db' = IF ok /\ HasRow(u) THEN [db EXCEPT !.rows[u].box = ToInts(b)] ELSE db
  BY DEF set_object_aabb
<1>2. /\ Visit(3, u) /\ aabb_cache' = Put(aabb_cache, u, b, AabbCap)
      /\ UNCHANGED <<chunk_cache, up>> /\ lost \in BOOLEAN
  BY DEF set_object_aabb, IndInv, RequestOK
<1>3. /\ holds' \in BOOLEAN /\ (lost' => Contention)
      /\ (lost => lost') /\ (~ok => lost')
  BY <1>1, <1>2, WriteHolds, WriteLost DEF IInv, TaskOK
<1>4. TaskOK' /\ Typed(disk)' /\ at # "idle"
  BY <1>2, <1>3, VisitTask
<1>5. /\ at = "aabb" /\ UNCHANGED <<born, flushes, disk, request>> /\ u \in todo
      /\ Gone' = Gone /\ Come' = Come /\ Measured' = Measured \cup {u} /\ Refiled' = Refiled
      /\ Refiled = {}
  BY <1>2, VisitDone DEF IInv, Loops, Refiled
<1>6. u \in born /\ b \in Boxes /\ b \in Box /\ Spared' = Spared
  BY <1>5, DatabaseAssumption DEF IndInv, PlaceOK, RequestOK, Spared
<1> HIDE DEF b
<1>7. /\ DOMAIN db'.rows = DOMAIN db.rows /\ db'.chunks = db.chunks
      /\ \A x \in DOMAIN db.rows : db'.rows[x].chunk = db.rows[x].chunk
                                  /\ db'.rows[x].parent = db.rows[x].parent
      /\ \A x \in DOMAIN db.rows : x # u => db'.rows[x].box = db.rows[x].box
      /\ ok /\ HasRow(u) => db'.rows[u].box = ToInts(b)
      /\ ~(ok /\ HasRow(u)) => db' = db
  <2>1. CASE ok /\ HasRow(u)
    <3>1. db' = [rows |-> [db.rows EXCEPT ![u].box = ToInts(b)], chunks |-> db.chunks]
      BY <1>1, <2>1 DEF IndInv, Sound
    <3>2. db.rows[u] \in Row
      BY <2>1, Families DEF HasRow, IInv
    <3>3. /\ DOMAIN db'.rows = DOMAIN db.rows /\ db'.chunks = db.chunks
          /\ db'.rows[u] = [db.rows[u] EXCEPT !.box = ToInts(b)]
          /\ \A x \in DOMAIN db.rows : x # u => db'.rows[x] = db.rows[x]
      BY <2>1, <3>1 DEF HasRow, IndInv, Sound
    <3>4. /\ db'.rows[u].box = ToInts(b) /\ db'.rows[u].chunk = db.rows[u].chunk
          /\ db'.rows[u].parent = db.rows[u].parent
      BY <3>2, <3>3 DEF Row
    <3>5. QED
      BY <2>1, <3>3, <3>4
  <2>2. CASE ~(ok /\ HasRow(u))
    BY <1>1, <2>2
  <2>3. QED
    BY <2>1, <2>2
<1>8. Typed(db)'
  <2>1. ASSUME NEW x \in DOMAIN db.rows
        PROVE  db'.rows[x].box = Null \/ \E c \in Boxes : db'.rows[x].box = ToInts(c)
    <3>1. db.rows[x].box = Null \/ \E c \in Boxes : db.rows[x].box = ToInts(c)
      BY DEF IInv, Typed
    <3>2. CASE x = u /\ ok /\ HasRow(u)
      BY <1>6, <1>7, <3>2
    <3>3. CASE ~(x = u /\ ok /\ HasRow(u))
      <4>1. db'.rows[x].box = db.rows[x].box
        BY <1>7, <3>3
      <4>2. QED
        BY <3>1, <4>1
    <3>4. QED
      BY <3>2, <3>3
  <2>2. QED
    BY <1>7, <2>1 DEF IInv, Typed
<1>9. CachedFrom'
  <2>1. /\ aabb_cache'.items[u] = b
        /\ Keys(aabb_cache)' \subseteq Keys(aabb_cache) \cup {u}
        /\ \A x \in Keys(aabb_cache)' \ {u} : aabb_cache'.items[x] = aabb_cache.items[x]
    BY <1>2, <1>5, <1>6, PutBox DEF IndInv, RequestOK
  <2>2. Keys(chunk_cache)' \subseteq Chunks
    BY <1>2 DEF IInv, CachedFrom, Keys
  <2>3. QED
    BY <1>6, <2>1, <2>2 DEF IInv, CachedFrom
<1>10. Progress'
  <2> SUFFICES ASSUME ~lost'
               PROVE  (RowsRight /\ BoxesRight /\ ChunksRight /\ WalkRight /\ ChunksKept)'
    BY DEF Progress
  <2>1. ok /\ ~lost /\ RowsRight /\ BoxesRight /\ ChunksRight /\ ChunksKept /\ up = Nil
    BY <1>2, <1>3, <1>4, VisitDone DEF IInv, Progress
  <2>2. RowsRight'
    BY <1>5, <1>6, <1>7, <2>1 DEF RowsRight
  <2>3. BoxesRight'
    <3>1. ASSUME NEW x \in DOMAIN db.rows
          PROVE  db'.rows[x].box = IF x \in Measured \cup {u} THEN ToInts(request.dirty[x])
                                   ELSE IF x \in Spared THEN disk.rows[x].box ELSE Null
      <4>1. CASE x = u
        BY <1>7, <2>1, <4>1 DEF HasRow, b
      <4>2. CASE x # u
        BY <1>7, <2>1, <4>2 DEF BoxesRight
      <4>3. QED
        BY <4>1, <4>2
    <3>2. QED
      BY <1>5, <1>6, <1>7, <3>1 DEF BoxesRight
  <2>4. Sources' = {} /\ Sources = {}
    BY <1>5 DEF Sources
  <2>5. ChunksRight'
    <3>1. ASSUME NEW x \in DOMAIN db.rows PROVE FiledBefore(x)'
      <4>1. FiledBefore(x)
        BY <2>1, <2>4 DEF ChunksRight, FiledAnew, Above
      <4>2. ~Above(x)' /\ x \notin Sources'
        BY <2>4 DEF Above
      <4>3. QED
        BY <1>5, <1>6, <1>7, <4>1, <4>2 DEF FiledBefore
    <3>2. QED
      BY <1>7, <3>1 DEF ChunksRight
  <2>6. WalkRight'
    BY <1>2, <2>1 DEF WalkRight
  <2>7. ChunksKept'
    BY <1>5, <1>7, <2>1 DEF ChunksKept
  <2>8. QED
    BY <2>2, <2>3, <2>5, <2>6, <2>7
<1>11. QED
  BY <1>4, <1>8, <1>9, <1>10 DEF IInv

-----------------------------------------------------------------------------
(* Filing an object or an ancestor.                                        *)

\* The children of an object have finitely many boxes.
LEMMA ChildBoxesType ==
    ASSUME NEW r, DOMAIN r \subseteq Objects, \A x \in DOMAIN r : r[x] \in Row, NEW u
    PROVE  ChildBoxes(r, u) \in SUBSET Box /\ IsFiniteSet(ChildBoxes(r, u))
<1> DEFINE S == {x \in DOMAIN r : r[x].parent = u}
           f == [x \in S |-> Stored(r[x])]
<1>1. \A x \in S : Stored(r[x]) \in Box
  BY StoredBox
<1>2. IsFiniteSet(S)
  <2>1. S \subseteq Objects
    OBVIOUS
  <2>2. QED
    BY <2>1, DatabaseAssumption, FS_Subset
<1>3. ChildBoxes(r, u) = {f[x] : x \in S}
  BY DEF ChildBoxes
<1>4. f \in [S -> Box]
  BY <1>1
<1>5. ChildBoxes(r, u) \in SUBSET Box
  BY <1>1, <1>3
<1> HIDE DEF S, f
<1>6. IsFiniteSet({f[x] : x \in S})
  BY <1>2, <1>4, FiniteImage
<1>7. QED
  BY <1>3, <1>5, <1>6

\* An object is filed under a chunk.
LEMMA FiledType ==
    ASSUME NEW r, DOMAIN r \subseteq Objects, \A x \in DOMAIN r : r[x] \in Row,
           NEW u, NEW b \in Box
    PROVE  compute_chunk(Merged(b, ChildBoxes(r, u))) \in Chunks
BY ChildBoxesType, MergedEnds, ChunkType

\* Families and what objects are to be filed under do not depend on chunks.
LEMMA FilesSame ==
    ASSUME NEW s, NEW t, NEW u, NEW c, Files(s, t, u, c), Typed(s)
    PROVE  /\ \A x : Index!Lineage(t.rows, x) = Index!Lineage(s.rows, x)
           /\ \A x, b : Index!Filed(t.rows, x, b) = Index!Filed(s.rows, x, b)
           /\ \A x \in DOMAIN s.rows : Index!Readings(t.rows[x]) = Index!Readings(s.rows[x])
           /\ Len(s.chunks) \in Nat /\ Len(t.chunks) \in Nat
           /\ Len(s.chunks) <= Len(t.chunks)
           /\ \A i \in 1..Len(s.chunks) : t.chunks[i] = s.chunks[i]
           /\ \A x \in DOMAIN s.rows : s.rows[x].chunk # Null =>
                t.chunks[s.rows[x].chunk] = s.chunks[s.rows[x].chunk]
<1>1. SameShape(s, t)
  BY DEF Files
<1>2. \A x : Index!Lineage(t.rows, x) = Index!Lineage(s.rows, x)
  BY <1>1, LineageSame DEF SameShape
<1>3. \A x : ChildBoxes(t.rows, x) = ChildBoxes(s.rows, x)
  <2>1. \A x \in DOMAIN s.rows : Stored(t.rows[x]) = Stored(s.rows[x])
    BY <1>1 DEF SameShape, Stored
  <2>2. \A x : {y \in DOMAIN t.rows : t.rows[y].parent = x}
             = {y \in DOMAIN s.rows : s.rows[y].parent = x}
    BY <1>1 DEF SameShape
  <2>3. QED
    BY <2>1, <2>2 DEF ChildBoxes
<1>4. \A x, b : Index!Filed(t.rows, x, b) = Index!Filed(s.rows, x, b)
  BY <1>3, SameFiled
<1>5. \A x \in DOMAIN s.rows : Index!Readings(t.rows[x]) = Index!Readings(s.rows[x])
  BY <1>1, SameReadings DEF SameShape
<1>6. s.chunks \in Seq(Chunks)
  BY DEF Typed
<1>7. /\ Len(s.chunks) \in Nat /\ Len(t.chunks) \in Nat
      /\ Len(s.chunks) <= Len(t.chunks)
      /\ \A i \in 1..Len(s.chunks) : t.chunks[i] = s.chunks[i]
  <2>1. CASE t.chunks = s.chunks
    BY <1>6, <2>1
  <2>2. CASE t.chunks = Append(s.chunks, c)
    BY <1>6, <2>2
  <2>3. QED
    BY <2>1, <2>2 DEF Files
<1>8. \A x \in DOMAIN s.rows : s.rows[x].chunk # Null => s.rows[x].chunk \in 1..Len(s.chunks)
  BY DEF Typed
<1>9. QED
  BY <1>2, <1>4, <1>5, <1>7, <1>8

\* Filing an object, which begins a walk, or the ancestor where the walk is.
LEMMA FilingProgress ==
    ASSUME IndInv, IInv, ~lost, at # "idle", NEW u, NEW c, Files(db, db', u, c),
           u \in DOMAIN db.rows => FiledAt(db', u, c),
           UNCHANGED <<disk, request>>,
           Gone' = Gone, Come' = Come, Measured' = Measured,
           up' = IF u \in DOMAIN db.rows THEN db.rows[u].parent ELSE Nil,
           \/ /\ up = Nil /\ Refiled' = Refiled \cup {u}
              /\ c = Index!Filed(db.rows, u, request.dirty[u])
           \/ /\ up # Nil /\ u = up /\ Refiled' = Refiled
              /\ \E b \in Index!Readings(db.rows[u]) : c = Index!Filed(db.rows, u, b)
    PROVE  (RowsRight /\ BoxesRight /\ ChunksRight /\ WalkRight /\ ChunksKept)'
<1> DEFINE D == DOMAIN db.rows
<1>1. /\ RowsRight /\ BoxesRight /\ ChunksRight /\ WalkRight /\ ChunksKept
      /\ Typed(db) /\ Spared' = Spared
  BY DEF IInv, Progress, Spared
<1>2. /\ DOMAIN db'.rows = D
      /\ \A x \in D : db'.rows[x].box = db.rows[x].box
      /\ \A x \in D : db'.rows[x].parent = db.rows[x].parent
      /\ \A x \in D : x # u => db'.rows[x].chunk = db.rows[x].chunk
  BY DEF Files, SameShape
<1>3. /\ \A x : LineOf(x)' = LineOf(x)
      /\ \A x, b : Index!Filed(db'.rows, x, b) = Index!Filed(db.rows, x, b)
      /\ \A x \in D : Index!Readings(db'.rows[x]) = Index!Readings(db.rows[x])
      /\ Len(db.chunks) \in Nat /\ Len(db'.chunks) \in Nat
      /\ Len(db.chunks) <= Len(db'.chunks)
      /\ \A i \in 1..Len(db.chunks) : db'.chunks[i] = db.chunks[i]
      /\ \A x \in D : db.rows[x].chunk # Null =>
           db'.chunks[db.rows[x].chunk] = db.chunks[db.rows[x].chunk]
  BY <1>1, FilesSame DEF LineOf
<1>4. /\ Rooted(db.rows) /\ D \subseteq Objects /\ Nil \notin D
      /\ \A x \in D : db.rows[x].parent = Parent[x]
  BY Families DEF IInv
<1>5. RowsRight'
  BY <1>1, <1>2 DEF RowsRight
<1>6. BoxesRight'
  BY <1>1, <1>2 DEF BoxesRight
<1>7. Sources \subseteq Sources' /\ Sources' \subseteq Sources \cup {u}
  BY <1>2 DEF Sources
<1>8. \A x : Above(x) => Above(x)'
  BY <1>3, <1>7 DEF Above
<1>9. ASSUME NEW x \in D, Above(x)', ~Above(x)
      PROVE  up = Nil /\ u \in D /\ x # u /\ x \in LineOf(u)
  <2>1. PICK d \in Sources' : x # d /\ x \in LineOf(d)
    BY <1>3, <1>9 DEF Above
  <2>2. d \notin Sources
    BY <1>9, <2>1 DEF Above
  <2>3. d = u /\ d \in D
    BY <1>2, <1>7, <2>1, <2>2 DEF Sources
  <2>4. up = Nil
    BY <1>2, <2>1, <2>2 DEF Sources
  <2>5. QED
    BY <2>1, <2>3, <2>4
\* What is above u, and not u, is what is left of the walk.
<1>10. ASSUME u \in D, NEW x \in LineOf(u), x # u
       PROVE  up' # Nil /\ x \in LineOf(up')
  BY <1>4, <1>10, LineageStep DEF LineOf
<1>11. ASSUME NEW x \in D, x # u, FiledAnew(x) PROVE FiledAnew(x)'
  <2>1. /\ db'.rows[x].chunk = db.rows[x].chunk /\ db.rows[x].chunk # Null
        /\ db'.chunks[db'.rows[x].chunk] = db.chunks[db.rows[x].chunk]
    BY <1>2, <1>3, <1>11 DEF FiledAnew
  <2>2. CASE /\ x \in Sources
             /\ db.chunks[db.rows[x].chunk] = Index!Filed(db.rows, x, request.dirty[x])
    BY <1>3, <1>7, <2>1, <2>2 DEF FiledAnew
  <2>3. CASE /\ Above(x)
             /\ \E b \in Index!Readings(db.rows[x]) :
                  db.chunks[db.rows[x].chunk] = Index!Filed(db.rows, x, b)
    BY <1>3, <1>8, <2>1, <2>3 DEF FiledAnew
  <2>4. QED
    BY <1>11, <2>2, <2>3 DEF FiledAnew
<1>12. ASSUME NEW x \in D, x # u, FiledBefore(x) PROVE FiledBefore(x)'
  <2>1. /\ db.rows[x].chunk = IF x \in Spared THEN disk.rows[x].chunk ELSE Null
        /\ x \notin Sources /\ (Above(x) => up # Nil /\ x \in LineOf(up))
    BY <1>12 DEF FiledBefore
  <2>2. x \notin Sources'
    BY <1>7, <1>12, <2>1
  <2>3. db'.rows[x].chunk = IF x \in Spared' THEN disk'.rows[x].chunk ELSE Null
    BY <1>1, <1>2, <1>12, <2>1
  <2>4. ASSUME Above(x)' PROVE up' # Nil /\ x \in LineOf(up')
    <3>1. CASE Above(x)
      <4>1. up # Nil /\ u = up /\ x \in LineOf(u) /\ u \in D
        BY <1>1, <2>1, <3>1 DEF WalkRight
      <4>2. QED
        BY <1>10, <1>12, <4>1
    <3>2. CASE ~Above(x)
      BY <1>9, <1>10, <2>4, <3>2
    <3>3. QED
      BY <3>1, <3>2
  <2>5. Above(x)' => up' # Nil /\ x \in LineOf(up)'
    BY <1>3, <2>4 DEF LineOf
  <2>6. QED
    BY <2>2, <2>3, <2>5 DEF FiledBefore
<1>13. ASSUME u \in D PROVE FiledAnew(u)'
  <2>1. FiledAt(db', u, c)
    BY <1>13
  <2>2. db'.rows[u].chunk # Null /\ db'.chunks[db'.rows[u].chunk] = c
    BY <1>3, <2>1, DatabaseAssumption DEF FiledAt
  <2>3. CASE /\ up = Nil /\ Refiled' = Refiled \cup {u}
             /\ c = Index!Filed(db.rows, u, request.dirty[u])
    <3>1. u \in Sources'
      BY <1>2, <1>13, <2>3 DEF Sources
    <3>2. QED
      BY <1>3, <2>2, <2>3, <3>1 DEF FiledAnew
  <2>4. CASE /\ up # Nil /\ u = up
             /\ \E b \in Index!Readings(db.rows[u]) : c = Index!Filed(db.rows, u, b)
    <3>1. Above(u)'
      BY <1>1, <1>8, <2>4 DEF WalkRight
    <3>2. QED
      BY <1>3, <1>13, <2>2, <2>4, <3>1 DEF FiledAnew
  <2>5. QED
    BY <2>3, <2>4
<1>14. ChunksRight'
  BY <1>1, <1>2, <1>11, <1>12, <1>13 DEF ChunksRight
<1>15. WalkRight'
  <2> SUFFICES ASSUME NEW p, p = up', p # Nil PROVE p \in D /\ Above(p)'
    BY <1>2 DEF WalkRight, Above, LineOf
  <2>1. u \in D /\ p = db.rows[u].parent
    OBVIOUS
  <2>2. /\ p \in D /\ p \in LineOf(u) /\ p \in LineOf(p)
        /\ u \notin LineOf(p)
    BY <1>4, <2>1, LineageStep, LineageBasics, LineageAcyclic DEF LineOf
  <2>3. PICK d \in Sources' : p # d /\ p \in LineOf(d)
    <3>1. CASE up = Nil /\ Refiled' = Refiled \cup {u}
      <4>1. u \in Sources'
        BY <1>2, <2>1, <3>1 DEF Sources
      <4>2. QED
        BY <2>2, <4>1
    <3>2. CASE up # Nil /\ u = up
      <4>1. PICK d \in Sources : u # d /\ u \in LineOf(d)
        BY <1>1, <3>2 DEF WalkRight, Above
      <4>2. p \in LineOf(d)
        BY <1>4, <2>1, <4>1, LineageBasics DEF LineOf, Upward, Sources
      <4>3. p # d
        BY <2>2, <4>1
      <4>4. QED
        BY <1>7, <4>1, <4>2, <4>3
    <3>3. QED
      BY <3>1, <3>2
  <2>4. QED
    BY <1>3, <2>2, <2>3 DEF Above, LineOf
<1>16. ChunksKept'
  BY <1>1, <1>3 DEF ChunksKept, IInv, Typed
<1>17. QED
  BY <1>5, <1>6, <1>14, <1>15, <1>16

\* FileObject files a dirty object anew and sends the walk to its parent.
LEMMA FileObjectProgress ==
    ASSUME IndInv, IInv, NEW u \in Objects, FileObject(u)
    PROVE  IInv'
<1> DEFINE c == compute_chunk(Merged(request.dirty[u], ChildBoxes(db.rows, u)))
<1>1. /\ Visit(4, u) /\ FileUnder(u, c) /\ UNCHANGED aabb_cache
      /\ up' = IF u \in DOMAIN db.rows THEN db.rows[u].parent ELSE Nil
  BY DEF FileObject, HasRow
<1>2. /\ at = "chunk" /\ up = Nil /\ u \in todo /\ UNCHANGED <<born, flushes, disk, request>>
      /\ Gone' = Gone /\ Come' = Come /\ Measured' = Measured
      /\ Refiled' = Refiled \cup {u}
  BY <1>1, VisitDone DEF IInv, Loops
<1>3. c \in Chunks /\ c = Index!Filed(db.rows, u, request.dirty[u])
  <2>1. request.dirty[u] \in Box
    BY <1>2, DatabaseAssumption DEF IndInv, PlaceOK, RequestOK
  <2>2. QED
    BY <2>1, Families, FiledType, SameFiled DEF IInv
<1> HIDE DEF c
<1>4. /\ Files(db, db', u, c)
      /\ Keys(chunk_cache)' \subseteq Chunks
      /\ holds' \in BOOLEAN /\ (lost' => Contention)
      /\ ~lost' /\ u \in DOMAIN db.rows => FiledAt(db', u, c)
  BY <1>1, <1>3, FileUnderFiles DEF IInv, CachedFrom, TaskOK
<1>5. lost => lost'
  BY <1>1, <1>2, FileUnderOK DEF IndInv, RequestOK
<1>6. TaskOK' /\ Typed(disk)' /\ at # "idle"
  BY <1>1, <1>4, VisitTask
<1>7. Typed(db)'
  <2>1. Typed(db')
    BY <1>3, <1>4, FilesTyped DEF IInv
  <2>2. QED
    BY <2>1 DEF Typed
<1>8. CachedFrom'
  BY <1>1, <1>4 DEF IInv, CachedFrom, Keys
<1>9. Progress'
  <2> SUFFICES ASSUME ~lost'
               PROVE  (RowsRight /\ BoxesRight /\ ChunksRight /\ WalkRight /\ ChunksKept)'
    BY DEF Progress
  <2>1. QED
    BY <1>1, <1>2, <1>3, <1>4, <1>5, <1>6, FilingProgress
<1>10. QED
  BY <1>6, <1>7, <1>8, <1>9 DEF IInv

\* The box that get_object_aabb answers is one that the row may stand for.
LEMMA CachedReading ==
    ASSUME IndInv, IInv, NEW u \in Objects
    PROVE  LET b == CachedBox(u) IN
           /\ b \in Box /\ (b \in Boxes \/ b = OfInts(ToInts(b)))
           /\ ~lost /\ u \in DOMAIN db.rows => b \in Index!Readings(db.rows[u])
<1> DEFINE b == CachedBox(u)
           row == db.rows[u]
<1>1. DefaultBox = OfInts(ToInts(DefaultBox))
  BY ChunkAssumption DEF DefaultBox, OfInts, ToInts, Truncated
<1>2. ASSUME u \in DOMAIN db.rows
      PROVE  /\ row \in Row /\ Stored(row) \in Box
             /\ Stored(row) = OfInts(ToInts(Stored(row)))
  <2>1. row \in Row
    BY <1>2, Families DEF IInv
  <2>2. row.box \in Box \cup {Null} /\ Stored(row) \in Box
    BY <2>1, StoredBox DEF Row
  <2>3. QED
    BY <1>1, <2>1, <2>2, BoxTypes DEF Stored
<1>3. CASE u \in Keys(aabb_cache)
  <2>1. b = aabb_cache.items[u]
    BY <1>3 DEF CachedBox
  <2>2. b \in Box /\ (b \in Boxes \/ b = OfInts(ToInts(b)))
    BY <1>3, <2>1 DEF IInv, CachedFrom, IndInv, AabbCacheOK, WellFormed
  <2>3. ASSUME ~lost, u \in DOMAIN db.rows PROVE b \in Index!Readings(row)
    <3>1. IF row.box = Null THEN b = DefaultBox ELSE ToInts(b) = row.box
      BY <1>3, <2>1, <2>3 DEF IndInv, AabbCacheCoherent
    <3> HIDE DEF row, b
    <3>2. CASE row.box = Null
      BY <3>1, <3>2, SameReadings
    <3>3. CASE row.box # Null
      <4>1. ToInts(b) = row.box
        BY <3>1, <3>3
      <4>2. Index!Readings(row) = {OfInts(row.box)} \cup {x \in Boxes : ToInts(x) = row.box}
        BY <3>3, SameReadings
      <4>3. CASE b \in Boxes
        BY <4>1, <4>2, <4>3
      <4>4. CASE b = OfInts(ToInts(b))
        BY <4>1, <4>2, <4>4
      <4>5. QED
        BY <2>2, <4>3, <4>4
    <3>4. QED
      BY <3>2, <3>3
  <2>4. QED
    BY <2>2, <2>3
<1>4. CASE u \notin Keys(aabb_cache) /\ u \in DOMAIN db.rows
  <2>1. b = Stored(row)
    BY <1>4 DEF CachedBox, HasRow
  <2>2. b \in Index!Readings(row)
    BY <2>1, SameReadings DEF Stored
  <2>3. QED
    BY <1>2, <1>4, <2>1, <2>2
<1>5. CASE u \notin Keys(aabb_cache) /\ u \notin DOMAIN db.rows
  BY <1>1, <1>5, BoxTypes DEF CachedBox, HasRow
<1>6. QED
  BY <1>3, <1>4, <1>5

\* FileAncestor files an ancestor anew and goes one further up.
LEMMA FileAncestorProgress ==
    ASSUME IndInv, IInv, FileAncestor
    PROVE  IInv'
<1> DEFINE b == CachedBox(up)
           c == compute_chunk(Merged(b, ChildBoxes(db.rows, up)))
<1>1. /\ up # Nil /\ UNCHANGED <<born, flushes, disk, request, at, todo>>
      /\ FileUnder(up, c)
      /\ aabb_cache' = IF up \in Keys(aabb_cache) THEN Got(aabb_cache, up)
                       ELSE Put(aabb_cache, up, b, AabbCap)
      /\ up' = IF up \in DOMAIN db.rows THEN db.rows[up].parent ELSE Nil
  BY DEF FileAncestor, HasRow
<1>2. up \in Objects /\ up \in born /\ at \in {"chunk", "commit"}
  BY <1>1 DEF IndInv, PlaceOK, RequestOK
<1>3. /\ b \in Box /\ (b \in Boxes \/ b = OfInts(ToInts(b)))
      /\ ~lost /\ up \in DOMAIN db.rows => b \in Index!Readings(db.rows[up])
  BY <1>2, CachedReading
<1>4. c \in Chunks /\ c = Index!Filed(db.rows, up, b)
  <2> HIDE DEF b
  <2>1. QED
    BY <1>3, Families, FiledType, SameFiled DEF IInv
<1> HIDE DEF b, c
<1>5. /\ Files(db, db', up, c)
      /\ Keys(chunk_cache)' \subseteq Chunks
      /\ holds' \in BOOLEAN /\ (lost' => Contention)
      /\ ~lost' /\ up \in DOMAIN db.rows => FiledAt(db', up, c)
  BY <1>1, <1>4, FileUnderFiles DEF IInv, CachedFrom, TaskOK
<1>6. lost => lost'
  BY <1>1, FileUnderOK DEF IndInv, RequestOK
<1>7. TaskOK' /\ Typed(disk)'
  BY <1>1, <1>2, <1>5 DEF IInv, TaskOK, Typed
<1>8. Typed(db)'
  <2>1. Typed(db')
    BY <1>4, <1>5, FilesTyped DEF IInv
  <2>2. QED
    BY <2>1 DEF Typed
<1>9. CachedFrom'
  <2>1. CASE up \in Keys(aabb_cache)
    <3>1. Keys(aabb_cache)' = Keys(aabb_cache) /\ aabb_cache'.items = aabb_cache.items
      BY <1>1, <2>1, GotWellFormed DEF Got, IndInv, AabbCacheOK
    <3>2. QED
      BY <1>5, <3>1 DEF IInv, CachedFrom
  <2>2. CASE up \notin Keys(aabb_cache)
    <3>1. /\ aabb_cache'.items[up] = b
          /\ Keys(aabb_cache)' \subseteq Keys(aabb_cache) \cup {up}
          /\ \A x \in Keys(aabb_cache)' \ {up} : aabb_cache'.items[x] = aabb_cache.items[x]
      BY <1>1, <1>2, <1>3, <2>2, PutBox DEF IndInv, RequestOK
    <3>2. QED
      BY <1>3, <1>5, <3>1 DEF IInv, CachedFrom
  <2>3. QED
    BY <2>1, <2>2
<1>10. Progress'
  <2> SUFFICES ASSUME ~lost'
               PROVE  (RowsRight /\ BoxesRight /\ ChunksRight /\ WalkRight /\ ChunksKept)'
    BY DEF Progress
  <2>1. ~lost /\ at # "idle" /\ WalkRight
    BY <1>2, <1>6 DEF IInv, Progress
  <2>2. up \in DOMAIN db.rows
    BY <1>1, <2>1 DEF WalkRight
  <2>3. \E x \in Index!Readings(db.rows[up]) : c = Index!Filed(db.rows, up, x)
    BY <1>3, <1>4, <2>1, <2>2
  <2>4. Gone' = Gone /\ Come' = Come /\ Measured' = Measured /\ Refiled' = Refiled
    BY <1>1 DEF Gone, Come, Measured, Refiled
  <2>5. QED
    BY <1>1, <1>5, <2>1, <2>3, <2>4, FilingProgress
<1>11. QED
  BY <1>7, <1>8, <1>9, <1>10 DEF IInv

\* The empty request has nothing to visit.
LEMMA NoRequestIs ==
    /\ NoRequest = [remove |-> NoRequest.remove, upsert |-> NoRequest.upsert,
                    dirty |-> NoRequest.dirty]
    /\ NoRequest.remove = {} /\ NoRequest.upsert = {} /\ DOMAIN NoRequest.dirty = {}
BY DEF NoRequest

\* Begin: nothing is visited, everything is as in the file.
LEMMA BeginProgress ==
    ASSUME IndInv, IInv, NEW r \in Requests, Begin(r)
    PROVE  IInv'
<1>1. /\ at = "idle" /\ request' = r /\ GoTo(1, request')
      /\ r.upsert \cap born = {} /\ r.remove \subseteq born
      /\ flushes < MaxFlushes /\ flushes' = flushes + 1 /\ born' = born \cup r.upsert
      /\ UNCHANGED <<disk, db, chunk_cache, aabb_cache, up, holds, lost>>
  BY DEF Begin
<1>2. r = [remove |-> r.remove, upsert |-> r.upsert, dirty |-> r.dirty] /\ r # NoRequest
  BY DEF Requests
<1>3. db = disk /\ up = Nil
  BY <1>1 DEF IInv, TaskOK
<1>4. /\ at' \in {"remove", "upsert", "aabb", "chunk", "commit"}
      /\ at' = "remove" => todo' = request'.remove
      /\ at' = "commit" => todo' = {}
      /\ Gone' = {} /\ Come' = {} /\ Measured' = {} /\ Refiled' = {}
  BY <1>1, GoToDone
<1>5. flushes' \in 0..MaxFlushes
  BY <1>1, DatabaseAssumption DEF IInv, TaskOK
<1>6. TaskOK'
  <2>1. request'.upsert \cap DOMAIN disk'.rows = {}
    BY <1>1 DEF IndInv, Sound
  <2>2. request'.remove \subseteq born'
    BY <1>1
  <2>3. holds' \in BOOLEAN /\ (lost' => Contention)
    BY <1>1 DEF IInv, TaskOK
  <2>4. at' # "idle" /\ request' # NoRequest
    BY <1>1, <1>2, <1>4
  <2>5. QED
    BY <1>1, <1>2, <1>4, <1>5, <2>1, <2>2, <2>3, <2>4 DEF TaskOK
<1>7. Typed(disk)' /\ Typed(db)' /\ CachedFrom'
  BY <1>1 DEF IInv, Typed, CachedFrom, Keys
<1>8. Progress'
  <2>1. Spared' = DOMAIN disk.rows /\ Sources' = {}
    BY <1>1, <1>4 DEF Spared, Sources
  <2>2. RowsRight' /\ BoxesRight'
    BY <1>1, <1>3, <1>4, <2>1 DEF RowsRight, BoxesRight
  <2>3. ChunksRight' /\ WalkRight'
    BY <1>1, <1>3, <2>1 DEF ChunksRight, FiledBefore, Above, WalkRight
  <2>4. ChunksKept'
    <3>1. Len(disk.chunks) \in Nat
      BY DEF IInv, Typed
    <3>2. QED
      BY <1>1, <1>3, <3>1 DEF ChunksKept
  <2>5. QED
    BY <2>2, <2>3, <2>4 DEF Progress
<1>9. QED
  BY <1>6, <1>7, <1>8 DEF IInv

\* Between two flushes.
LEMMA IdleTask ==
    ASSUME IInv, Idle, disk' = db', UNCHANGED flushes, lost' => lost
    PROVE  TaskOK' /\ Progress'
<1>1. /\ request' = NoRequest /\ at' = "idle" /\ todo' = {} /\ up' = Nil /\ holds' = FALSE
      /\ flushes' \in 0..MaxFlushes /\ (lost' => Contention)
  BY DEF Idle, IInv, TaskOK
<1>2. QED
  BY <1>1, NoRequestIs DEF TaskOK, Progress

\* Commit: the file takes over what the transaction has done.
LEMMA CommitProgress ==
    ASSUME IndInv, IInv, Commit
    PROVE  IInv'
<1>1. /\ Idle /\ disk' = db' /\ db' = db
      /\ UNCHANGED <<born, flushes, db, chunk_cache, aabb_cache, lost>>
  BY DEF Commit
<1>2. QED
  BY <1>1, IdleTask DEF IInv, Typed, CachedFrom, Keys

\* Crash: the transaction and the caches are gone.
LEMMA CrashProgress ==
    ASSUME IndInv, IInv, Crash
    PROVE  IInv'
<1>1. /\ Idle /\ disk' = db' /\ db' = disk /\ lost' = FALSE
      /\ chunk_cache' = Empty /\ aabb_cache' = Empty
      /\ UNCHANGED <<born, flushes, disk>>
  BY DEF Crash
<1>2. TaskOK' /\ Progress'
  BY <1>1, IdleTask
<1>3. Typed(disk)' /\ Typed(db)'
  BY <1>1 DEF IInv, Typed
<1>4. CachedFrom'
  BY <1>1, EmptyOK DEF CachedFrom, Keys
<1>5. QED
  BY <1>2, <1>3, <1>4 DEF IInv

\* The empty database satisfies the invariant.
LEMMA InitProgress == Init => IInv
<1> SUFFICES ASSUME Init PROVE IInv
  OBVIOUS
<1>1. Typed(disk) /\ Typed(db)
  BY DEF Init, Typed
<1>2. CachedFrom
  BY EmptyOK DEF Init, CachedFrom
<1>3. TaskOK /\ Progress
  <2>1. /\ flushes = 0 /\ at = "idle" /\ db = disk /\ todo = {} /\ up = Nil
        /\ request = NoRequest /\ holds = FALSE /\ lost = FALSE
    BY DEF Init
  <2>2. flushes \in 0..MaxFlushes
    BY <2>1, DatabaseAssumption
  <2> HIDE DEF Init
  <2>3. QED
    BY <2>1, <2>2, NoRequestIs DEF TaskOK, Progress
<1>4. QED
  BY <1>1, <1>2, <1>3 DEF IInv

\* So does what any call makes of it.
LEMMA NextProgress == IndInv /\ IInv /\ [Next]_vars => IInv'
<1> SUFFICES ASSUME IndInv, IInv, [Next]_vars PROVE IInv'
  OBVIOUS
<1>1. ASSUME NEW r \in Requests, Begin(r) PROVE IInv'
  BY <1>1, BeginProgress
<1>2. ASSUME Call PROVE IInv'
  BY <1>2, RemoveProgress, UpsertProgress, SetAabbProgress, FileObjectProgress,
     FileAncestorProgress, CommitProgress DEF Call
<1>3. ASSUME Crash PROVE IInv'
  BY <1>3, CrashProgress
<1>4. ASSUME UNCHANGED vars PROVE IInv'
  <2>1. Typed(disk)' /\ Typed(db)' /\ CachedFrom' /\ TaskOK'
    BY <1>4 DEF vars, IInv, Typed, CachedFrom, Keys, TaskOK
  <2>2. Progress'
    BY <1>4 DEF vars, IInv, Progress, RowsRight, BoxesRight, ChunksRight, WalkRight,
                ChunksKept, FiledAnew, FiledBefore, Above, Sources, Spared, Gone, Come,
                Measured, Refiled, LineOf
  <2>3. QED
    BY <2>1, <2>2 DEF IInv
<1>5. QED
  BY <1>1, <1>2, <1>3, <1>4 DEF Next

\* The invariant holds throughout.
LEMMA FlushInvariance == Spec => [](IndInv /\ IInv)
BY InitInv, NextInv, InitProgress, NextProgress, PTL DEF Spec

-----------------------------------------------------------------------------
(* Types.                                                                  *)

\* It implies the types.
LEMMA TypesHold == IndInv /\ IInv => TypeOK
<1> SUFFICES ASSUME IndInv, IInv PROVE TypeOK
  OBVIOUS
<1>1. born \subseteq Objects /\ flushes \in 0..MaxFlushes
  BY DEF IndInv, RequestOK, IInv, TaskOK
<1>2. \A s \in {disk, db} : /\ DOMAIN s = {"rows", "chunks"}
                            /\ DOMAIN s.rows \subseteq born
                            /\ \A u \in DOMAIN s.rows : s.rows[u] \in Row
                            /\ s.chunks \in Seq(Chunks)
  <2>1. ASSUME NEW s, Sound(s), Typed(s)
        PROVE  /\ DOMAIN s = {"rows", "chunks"}
               /\ DOMAIN s.rows \subseteq born
               /\ \A u \in DOMAIN s.rows : s.rows[u] \in Row
               /\ s.chunks \in Seq(Chunks)
    <3>1. DOMAIN s = {"rows", "chunks"}
      <4>1. s = [rows |-> s.rows, chunks |-> s.chunks]
        BY <2>1 DEF Sound
      <4>2. DOMAIN [rows |-> s.rows, chunks |-> s.chunks] = {"rows", "chunks"}
        OBVIOUS
      <4>3. QED
        BY <4>1, <4>2
    <3>2. QED
      BY <2>1, <3>1 DEF Sound, Typed
  <2>2. QED
    BY <2>1 DEF IndInv, IInv
<1>3. WellFormed(chunk_cache, Chunks, Nat \cup {-1})
  BY DEF IndInv, ChunkCacheOK, ChunkIds, IInv, CachedFrom, WellFormed
<1>4. WellFormed(aabb_cache, Objects, Box)
  BY DEF IndInv, AabbCacheOK
<1>5. /\ DOMAIN request = {"remove", "upsert", "dirty"}
      /\ request.remove \cup request.upsert \cup DOMAIN request.dirty \subseteq born
      /\ \A u \in DOMAIN request.dirty : request.dirty[u] \in Boxes
  <2>1. request = [remove |-> request.remove, upsert |-> request.upsert,
                   dirty |-> request.dirty]
    BY DEF IInv, TaskOK
  <2>2. DOMAIN [remove |-> request.remove, upsert |-> request.upsert,
                dirty |-> request.dirty] = {"remove", "upsert", "dirty"}
    OBVIOUS
  <2>3. QED
    BY <2>1, <2>2 DEF IndInv, RequestOK, IInv, TaskOK
<1>6. at \in {Loops[i] : i \in 1..Len(Loops)} \cup {"idle", "commit"}
  <2>1. /\ Len(Loops) = 4 /\ Loops[1] = "remove" /\ Loops[2] = "upsert"
        /\ Loops[3] = "aabb" /\ Loops[4] = "chunk"
    BY DEF Loops
  <2>2. {"remove", "upsert", "aabb", "chunk"} \subseteq {Loops[i] : i \in 1..Len(Loops)}
    <3>1. \A i \in 1..4 : Loops[i] \in {Loops[j] : j \in 1..Len(Loops)}
      BY <2>1
    <3>2. QED
      BY <2>1, <3>1
  <2>3. QED
    BY <2>2 DEF IInv, TaskOK
<1>7. todo \subseteq Objects /\ up \in Objects \cup {Nil}
  BY <1>5, <1>1 DEF IInv, TaskOK, IndInv, PlaceOK
<1>8. holds \in BOOLEAN /\ lost \in BOOLEAN /\ (lost => Contention)
  BY DEF IndInv, RequestOK, IInv, TaskOK
<1>9. QED
  BY <1>1, <1>2, <1>3, <1>4, <1>5, <1>6, <1>7, <1>8 DEF TypeOK

-----------------------------------------------------------------------------
(* The box that an object is filed under, when the flush is about to end.  *)

\* What the flush visited is filed anew, and so is what is above it.
LEMMA FlushFiled ==
    ASSUME IndInv, IInv, at = "commit", up = Nil, ~lost
    PROVE  /\ Gone = request.remove /\ Come = request.upsert
           /\ Measured = DOMAIN request.dirty /\ Sources = DOMAIN request.dirty \cap DOMAIN db.rows
           /\ RowsRight /\ BoxesRight /\ ChunksKept
           /\ \A u \in DOMAIN db.rows :
                IF u \in Sources \/ Above(u) THEN FiledAnew(u)
                ELSE db.rows[u].chunk = IF u \in Spared THEN disk.rows[u].chunk ELSE Null
<1>1. RowsRight /\ BoxesRight /\ ChunksRight /\ ChunksKept
  BY DEF IInv, Progress
<1>2. \A u \in DOMAIN db.rows :
        IF u \in Sources \/ Above(u) THEN FiledAnew(u)
        ELSE db.rows[u].chunk = IF u \in Spared THEN disk.rows[u].chunk ELSE Null
  BY <1>1 DEF ChunksRight, FiledAnew, FiledBefore
<1>3. QED
  BY <1>1, <1>2 DEF Gone, Come, Measured, Refiled, Sources

\* What an object is filed anew under is the tile of a box that becomes, as six
\* integers, the one in its row.
LEMMA FiledReading ==
    ASSUME IndInv, IInv, at = "commit", up = Nil, ~lost,
           NEW u \in DOMAIN db.rows, FiledAnew(u)
    PROVE  \E b \in Boxes \cup {Stored(db.rows[u])} :
             /\ b \in Box /\ Stored(db.rows[u]) \in Box
             /\ ToInts(b) = ToInts(Stored(db.rows[u]))
             /\ db.chunks[db.rows[u].chunk] = compute_chunk(Merged(b, ChildBoxes(db.rows, u)))
<1> DEFINE row == db.rows[u]
           c == db.chunks[row.chunk]
<1>1. row \in Row /\ Stored(row) \in Box
  BY Families, StoredBox DEF IInv
<1>2. \A b \in Boxes : b \in Box /\ ToInts(b) # Null
  BY DatabaseAssumption, BoxTypes
<1>3. CASE u \in Sources /\ c = Index!Filed(db.rows, u, request.dirty[u])
  <2>1. u \in Measured /\ request.dirty[u] \in Boxes /\ row.box = ToInts(request.dirty[u])
    BY <1>3, FlushFiled DEF BoxesRight, IndInv, RequestOK
  <2>2. ToInts(Stored(row)) = ToInts(request.dirty[u])
    BY <1>2, <2>1, BoxTypes DEF Stored
  <2>3. QED
    BY <1>1, <1>2, <1>3, <2>1, <2>2, SameFiled
<1>4. ASSUME NEW b \in Index!Readings(row), c = Index!Filed(db.rows, u, b)
      PROVE  b \in Boxes \cup {Stored(row)} /\ b \in Box /\ ToInts(b) = ToInts(Stored(row))
  <2>1. CASE row.box = Null
    BY <1>1, <1>4, <2>1, SameReadings DEF Stored
  <2>2. CASE row.box # Null
    <3>1. row.box \in Box /\ Stored(row) = OfInts(row.box)
      BY <1>1, <2>2 DEF Row, Stored
    <3>2. ToInts(Stored(row)) = row.box
      BY <3>1, BoxTypes
    <3>3. b \in {OfInts(row.box)} \cup {x \in Boxes : ToInts(x) = row.box}
      BY <1>4, <2>2, SameReadings
    <3> HIDE DEF row
    <3>4. QED
      BY <1>1, <1>2, <3>1, <3>2, <3>3
  <2>3. QED
    BY <2>1, <2>2
<1>5. CASE Above(u) /\ \E b \in Index!Readings(row) : c = Index!Filed(db.rows, u, b)
  BY <1>1, <1>4, <1>5, SameFiled
<1>6. QED
  BY <1>3, <1>5 DEF FiledAnew

\* Integers are nearer to the origin than what they were made of.
LEMMA StoredWithin ==
    ASSUME NEW L \in 0..31, NEW b \in Box, Within(b, L)
    PROVE  Within(OfInts(ToInts(b)), L) /\ Within(DefaultBox, L)
<1> DEFINE s == Unit * Side(L)
<1>1. Side(L) \in Nat /\ Unit \in Nat /\ s \in Nat
  BY SideType, ChunkAssumption
<1>2. ASSUME NEW x \in Int, -s <= 2 * x, 2 * x <= s
      PROVE  -s <= 2 * (Unit * Truncated(x)) /\ 2 * (Unit * Truncated(x)) <= s
  <2> DEFINE y == Unit * Truncated(x)
  <2>1. /\ x >= 0 => 0 <= y /\ y <= x
        /\ x < 0 => x <= y /\ y <= 0
    BY TruncatedShrinks
  <2>2. y \in Int
    BY TruncatedType, ChunkAssumption
  <2> HIDE DEF s, y
  <2>3. -s <= 2 * y /\ 2 * y <= s
    BY <1>1, <1>2, <2>1, <2>2
  <2>4. QED
    BY <2>3 DEF y
<1>3. \A a \in Axes : /\ b.lo[a] \in Int /\ b.hi[a] \in Int
                      /\ -s <= 2 * b.lo[a] /\ 2 * b.lo[a] <= s
                      /\ -s <= 2 * b.hi[a] /\ 2 * b.hi[a] <= s
  BY DEF Within, Box
<1> HIDE DEF s
<1>4. \A a \in Axes : /\ -s <= 2 * (Unit * Truncated(b.lo[a]))
                      /\ 2 * (Unit * Truncated(b.lo[a])) <= s
                      /\ -s <= 2 * (Unit * Truncated(b.hi[a]))
                      /\ 2 * (Unit * Truncated(b.hi[a])) <= s
  BY <1>2, <1>3
<1>5. Within(OfInts(ToInts(b)), L)
  BY <1>4 DEF Within, OfInts, ToInts, s
<1>6. Within(DefaultBox, L)
  BY <1>1 DEF Within, DefaultBox, s
<1>7. QED
  BY <1>5, <1>6

\* What is merged from boxes in the world is in the world.
LEMMA MergedWithin ==
    ASSUME NEW L \in 0..31, NEW b \in Box, NEW S \in SUBSET Box, IsFiniteSet(S),
           \A x \in S \cup {b} : Within(x, L)
    PROVE  Within(Merged(b, S), L)
<1> DEFINE m == Merged(b, S)
<1>1. \A a \in Axes : /\ \E x \in S \cup {b} : m.lo[a] = x.lo[a]
                      /\ \E x \in S \cup {b} : m.hi[a] = x.hi[a]
  BY MergedEnds
<1> HIDE DEF m
<1>2. Within(m, L)
  BY <1>1 DEF Within
<1>3. QED
  BY <1>2 DEF m

\* It implies that filed objects are found, in a world that fits: the chunk is
\* the tile of a reading of the row, whose first corner every such view meets.
LEMMA CornersHold ==
    ASSUME WorldFits, IndInv, IInv
    PROVE  CornerFound
<1> SUFFICES ASSUME at = "commit", up = Nil, ~lost, NEW u \in Filed, NEW v \in Views,
                    LET corner == Merged(Stored(db.rows[u]), ChildBoxes(db.rows, u)).lo
                    IN  Intersects([lo |-> corner, hi |-> corner], v)
             PROVE  u \in query_objects(v)
  BY DEF CornerFound
<1> DEFINE S == ChildBoxes(db.rows, u)
           stored == Stored(db.rows[u])
<1>1. u \in DOMAIN db.rows /\ FiledAnew(u)
  <2>1. PICK d \in DOMAIN request.dirty \cap DOMAIN db.rows : u \in LineOf(d)
    BY DEF Filed, LineOf
  <2>2. u \in Sources \/ Above(u)
    BY <2>1, FlushFiled DEF Above
  <2>3. QED
    BY <2>2, FlushFiled DEF Filed
<1>2. PICK b \in Boxes \cup {stored} :
        /\ b \in Box /\ stored \in Box /\ ToInts(b) = ToInts(stored)
        /\ db.chunks[db.rows[u].chunk] = compute_chunk(Merged(b, S))
  BY <1>1, FiledReading
<1>3. S \in SUBSET Box /\ IsFiniteSet(S)
  BY Families, ChildBoxesType DEF IInv
<1>4. PICK L \in 0..31 : 2 * L + 2 <= IntBits /\ \A x \in Boxes : Within(x, L)
  BY DEF WorldFits
<1>5. \A x \in DOMAIN db.rows : Within(Stored(db.rows[x]), L)
  <2>1. \A x \in Boxes : Within(OfInts(ToInts(x)), L)
    BY <1>4, StoredWithin, DatabaseAssumption
  <2>2. Within(DefaultBox, L)
    <3>1. Side(L) \in Nat /\ Unit \in Nat
      BY SideType, ChunkAssumption
    <3>2. QED
      BY <3>1 DEF Within, DefaultBox
  <2>3. \A x \in DOMAIN db.rows :
          db.rows[x].box = Null \/ \E y \in Boxes : db.rows[x].box = ToInts(y)
    BY DEF IInv, Typed
  <2>4. QED
    BY <2>1, <2>2, <2>3 DEF Stored
<1>6. \A x \in S \cup {b} : Within(x, L)
  BY <1>1, <1>4, <1>5 DEF ChildBoxes
<1>7. v \in Box /\ \A a \in Axes : /\ v.lo[a] <= Merged(stored, S).lo[a]
                                   /\ Merged(stored, S).lo[a] <= v.hi[a]
  BY DatabaseAssumption DEF Intersects
<1> HIDE DEF S, stored
<1>8. Within(Merged(b, S), L)
  BY <1>2, <1>3, <1>6, MergedWithin
<1>9. Matches(compute_chunk(Merged(b, S)), v)
  BY <1>2, <1>3, <1>4, <1>7, <1>8, CornerInTile
<1>10. QED
  BY <1>1, <1>2, <1>9 DEF query_objects, FiledAnew

-----------------------------------------------------------------------------
(* The file as ObjectIndex sees it.                                        *)

\* A state with the tile itself for its id.
Tiles(s) ==
    [u \in DOMAIN s.rows |->
        [s.rows[u] EXCEPT !.chunk = IF @ = Null THEN Null ELSE s.chunks[@]]]

\* What the refinement mapping makes of rows and chunks.
LEMMA TilesIs ==
    ASSUME NEW s, \A u \in DOMAIN s.rows : s.rows[u] \in Row
    PROVE  /\ DOMAIN Tiles(s) = DOMAIN s.rows
           /\ \A u \in DOMAIN s.rows :
                /\ Tiles(s)[u].parent = s.rows[u].parent /\ Tiles(s)[u].box = s.rows[u].box
                /\ Tiles(s)[u].chunk = IF s.rows[u].chunk = Null THEN Null
                                       ELSE s.chunks[s.rows[u].chunk]
           /\ \A u : Index!Lineage(Tiles(s), u) = Index!Lineage(s.rows, u)
           /\ \A u, b : Index!Filed(Tiles(s), u, b) = Index!Filed(s.rows, u, b)
           /\ \A u \in DOMAIN s.rows :
                Index!Readings(Tiles(s)[u]) = Index!Readings(s.rows[u])
<1>1. DOMAIN Tiles(s) = DOMAIN s.rows
  BY DEF Tiles
<1>2. ASSUME NEW u \in DOMAIN s.rows
      PROVE  /\ Tiles(s)[u].parent = s.rows[u].parent /\ Tiles(s)[u].box = s.rows[u].box
             /\ Tiles(s)[u].chunk = IF s.rows[u].chunk = Null THEN Null
                                    ELSE s.chunks[s.rows[u].chunk]
  <2>1. Tiles(s)[u] = [s.rows[u] EXCEPT !.chunk = IF @ = Null THEN Null ELSE s.chunks[@]]
    BY DEF Tiles
  <2>2. s.rows[u] \in Row
    OBVIOUS
  <2>3. QED
    BY <2>1, <2>2 DEF Row
<1>3. \A u : Index!Lineage(Tiles(s), u) = Index!Lineage(s.rows, u)
  BY <1>1, <1>2, LineageSame
<1>4. \A u : ChildBoxes(Tiles(s), u) = ChildBoxes(s.rows, u)
  <2>1. \A u \in DOMAIN s.rows : Stored(Tiles(s)[u]) = Stored(s.rows[u])
    BY <1>2 DEF Stored
  <2>2. \A u : {x \in DOMAIN Tiles(s) : Tiles(s)[x].parent = u}
             = {x \in DOMAIN s.rows : s.rows[x].parent = u}
    BY <1>1, <1>2
  <2>3. QED
    BY <2>1, <2>2 DEF ChildBoxes
<1>5. \A u, b : Index!Filed(Tiles(s), u, b) = Index!Filed(s.rows, u, b)
  BY <1>4, SameFiled
<1>6. \A u \in DOMAIN s.rows : Index!Readings(Tiles(s)[u]) = Index!Readings(s.rows[u])
  BY <1>2, SameReadings
<1>7. QED
  BY <1>1, <1>2, <1>3, <1>5, <1>6

\* A flush that ends with no write given up is applied as a whole.
LEMMA CommitFlushes ==
    ASSUME IndInv, IInv, Commit, ~lost
    PROVE  Index!Flush
<1> DEFINE M == Tiles(disk)
           N == Tiles(db)
           req == request
<1>1. /\ at = "commit" /\ up = Nil /\ disk' = db /\ request' = NoRequest /\ UNCHANGED lost
      /\ request # NoRequest
  BY DEF Commit, Idle, IInv, TaskOK
<1>2. /\ Gone = req.remove /\ Come = req.upsert
      /\ Measured = DOMAIN req.dirty /\ Sources = DOMAIN req.dirty \cap DOMAIN db.rows
      /\ RowsRight /\ BoxesRight /\ ChunksKept
      /\ \A u \in DOMAIN db.rows :
           IF u \in Sources \/ Above(u) THEN FiledAnew(u)
           ELSE db.rows[u].chunk = IF u \in Spared THEN disk.rows[u].chunk ELSE Null
  BY <1>1, FlushFiled
<1>3. /\ DOMAIN M = DOMAIN disk.rows
      /\ \A u \in DOMAIN M :
           /\ M[u].parent = disk.rows[u].parent /\ M[u].box = disk.rows[u].box
           /\ M[u].chunk = IF disk.rows[u].chunk = Null THEN Null
                           ELSE disk.chunks[disk.rows[u].chunk]
      /\ \A u : Index!Lineage(M, u) = Index!Lineage(disk.rows, u)
  BY Families, TilesIs DEF IInv
<1>4. /\ DOMAIN N = DOMAIN db.rows
      /\ \A u \in DOMAIN N :
           /\ N[u].parent = db.rows[u].parent /\ N[u].box = db.rows[u].box
           /\ N[u].chunk = IF db.rows[u].chunk = Null THEN Null
                           ELSE db.chunks[db.rows[u].chunk]
           /\ Index!Readings(N[u]) = Index!Readings(db.rows[u])
      /\ \A u : Index!Lineage(N, u) = LineOf(u)
      /\ \A u, b : Index!Filed(N, u, b) = Index!Filed(db.rows, u, b)
  BY Families, TilesIs DEF IInv, LineOf
<1>5. /\ \A u \in DOMAIN db.rows : db.rows[u].parent = Parent[u]
                                  /\ db.rows[u].parent \in DOMAIN db.rows \cup {Nil}
      /\ \A u \in DOMAIN disk.rows : disk.rows[u].parent = Parent[u]
  BY Families DEF IInv, Rooted
<1>6. Index!Kept(req) = Spared
  <2>1. Index!Kept(req) = {u \in DOMAIN M : Index!Lineage(M, u) \cap req.remove = {}}
    BY DEF Index!Kept, Tiles
  <2> HIDE DEF M
  <2>2. QED
    BY <1>2, <1>3, <2>1 DEF Spared
<1>7. \A u \in Spared : u \in DOMAIN M
  BY <1>3 DEF Spared
<1> HIDE DEF M, N
<1>8. Index!Present(req, N)
  <2>1. /\ Spared \subseteq DOMAIN N /\ DOMAIN N \subseteq Spared \cup req.upsert
        /\ \A u \in DOMAIN N : N[u].parent \in DOMAIN N \cup {Nil}
        /\ \A u \in req.upsert : Parent[u] \in Spared \cup {Nil} => u \in DOMAIN N
    BY <1>2, <1>4, <1>5 DEF RowsRight
  <2>2. \A u \in DOMAIN N : N[u].parent = IF u \in req.upsert THEN Parent[u] ELSE M[u].parent
    BY <1>3, <1>4, <1>5, <1>7, <2>1
  <2>3. QED
    BY <1>6, <2>1, <2>2 DEF Index!Present, M, Tiles
<1>9. Index!Measured(req, N)
  <2>1. \A u \in DOMAIN N :
          N[u].box = IF u \in DOMAIN req.dirty THEN ToInts(req.dirty[u])
                     ELSE IF u \in Spared THEN M[u].box ELSE Null
    BY <1>2, <1>3, <1>4, <1>7 DEF BoxesRight
  <2>2. QED
    BY <1>6, <2>1, SameBoxOps DEF Index!Measured, M, Tiles
<1>10. Index!Indexed(req, N)
  <2> DEFINE dirty == DOMAIN req.dirty \cap DOMAIN N
             above == UNION {Index!Lineage(N, u) \ {u} : u \in dirty}
  <2>1. dirty = Sources /\ \A x : x \in above <=> Above(x)
    BY <1>2, <1>4 DEF Above
  <2> HIDE DEF dirty, above
  <2>2. ASSUME NEW u \in DOMAIN N
        PROVE  \/ u \in dirty /\ N[u].chunk = Index!Filed(N, u, req.dirty[u])
               \/ u \in above /\ \E b \in Index!Readings(N[u]) :
                                    N[u].chunk = Index!Filed(N, u, b)
               \/ /\ u \notin dirty \cup above
                  /\ N[u].chunk = IF u \in Spared THEN M[u].chunk ELSE Null
    <3>1. CASE u \in Sources \/ Above(u)
      <4>1. FiledAnew(u)
        BY <1>2, <1>4, <2>2, <3>1
      <4>2. N[u].chunk = db.chunks[db.rows[u].chunk]
        BY <1>4, <4>1 DEF FiledAnew
      <4>3. QED
        BY <1>4, <2>1, <4>1, <4>2 DEF FiledAnew
    <3>2. CASE ~(u \in Sources \/ Above(u))
      <4>1. db.rows[u].chunk = IF u \in Spared THEN disk.rows[u].chunk ELSE Null
        BY <1>2, <1>4, <3>2
      <4>2. CASE u \in Spared
        <5>1. u \in DOMAIN disk.rows /\ disk.rows[u].chunk \in 1..Len(disk.chunks) \cup {Null}
          BY <1>3, <1>7, <4>2 DEF IInv, Typed
        <5>2. disk.rows[u].chunk # Null =>
                db.chunks[disk.rows[u].chunk] = disk.chunks[disk.rows[u].chunk]
          BY <1>2, <5>1 DEF ChunksKept
        <5>3. N[u].chunk = M[u].chunk
          BY <1>3, <1>4, <4>1, <4>2, <5>1, <5>2
        <5>4. QED
          BY <2>1, <3>2, <4>2, <5>3
      <4>3. CASE u \notin Spared
        BY <1>4, <2>1, <3>2, <4>1, <4>3
      <4>4. QED
        BY <4>2, <4>3
    <3>3. QED
      BY <3>1, <3>2
  <2>3. QED
    BY <1>6, <2>2 DEF Index!Indexed, M, Tiles, dirty, above
<1>11. QED
  BY <1>1, <1>8, <1>9, <1>10 DEF Index!Flush, N, Tiles

\* One that ends after a write was given up leaves sound references.
LEMMA CommitInPart ==
    ASSUME IndInv, IInv, Commit, lost
    PROVE  Index!FlushInPart
<1>1. /\ disk' = db /\ request' = NoRequest /\ UNCHANGED lost /\ request # NoRequest
  BY DEF Commit, Idle, IInv, TaskOK
<1>2. \A u \in DOMAIN Tiles(db) : Tiles(db)[u].parent \in DOMAIN Tiles(db) \cup {Nil}
  BY Families, TilesIs DEF IInv, Rooted
<1>3. QED
  BY <1>1, <1>2 DEF Index!FlushInPart, Tiles

\* A call of the flush writes to the transaction, or gives a write up.
LEMMA CallGivesUp ==
    ASSUME IndInv, IInv, at # "idle", UNCHANGED <<disk, request>>,
           lost' \in BOOLEAN, lost => lost'
    PROVE  Index!GiveUp \/ UNCHANGED <<Tiles(disk), request, lost>>
<1>1. lost \in BOOLEAN /\ request # NoRequest
  BY DEF IndInv, RequestOK, IInv, TaskOK
<1>2. CASE lost' = lost
  BY <1>2 DEF Tiles
<1>3. CASE lost' = TRUE
  BY <1>1, <1>3 DEF Index!GiveUp, Tiles
<1>4. QED
  BY <1>1, <1>2, <1>3

\* Every call is a step of ObjectIndex or a stutter.
LEMMA StepSimulates ==
    ASSUME IndInv, IInv, IndInv', IInv', [Next]_vars
    PROVE  Index!Next \/ UNCHANGED <<Tiles(disk), request, lost>>
<1>1. ASSUME NEW r \in Requests, Begin(r) PROVE Index!Begin(request')
  <2>1. request = NoRequest /\ UNCHANGED <<disk, lost>>
    BY <1>1 DEF Begin, IInv, TaskOK
  <2>2. QED
    BY <2>1 DEF Index!Begin, Tiles
<1>2. ASSUME NEW u \in Objects,
             \/ remove_object(u) \/ upsert_object_uuids(u)
             \/ set_object_aabb(u) \/ FileObject(u)
      PROVE  Index!GiveUp \/ UNCHANGED <<Tiles(disk), request, lost>>
  <2>1. UNCHANGED <<disk, request>> /\ at # "idle"
    <3>1. \E i \in 1..4 : Visit(i, u)
      BY <1>2 DEF remove_object, upsert_object_uuids, set_object_aabb, FileObject
    <3>2. PICK i \in 1..4 : Visit(i, u)
      BY <3>1
    <3>3. at = Loops[i] /\ UNCHANGED <<disk, request>>
      BY <3>2 DEF Visit
    <3>4. i = 1 \/ i = 2 \/ i = 3 \/ i = 4
      OBVIOUS
    <3>5. QED
      BY <3>3, <3>4 DEF Loops
  <2>2. lost => lost'
    <3>1. ASSUME NEW ok \in BOOLEAN, Write(ok) PROVE lost => lost'
      BY <3>1 DEF Write
    <3>2. ASSUME NEW c, FileUnder(u, c) PROVE lost => lost'
      BY <1>2, <2>1, <3>1, <3>2 DEF FileUnder, set_object_chunk
    <3>3. QED
      BY <1>2, <3>1, <3>2 DEF remove_object, upsert_object_uuids, set_object_aabb, FileObject
  <2>3. lost' \in BOOLEAN
    BY DEF IndInv, RequestOK
  <2>4. QED
    BY <2>1, <2>2, <2>3, CallGivesUp
<1>3. ASSUME FileAncestor
      PROVE  Index!GiveUp \/ UNCHANGED <<Tiles(disk), request, lost>>
  <2>1. UNCHANGED <<disk, request>> /\ at # "idle"
    BY <1>3 DEF FileAncestor, IndInv, PlaceOK
  <2>2. lost => lost'
    <3>1. ASSUME NEW ok \in BOOLEAN, Write(ok) PROVE lost => lost'
      BY <3>1 DEF Write
    <3>2. ASSUME NEW c, FileUnder(up, c) PROVE lost => lost'
      BY <3>1, <3>2 DEF FileUnder, set_object_chunk
    <3>3. QED
      BY <1>3, <3>2 DEF FileAncestor
  <2>3. lost' \in BOOLEAN
    BY DEF IndInv, RequestOK
  <2>4. QED
    BY <2>1, <2>2, <2>3, CallGivesUp
<1>4. ASSUME Commit PROVE Index!Flush \/ Index!FlushInPart
  BY <1>4, CommitFlushes, CommitInPart
<1>5. ASSUME Crash PROVE Index!Reopen
  BY <1>5 DEF Crash, Idle, Index!Reopen
<1>6. CASE UNCHANGED vars
  BY <1>6 DEF vars, Tiles
<1>7. QED
  BY <1>1, <1>2, <1>3, <1>4, <1>5, <1>6 DEF Next, Call, Index!Next

\* The empty database is the empty index.
LEMMA InitSimulates == Init => Index!Init
<1> SUFFICES ASSUME Init PROVE Index!Init
  OBVIOUS
<1>1. disk.rows = [u \in {} |-> 0] /\ request = NoRequest /\ lost = FALSE
  BY DEF Init
<1>2. Tiles(disk) = [u \in {} |-> 0]
  BY <1>1 DEF Tiles
<1>3. QED
  BY <1>1, <1>2 DEF Index!Init, Tiles

-----------------------------------------------------------------------------
(* Theorems.                                                               *)

\* The database module's types: the rows and the caches stay what the code takes
\* them for, ids in chunk_cache included.
THEOREM DatabaseTypes == Spec => []TypeOK
BY FlushInvariance, TypesHold, PTL

\* Whatever a committed flush has filed, a query that holds its first corner finds,
\* for any objects and boxes of a world that the R-tree's integers can hold.
THEOREM CornersFound == ASSUME WorldFits PROVE Spec => []CornerFound
BY FlushInvariance, CornersHold, PTL

\* The calls of the flush, on the connection's caches and in one transaction, with
\* evictions, crashes and given-up writes, implement ObjectIndex.
THEOREM ImplementsObjectIndex == Spec => ImplementsIndex
<1>1. Init => Index!Init
  BY InitSimulates
<1>2. IndInv /\ IInv /\ IndInv' /\ IInv' /\ [Next]_vars
      => [Index!Next]_<<Tiles(disk), request, lost>>
  BY StepSimulates
<1>3. Spec => Index!Init /\ [][Index!Next]_<<Tiles(disk), request, lost>>
  BY <1>1, <1>2, FlushInvariance, PTL DEF Spec
<1>4. QED
  BY <1>3, PTL DEF ImplementsIndex, Index!Spec, Tiles
=============================================================================
