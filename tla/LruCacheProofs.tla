--------------------------- MODULE LruCacheProofs ---------------------------
(***************************************************************************)
(* The operations of LruCache keep a cache well formed, within its         *)
(* capacity and its list in the order of use.                              *)
(***************************************************************************)
EXTENDS LruCache, FiniteSetTheorems, TLAPS

-----------------------------------------------------------------------------
(* The list.                                                               *)

\* list::erase at k's iterator: what follows k moves up by one.
LEMMA UnlistedIs ==
    ASSUME NEW S, NEW q, Lists(q, S), NEW k \in S
    PROVE  \E at \in 1..Len(q) :
             /\ q[at] = k
             /\ Unlisted(q, k) = [i \in 1..(Len(q) - 1) |->
                                    IF i < at THEN q[i] ELSE q[i + 1]]
<1> DEFINE at == CHOOSE i \in 1..Len(q) : q[i] = k
<1>1. at \in 1..Len(q) /\ q[at] = k
  BY DEF Lists
<1>2. Unlisted(q, k) = [i \in 1..(Len(q) - 1) |-> IF i < at THEN q[i] ELSE q[i + 1]]
  BY DEF Unlisted
<1> QED
  BY <1>1, <1>2

\* Erasing a listed key leaves a list of the other keys.
LEMMA UnlistedLists ==
    ASSUME NEW S, NEW q, Lists(q, S), NEW k \in S
    PROVE  Lists(Unlisted(q, k), S \ {k})
<1>1. PICK at \in 1..Len(q) :
        /\ q[at] = k
        /\ Unlisted(q, k) = [i \in 1..(Len(q) - 1) |->
                               IF i < at THEN q[i] ELSE q[i + 1]]
  BY UnlistedIs
<1> DEFINE r == [i \in 1..(Len(q) - 1) |-> IF i < at THEN q[i] ELSE q[i + 1]]
<1>2. q \in Seq(S) /\ Len(q) \in Nat /\ Len(q) - 1 \in Nat
  BY <1>1 DEF Lists
<1>3. \A i, j \in 1..Len(q) : q[i] = q[j] => i = j
  BY DEF Lists
<1>4. \A i \in 1..(Len(q) - 1) : r[i] \in S \ {k}
  BY <1>1, <1>2, <1>3
<1>5. r \in Seq(S \ {k}) /\ Len(r) = Len(q) - 1
  BY <1>2, <1>4
<1>6. \A i, j \in 1..(Len(q) - 1) : r[i] = r[j] => i = j
  BY <1>1, <1>2, <1>3
<1>7. ASSUME NEW x \in S \ {k} PROVE \E i \in 1..(Len(q) - 1) : r[i] = x
  <2>1. PICK i \in 1..Len(q) : q[i] = x
    BY DEF Lists
  <2>2. i # at
    BY <1>1, <2>1
  <2>3. CASE i < at
    BY <1>1, <1>2, <2>1, <2>3
  <2>4. CASE i > at
    <3>1. i - 1 \in 1..(Len(q) - 1) /\ r[i - 1] = q[i]
      BY <1>1, <1>2, <2>4
    <3> QED
      BY <2>1, <3>1
  <2> QED
    BY <1>1, <1>2, <2>2, <2>3, <2>4
<1>8. Lists(r, S \ {k})
  BY <1>5, <1>6, <1>7 DEF Lists
<1> QED
  BY <1>1, <1>8

\* A new key at the front of the list.
LEMMA PrependLists ==
    ASSUME NEW S, NEW q, Lists(q, S), NEW k, k \notin S
    PROVE  Lists(<<k>> \o q, S \cup {k})
<1> DEFINE r == <<k>> \o q
<1>1. q \in Seq(S) /\ Len(q) \in Nat
  BY DEF Lists
<1>2. r \in Seq(S \cup {k}) /\ Len(r) = Len(q) + 1
  BY <1>1
<1>3. \A i \in 1..(Len(q) + 1) : r[i] = IF i = 1 THEN k ELSE q[i - 1]
  BY <1>1
<1>4. \A i \in 1..Len(q) : q[i] \in S
  BY <1>1
<1>5. ASSUME NEW i \in 1..Len(r), NEW j \in 1..Len(r), r[i] = r[j] PROVE i = j
  BY <1>1, <1>2, <1>3, <1>4, <1>5 DEF Lists
<1>6. ASSUME NEW x \in S \cup {k} PROVE \E i \in 1..Len(r) : r[i] = x
  <2>1. CASE x = k
    BY <1>1, <1>2, <1>3, <2>1
  <2>2. CASE x # k
    <3>1. PICK i \in 1..Len(q) : q[i] = x
      BY <2>2 DEF Lists
    <3>2. i + 1 \in 1..Len(r) /\ r[i + 1] = x
      BY <1>1, <1>2, <1>3, <3>1
    <3> QED
      BY <3>2
  <2> QED
    BY <2>1, <2>2
<1> QED
  BY <1>2, <1>5, <1>6 DEF Lists

\* A use moves a key but keeps the list one of the same keys.
LEMMA TouchLists ==
    ASSUME NEW S, NEW q, Lists(q, S), NEW k \in S
    PROVE  Lists(Touch(q, k), S)
<1>1. Lists(<<k>> \o Unlisted(q, k), (S \ {k}) \cup {k})
  BY UnlistedLists, PrependLists
<1>2. (S \ {k}) \cup {k} = S
  OBVIOUS
<1> QED
  BY <1>1, <1>2 DEF Touch

\* Erasing keeps the order.
LEMMA UnlistedOrdered ==
    ASSUME NEW S, NEW q, Lists(q, S), NEW k \in S, NEW R, Ordered(q, R)
    PROVE  Ordered(Unlisted(q, k), R)
<1>1. PICK at \in 1..Len(q) :
        /\ q[at] = k
        /\ Unlisted(q, k) = [i \in 1..(Len(q) - 1) |->
                               IF i < at THEN q[i] ELSE q[i + 1]]
  BY UnlistedIs
<1> DEFINE r == [i \in 1..(Len(q) - 1) |-> IF i < at THEN q[i] ELSE q[i + 1]]
<1>2. q \in Seq(S) /\ Len(q) - 1 \in Nat
  BY <1>1 DEF Lists
<1>3. Len(r) = Len(q) - 1
  BY <1>2, UnlistedLists, <1>1 DEF Lists
<1>4. ASSUME NEW i \in 1..Len(r), NEW j \in 1..Len(r), i < j
      PROVE  <<r[i], r[j]>> \in R
  <2>1. \A m, n \in 1..Len(q) : m < n => <<q[m], q[n]>> \in R
    BY DEF Ordered
  <2>2. PICK m \in 1..Len(q), n \in 1..Len(q) : m < n /\ r[i] = q[m] /\ r[j] = q[n]
    <3>1. CASE j < at
      BY <1>2, <1>3, <1>4, <3>1
    <3>2. CASE i < at /\ ~(j < at)
      <4>1. r[i] = q[i] /\ r[j] = q[j + 1] /\ i < j + 1
        BY <1>2, <1>3, <1>4, <3>2
      <4>2. i \in 1..Len(q) /\ j + 1 \in 1..Len(q)
        BY <1>2, <1>3
      <4> QED
        BY <4>1, <4>2
    <3>3. CASE ~(i < at)
      <4>1. r[i] = q[i + 1] /\ r[j] = q[j + 1] /\ i + 1 < j + 1
        BY <1>2, <1>3, <1>4, <3>3
      <4>2. i + 1 \in 1..Len(q) /\ j + 1 \in 1..Len(q)
        BY <1>2, <1>3
      <4> QED
        BY <4>1, <4>2
    <3> QED
      BY <1>4, <3>1, <3>2, <3>3
  <2> QED
    BY <2>1, <2>2
<1> QED
  BY <1>1, <1>4 DEF Ordered

\* A key at the front is used after everything listed behind it.
LEMMA PrependOrdered ==
    ASSUME NEW S, NEW q, Lists(q, S), NEW k, k \notin S,
           NEW R, Ordered(q, R), NEW T,
           \A x, y \in S : <<x, y>> \in R => <<x, y>> \in T,
           \A x \in S : <<k, x>> \in T
    PROVE  Ordered(<<k>> \o q, T)
<1> DEFINE r == <<k>> \o q
<1>1. q \in Seq(S) /\ Len(q) \in Nat
  BY DEF Lists
<1>2. Len(r) = Len(q) + 1
  BY <1>1
<1>3. \A i \in 1..(Len(q) + 1) : r[i] = IF i = 1 THEN k ELSE q[i - 1]
  BY <1>1
<1>4. ASSUME NEW i \in 1..Len(r), NEW j \in 1..Len(r), i < j
      PROVE  <<r[i], r[j]>> \in T
  <2>1. r[j] = q[j - 1] /\ j - 1 \in 1..Len(q) /\ q[j - 1] \in S
    BY <1>1, <1>2, <1>3, <1>4
  <2>2. CASE i = 1
    <3>1. r[i] = k
      BY <1>1, <1>3, <2>2
    <3> QED
      BY <2>1, <3>1
  <2>3. CASE i # 1
    <3>1. r[i] = q[i - 1] /\ i - 1 \in 1..Len(q) /\ q[i - 1] \in S /\ i - 1 < j - 1
      BY <1>1, <1>2, <1>3, <1>4, <2>3
    <3>2. <<q[i - 1], q[j - 1]>> \in R
      BY <2>1, <3>1 DEF Ordered
    <3> QED
      BY <2>1, <3>1, <3>2
  <2> QED
    BY <2>2, <2>3
<1> QED
  BY <1>4 DEF Ordered

-----------------------------------------------------------------------------
(* The operations.                                                         *)

\* The empty cache.
LEMMA EmptyWellFormed ==
    ASSUME NEW K, NEW V
    PROVE  WellFormed(Empty, K, V) /\ Keys(Empty) = {} /\ (\A R : Ordered(Empty.queue, R))
BY DEF Empty, WellFormed, Keys, Lists, Ordered

\* Erase.
LEMMA EraseWellFormed ==
    ASSUME NEW K, NEW V, NEW c, WellFormed(c, K, V), NEW k \in Keys(c)
    PROVE  /\ WellFormed(Erase(c, k), K, V)
           /\ Keys(Erase(c, k)) = Keys(c) \ {k}
           /\ \A x \in Keys(c) \ {k} : Erase(c, k).items[x] = c.items[x]
           /\ Erase(c, k).queue = Unlisted(c.queue, k)
<1>1. Keys(Erase(c, k)) = Keys(c) \ {k}
  BY DEF Erase, Keys
<1>2. Lists(Unlisted(c.queue, k), Keys(c) \ {k})
  BY UnlistedLists DEF WellFormed
<1> QED
  BY <1>1, <1>2 DEF Erase, Keys, WellFormed

\* Insert of a new key.
LEMMA InsertWellFormed ==
    ASSUME NEW K, NEW V, NEW c, WellFormed(c, K, V), NEW k \in K \ Keys(c), NEW v \in V
    PROVE  /\ WellFormed(Insert(c, k, v), K, V)
           /\ Keys(Insert(c, k, v)) = Keys(c) \cup {k}
           /\ Insert(c, k, v).items[k] = v
           /\ \A x \in Keys(c) : Insert(c, k, v).items[x] = c.items[x]
           /\ Insert(c, k, v).queue = <<k>> \o c.queue
<1>1. Keys(Insert(c, k, v)) = Keys(c) \cup {k}
  BY DEF Insert, Keys
<1>2. Lists(<<k>> \o c.queue, Keys(c) \cup {k})
  BY PrependLists DEF WellFormed
<1> QED
  BY <1>1, <1>2 DEF Insert, Keys, WellFormed

\* Update of a cached key.
LEMMA UpdateWellFormed ==
    ASSUME NEW K, NEW V, NEW c, WellFormed(c, K, V), NEW k \in Keys(c), NEW v \in V
    PROVE  /\ WellFormed(Update(c, k, v), K, V)
           /\ Keys(Update(c, k, v)) = Keys(c)
           /\ Update(c, k, v).items = [c.items EXCEPT ![k] = v]
           /\ Update(c, k, v).queue = Touch(c.queue, k)
<1>1. Keys(Update(c, k, v)) = Keys(c)
  BY DEF Update, Keys
<1>2. Lists(Touch(c.queue, k), Keys(c))
  BY TouchLists DEF WellFormed
<1> QED
  BY <1>1, <1>2 DEF Update, Keys, WellFormed

\* TryGet.
LEMMA GotWellFormed ==
    ASSUME NEW K, NEW V, NEW c, WellFormed(c, K, V), NEW k
    PROVE  /\ WellFormed(Got(c, k), K, V)
           /\ Keys(Got(c, k)) = Keys(c)
<1>1. CASE k \in Keys(c)
  <2>1. Got(c, k) = [items |-> c.items, queue |-> Touch(c.queue, k)]
    BY <1>1 DEF Got, WellFormed
  <2>2. Lists(Touch(c.queue, k), Keys(c))
    BY <1>1, TouchLists DEF WellFormed
  <2> QED
    BY <2>1, <2>2 DEF Keys, WellFormed
<1>2. CASE k \notin Keys(c)
  BY <1>2 DEF Got
<1> QED
  BY <1>1, <1>2

\* A full cache has a least recently used key.
LEMMA CandidateIsKey ==
    ASSUME NEW K, NEW V, NEW c, WellFormed(c, K, V), Keys(c) # {}
    PROVE  ReplCandidate(c) \in Keys(c)
<1>1. c.queue \in Seq(Keys(c)) /\ Len(c.queue) \in Nat
  BY DEF WellFormed, Lists
<1>2. PICK k \in Keys(c) : TRUE
  OBVIOUS
<1>3. \E i \in 1..Len(c.queue) : c.queue[i] = k
  BY DEF WellFormed, Lists
<1>4. Len(c.queue) \in 1..Len(c.queue)
  BY <1>1, <1>3
<1> QED
  BY <1>1, <1>4 DEF ReplCandidate

\* The order after a use of k, T, differs from the one before, R, only in k.
UseOf(k, K, R, T) ==
    /\ \A x, y \in K \ {k} : <<x, y>> \in R => <<x, y>> \in T
    /\ \A x \in K \ {k} : <<k, x>> \in T

\* A use of a listed key keeps the list in the order of use.
LEMMA TouchOrdered ==
    ASSUME NEW K, NEW S \in SUBSET K, NEW q, Lists(q, S), NEW k \in S,
           NEW R, NEW T, UseOf(k, K, R, T), Ordered(q, R)
    PROVE  Ordered(Touch(q, k), T)
<1>1. Lists(Unlisted(q, k), S \ {k}) /\ Ordered(Unlisted(q, k), R)
  BY UnlistedLists, UnlistedOrdered
<1>2. \A x, y \in S \ {k} : <<x, y>> \in R => <<x, y>> \in T
  BY DEF UseOf
<1>3. \A x \in S \ {k} : <<k, x>> \in T
  BY DEF UseOf
<1>4. Ordered(<<k>> \o Unlisted(q, k), T)
  BY <1>1, <1>2, <1>3, PrependOrdered
<1> QED
  BY <1>4 DEF Touch

\* Put: the cache stays well formed and within its capacity, holds the new
\* value, and hands exactly the value it drops to the callback.
THEOREM PutCorrect ==
    ASSUME NEW K, IsFiniteSet(K), NEW V, NEW c, WellFormed(c, K, V),
           NEW k \in K, NEW v \in V, NEW m \in Nat,
           Cardinality(Keys(c)) <= Capacity(m)
    PROVE  LET d == Put(c, k, v, m) IN
           /\ WellFormed(d, K, V)
           /\ Cardinality(Keys(d)) <= Capacity(m)
           /\ k \in Keys(d) /\ d.items[k] = v
           /\ Keys(d) \subseteq Keys(c) \cup {k}
           /\ \A x \in Keys(d) \ {k} : d.items[x] = c.items[x]
           /\ Evicted(c, k, m) = {c.items[x] : x \in Keys(c) \ Keys(d)}
           /\ \A R, T : UseOf(k, K, R, T) /\ Ordered(c.queue, R) => Ordered(d.queue, T)
<1> DEFINE d == Put(c, k, v, m)
<1>0. /\ IsFiniteSet(Keys(c)) /\ Cardinality(Keys(c)) \in Nat
      /\ Capacity(m) \in Nat /\ Capacity(m) >= 1
  BY FS_Subset, FS_CardinalityType DEF WellFormed, Capacity
<1>1. CASE k \in Keys(c)
  <2>1. d = Update(c, k, v) /\ Evicted(c, k, m) = {}
    BY <1>1 DEF Put, Evicted, MustEvict
  <2>2. /\ WellFormed(d, K, V) /\ Keys(d) = Keys(c)
        /\ d.items = [c.items EXCEPT ![k] = v] /\ d.queue = Touch(c.queue, k)
    BY <1>1, <2>1, UpdateWellFormed
  <2>3. ASSUME NEW R, NEW T, UseOf(k, K, R, T), Ordered(c.queue, R)
        PROVE  Ordered(d.queue, T)
    BY <1>1, <2>2, <2>3, TouchOrdered DEF WellFormed
  <2>4. c.items \in [Keys(c) -> V]
    BY DEF WellFormed
  <2>5. d.items[k] = v /\ \A x \in Keys(d) \ {k} : d.items[x] = c.items[x]
    BY <1>1, <2>2, <2>4
  <2> QED
    BY <1>1, <2>1, <2>2, <2>3, <2>5
<1>2. CASE k \notin Keys(c) /\ ~MustEvict(c, k, m)
  <2>1. d = Insert(c, k, v) /\ Evicted(c, k, m) = {}
    BY <1>2 DEF Put, Evicted
  <2>2. /\ WellFormed(d, K, V) /\ Keys(d) = Keys(c) \cup {k} /\ d.items[k] = v
        /\ \A x \in Keys(c) : d.items[x] = c.items[x]
        /\ d.queue = <<k>> \o c.queue
    BY <1>2, <2>1, InsertWellFormed
  <2>3. Cardinality(Keys(d)) = Cardinality(Keys(c)) + 1
    BY <1>0, <1>2, <2>2, FS_AddElement
  <2>4. Cardinality(Keys(d)) <= Capacity(m)
    BY <1>0, <1>2, <2>3 DEF MustEvict
  <2>5. ASSUME NEW R, NEW T, UseOf(k, K, R, T), Ordered(c.queue, R)
        PROVE  Ordered(d.queue, T)
    <3>1. Lists(c.queue, Keys(c)) /\ Keys(c) \subseteq K \ {k}
      BY <1>2 DEF WellFormed
    <3>2. /\ \A x, y \in Keys(c) : <<x, y>> \in R => <<x, y>> \in T
          /\ \A x \in Keys(c) : <<k, x>> \in T
      BY <2>5, <3>1 DEF UseOf
    <3> QED
      BY <1>2, <2>2, <2>5, <3>1, <3>2, PrependOrdered
  <2> QED
    BY <2>1, <2>2, <2>4, <2>5
<1>3. CASE MustEvict(c, k, m)
  <2> DEFINE r == ReplCandidate(c)
             e == Erase(c, r)
  <2>1. k \notin Keys(c) /\ Keys(c) # {}
    BY <1>0, <1>3, FS_EmptySet DEF MustEvict
  <2>2. r \in Keys(c)
    BY <2>1, CandidateIsKey
  <2>3. d = Insert(e, k, v) /\ Evicted(c, k, m) = {c.items[r]}
    BY <1>3, <2>1 DEF Put, Evicted
  <2>4. /\ WellFormed(e, K, V) /\ Keys(e) = Keys(c) \ {r}
        /\ \A x \in Keys(e) : e.items[x] = c.items[x]
        /\ e.queue = Unlisted(c.queue, r)
    BY <2>2, EraseWellFormed
  <2>5. /\ WellFormed(d, K, V) /\ Keys(d) = Keys(e) \cup {k} /\ d.items[k] = v
        /\ \A x \in Keys(e) : d.items[x] = e.items[x]
        /\ d.queue = <<k>> \o e.queue
    BY <2>1, <2>3, <2>4, InsertWellFormed
  <2>6. IsFiniteSet(Keys(e)) /\ Cardinality(Keys(e)) = Cardinality(Keys(c)) - 1
    BY <1>0, <2>2, <2>4, FS_RemoveElement
  <2>7. Cardinality(Keys(d)) = Cardinality(Keys(e)) + 1
    BY <2>1, <2>4, <2>5, <2>6, FS_AddElement
  <2>8. Cardinality(Keys(d)) <= Capacity(m)
    BY <1>0, <2>6, <2>7
  <2>9. Keys(c) \ Keys(d) = {r}
    BY <2>1, <2>2, <2>4, <2>5
  <2>10. ASSUME NEW R, NEW T, UseOf(k, K, R, T), Ordered(c.queue, R)
         PROVE  Ordered(d.queue, T)
    <3>1. Ordered(e.queue, R)
      BY <2>2, <2>4, <2>10, UnlistedOrdered DEF WellFormed
    <3>2. Lists(e.queue, Keys(e)) /\ Keys(e) \subseteq K \ {k}
      BY <2>1, <2>4 DEF WellFormed
    <3>3. /\ \A x, y \in Keys(e) : <<x, y>> \in R => <<x, y>> \in T
          /\ \A x \in Keys(e) : <<k, x>> \in T
      BY <2>10, <3>2 DEF UseOf
    <3> QED
      BY <2>1, <2>4, <2>5, <3>1, <3>2, <3>3, PrependOrdered
  <2>11. Evicted(c, k, m) = {c.items[x] : x \in Keys(c) \ Keys(d)}
    BY <2>3, <2>9
  <2> QED
    BY <2>1, <2>4, <2>5, <2>8, <2>10, <2>11
<1> QED
  BY <1>1, <1>2, <1>3

\* Pop and Remove: only the key goes.
LEMMA RemovedWellFormed ==
    ASSUME NEW K, IsFiniteSet(K), NEW V, NEW c, WellFormed(c, K, V), NEW k
    PROVE  LET d == Removed(c, k) IN
           /\ WellFormed(d, K, V)
           /\ Keys(d) = Keys(c) \ {k}
           /\ Cardinality(Keys(d)) <= Cardinality(Keys(c))
           /\ \A x \in Keys(d) : d.items[x] = c.items[x]
           /\ \A R : Ordered(c.queue, R) => Ordered(d.queue, R)
<1> DEFINE d == Removed(c, k)
<1>0. IsFiniteSet(Keys(c))
  BY FS_Subset DEF WellFormed
<1>1. CASE k \in Keys(c)
  <2>1. d = Erase(c, k)
    BY <1>1 DEF Removed
  <2>2. /\ WellFormed(d, K, V) /\ Keys(d) = Keys(c) \ {k}
        /\ \A x \in Keys(d) : d.items[x] = c.items[x]
        /\ d.queue = Unlisted(c.queue, k)
    BY <1>1, <2>1, EraseWellFormed
  <2>3. Cardinality(Keys(d)) <= Cardinality(Keys(c))
    BY <1>0, <2>2, FS_Subset
  <2>4. ASSUME NEW R, Ordered(c.queue, R) PROVE Ordered(d.queue, R)
    BY <1>1, <2>2, <2>4, UnlistedOrdered DEF WellFormed
  <2> QED
    BY <2>2, <2>3, <2>4
<1>2. CASE k \notin Keys(c)
  <2>1. d = c /\ Keys(c) \ {k} = Keys(c)
    BY <1>2 DEF Removed
  <2>2. Cardinality(Keys(c)) \in Nat
    BY <1>0, FS_CardinalityType
  <2> QED
    BY <2>1, <2>2
<1> QED
  BY <1>1, <1>2
=============================================================================
