------------------------------ MODULE LruCache ------------------------------
(***************************************************************************)
(* fixed_sized_cache with LRUCachePolicy (cpp_caches/cache.hpp and         *)
(* lru_cache_policy.hpp): a map, and the list of its keys from the most to *)
(* the least recently used.  Every operation holds the cache's mutex from  *)
(* beginning to end, so each is a function from a cache to a cache.        *)
(***************************************************************************)
EXTENDS Naturals, Sequences, FiniteSets

Keys(c) == DOMAIN c.items

\* The list q names every element of S once.
Lists(q, S) ==
    /\ q \in Seq(S)
    /\ \A k \in S : \E i \in 1..Len(q) : q[i] = k
    /\ \A i, j \in 1..Len(q) : q[i] = q[j] => i = j

\* The list q is sorted by the relation R.
Ordered(q, R) == \A i, j \in 1..Len(q) : i < j => <<q[i], q[j]>> \in R

\* c is a cache from keys in K to values in V whose list names its keys: no
\* iterator in key_finder dangles, and ReplCandidate is a key.
WellFormed(c, K, V) ==
    /\ c = [items |-> c.items, queue |-> c.queue]
    /\ Keys(c) \subseteq K /\ c.items \in [Keys(c) -> V]
    /\ Lists(c.queue, Keys(c))

Empty == [items |-> [k \in {} |-> 0], queue |-> <<>>]

\* max_cache_size: a capacity of zero is forced to one.
Capacity(max_size) == IF max_size = 0 THEN 1 ELSE max_size

\* list::erase at the key's iterator.
Unlisted(q, k) ==
    LET at == CHOOSE i \in 1..Len(q) : q[i] = k
    IN  [i \in 1..(Len(q) - 1) |-> IF i < at THEN q[i] ELSE q[i + 1]]

\* Mutant: a use does not count.
Touch_Ignored(q, k) == q

\* LRUCachePolicy::Touch: to the front of the list.
Touch(q, k) == <<k>> \o Unlisted(q, k)

\* LRUCachePolicy::ReplCandidate: the back of the list.
ReplCandidate(c) == c.queue[Len(c.queue)]

Erase(c, k) ==
    [items |-> [x \in Keys(c) \ {k} |-> c.items[x]], queue |-> Unlisted(c.queue, k)]

Insert(c, k, v) ==
    [items |-> [x \in Keys(c) \cup {k} |-> IF x = k THEN v ELSE c.items[x]],
     queue |-> <<k>> \o c.queue]

Update(c, k, v) ==
    [items |-> [c.items EXCEPT ![k] = v], queue |-> Touch(c.queue, k)]

\* Mutant: the size is tested before the insertion counts.
MustEvict_OffByOne(c, k, max_size) ==
    k \notin Keys(c) /\ Cardinality(Keys(c)) > Capacity(max_size)

\* A new key makes room for itself when the cache is full.
MustEvict(c, k, max_size) ==
    k \notin Keys(c) /\ Cardinality(Keys(c)) + 1 > Capacity(max_size)

Put(c, k, v, max_size) ==
    IF k \in Keys(c) THEN Update(c, k, v)
    ELSE Insert(IF MustEvict(c, k, max_size) THEN Erase(c, ReplCandidate(c)) ELSE c,
                k, v)

\* The values Put(c, k, ...) hands to on_erase_callback.
Evicted(c, k, max_size) ==
    IF MustEvict(c, k, max_size) THEN {c.items[ReplCandidate(c)]} ELSE {}

\* TryGet and Get leave this cache behind: finding a key is a use of it.
Got(c, k) == IF k \in Keys(c) THEN [c EXCEPT !.queue = Touch(c.queue, k)] ELSE c

\* Mutant: the policy is not told.
Removed_StillListed(c, k) ==
    IF k \in Keys(c) THEN [items |-> Erase(c, k).items, queue |-> c.queue] ELSE c

\* Pop and Remove.
Removed(c, k) == IF k \in Keys(c) THEN Erase(c, k) ELSE c
=============================================================================
