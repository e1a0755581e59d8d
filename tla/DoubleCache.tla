---------------------------- MODULE DoubleCache ----------------------------
(* The double-cache content resolver (dht/resolver.go).  Both operations   *)
(* hold cacheMu, the call of the next resolver included, so each is one    *)
(* step.  QueryContent changes nothing and is an operator.                 *)
EXTENDS Naturals, FiniteSets

CONSTANTS
  Ids,        \* content IDs
  Values,     \* contents
  Size,       \* length of each content
  Capacity,   \* opts.Capacity, in bytes, of one of the two maps
  HasNext,    \* there is a next resolver
  MaxBytes,   \* bound on the bytes inserted
  None        \* no content

ASSUME CacheConstants ==
  /\ Values \subseteq DOMAIN Size /\ \A v \in Values : Size[v] \in Nat
  /\ Capacity \in Nat /\ HasNext \in BOOLEAN
  /\ MaxBytes \in Nat /\ None \notin Values

VARIABLES
  cacheFront,      \* a map, None where it has no entry
  cacheFrontSize,
  cacheBack,
  next,            \* what the next resolver was given
  last,            \* history: the content last inserted, by content ID
  since            \* history: bytes offered to the cache from then on

cacheVars == <<cacheFront, cacheFrontSize, cacheBack, next, last, since>>

Empty == [i \in Ids |-> None]

CacheInit ==
  /\ cacheFront = Empty /\ cacheFrontSize = 0 /\ cacheBack = Empty
  /\ next = Empty /\ last = Empty /\ since = [i \in Ids |-> 0]

Put(map, i, v) == [map EXCEPT ![i] = v]

\* The history that the properties refer to.
Offered(i, v, bytes) ==
  /\ last' = Put(last, i, v)
  /\ since' = [j \in Ids |-> IF j = i THEN 0 ELSE since[j] + bytes]
  /\ \A j \in Ids : since'[j] <= MaxBytes

InsertNext(i, v) == next' = IF HasNext THEN Put(next, i, v) ELSE next

\* "We cannot cache something that is greater than the maximum capacity."
InsertTooLarge(i, v) ==
  /\ Size[v] > Capacity
  /\ InsertNext(i, v) /\ Offered(i, v, 0)
  /\ UNCHANGED <<cacheFront, cacheFrontSize, cacheBack>>

\* Bug: the front is rotated once it is full, not before it overflows.
Rotates_Bug(v) == cacheFrontSize >= Capacity

Rotates(v) == cacheFrontSize + Size[v] > Capacity

\* Bug: the size of the front survives the rotation.
InsertCached_Bug(i, v) ==
  /\ Size[v] <= Capacity
  /\ cacheBack' = IF Rotates(v) THEN cacheFront ELSE cacheBack
  /\ cacheFrontSize' = (IF Rotates(v) THEN cacheFrontSize ELSE cacheFrontSize + Size[v])
  /\ cacheFront' = Put(IF Rotates(v) THEN Empty ELSE cacheFront, i, v)
  /\ InsertNext(i, v) /\ Offered(i, v, Size[v])

\* Bug: the next resolver is only given what the caches could not take.
InsertCachedNoNext_Bug(i, v) ==
  /\ Size[v] <= Capacity
  /\ cacheBack' = IF Rotates(v) THEN cacheFront ELSE cacheBack
  /\ cacheFrontSize' = (IF Rotates(v) THEN 0 ELSE cacheFrontSize) + Size[v]
  /\ cacheFront' = Put(IF Rotates(v) THEN Empty ELSE cacheFront, i, v)
  /\ UNCHANGED next /\ Offered(i, v, Size[v])

\* A content that was there already is counted again.
InsertCached(i, v) ==
  /\ Size[v] <= Capacity
  /\ cacheBack' = IF Rotates(v) THEN cacheFront ELSE cacheBack
  /\ cacheFrontSize' = (IF Rotates(v) THEN 0 ELSE cacheFrontSize) + Size[v]
  /\ cacheFront' = Put(IF Rotates(v) THEN Empty ELSE cacheFront, i, v)
  /\ InsertNext(i, v) /\ Offered(i, v, Size[v])

\* What QueryContent finds in the caches, the front first.
Cached(i) == IF cacheFront[i] # None THEN cacheFront[i] ELSE cacheBack[i]

QueryContent(i) ==
  IF Cached(i) # None THEN Cached(i) ELSE IF HasNext THEN next[i] ELSE None

CacheNext == \E i \in Ids, v \in Values : InsertTooLarge(i, v) \/ InsertCached(i, v)

CacheSpec == CacheInit /\ [][CacheNext]_cacheVars

-----------------------------------------------------------------------------
\* The bytes that a map holds: the first, the second... of each content.
Bytes(map) == UNION {{i} \X (1..Size[map[i]]) : i \in {j \in Ids : map[j] # None}}

\* "guaranteeed to consume, at most, 2 MB of memory, but will only be able to cache
\* 1 MB of data" (WithCapacity, which halves the capacity it is given): neither map
\* ever holds more than Capacity, however contents are repeated and replaced.
Bounded == Cardinality(Bytes(cacheFront)) <= Capacity /\ Cardinality(Bytes(cacheBack)) <= Capacity

\* What was inserted stays in the caches until more than Capacity bytes of other
\* contents were inserted: it is dropped at the second rotation after it at the
\* earliest.  Without a next resolver, this is what a gossiper may rely on between
\* a push and the pulls that answer it.
Retained ==
  \A i \in Ids : last[i] # None /\ Size[last[i]] <= Capacity /\ since[i] <= Capacity
                   => Cached(i) = last[i]

\* "QueryContent returns the content associated with a content ID" (ContentResolver):
\* over a next resolver a query returns what was inserted last.
ReadsLast == HasNext => \A i \in Ids : QueryContent(i) = last[i]

\* It does at any distance, rotations and larger contents in between included,
\* unless what was inserted last is itself too large for the cache, which may then
\* still hold an older content of the same ID.
ReadsLastCached ==
  HasNext => \A i \in Ids : last[i] = None \/ Size[last[i]] <= Capacity => QueryContent(i) = last[i]
=============================================================================
