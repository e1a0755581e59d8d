------------------------------ MODULE DhtProofs ------------------------------
(* Proofs about package dht.  First the double cache: it keeps what it      *)
(* promises to keep, within its bound, and reads what was inserted last.    *)
(* Then the table, under peer discovery: no expiry outlives its peer, the   *)
(* sorted list is right, and samples have the size that was asked for.      *)
EXTENDS DoubleCache, Discovery, FiniteSetTheorems, TLAPS

-----------------------------------------------------------------------------
(* The double cache.                                                       *)

Content == Values \cup {None}

\* Types of the maps, of the size counter and of the history.
CacheTypeOK ==
  /\ cacheFront \in [Ids -> Content] /\ cacheBack \in [Ids -> Content]
  /\ next \in [Ids -> Content] /\ last \in [Ids -> Content]
  /\ cacheFrontSize \in Nat /\ since \in [Ids -> Nat]

Fits(i) == last[i] # None /\ Size[last[i]] <= Capacity

\* Where the content that was inserted last is, if the cache could take it: in the front;
\* or in the back, since when at least the bytes of the front were offered; or nowhere,
\* since when more than Capacity bytes were.
Located(i) ==
  \/ cacheFront[i] = last[i]
  \/ cacheFront[i] = None /\ cacheBack[i] = last[i] /\ since[i] >= cacheFrontSize
  \/ cacheFront[i] = None /\ cacheBack[i] = None /\ since[i] > Capacity

\* The caches hold nothing that was not inserted.
Blank(i) == last[i] = None => cacheFront[i] = None /\ cacheBack[i] = None

CacheInv ==
  /\ CacheTypeOK
  /\ \A i \in Ids : (Fits(i) => Located(i)) /\ Blank(i)
  /\ HasNext => next = last

\* At first there is nothing to locate.
LEMMA CacheInitially == CacheInit => CacheInv
BY DEF CacheInit, CacheInv, CacheTypeOK, Empty, Content, Fits, Blank

\* A content that is too large becomes the last one, and nothing has to locate it.
LEMMA TooLargeStep ==
  ASSUME CacheInv, NEW i \in Ids, NEW v \in Values, InsertTooLarge(i, v)
  PROVE  CacheInv'
<1>1. CacheTypeOK /\ Size[v] \in Nat /\ Capacity \in Nat /\ v # None
  BY CacheConstants, Zenon DEF CacheInv
<1>2. /\ last' = [last EXCEPT ![i] = v]
      /\ since' = [j \in Ids |-> IF j = i THEN 0 ELSE since[j] + 0]
      /\ next' = IF HasNext THEN [next EXCEPT ![i] = v] ELSE next
      /\ cacheFront' = cacheFront /\ cacheBack' = cacheBack
      /\ cacheFrontSize' = cacheFrontSize /\ Size[v] > Capacity
  BY Zenon DEF InsertTooLarge, Offered, InsertNext, Put
<1>3. CacheTypeOK'
  BY <1>1, <1>2 DEF CacheTypeOK, Content
<1>4. HasNext => next' = last'
  BY <1>1, <1>2, Zenon DEF CacheInv
<1>5. ASSUME NEW j \in Ids PROVE (Fits(j)' => Located(j)') /\ Blank(j)'
  <2>1. CASE j = i
    BY <1>1, <1>2, <2>1 DEF CacheTypeOK, Fits, Blank
  <2>2. CASE j # i
    <3>1. since'[j] = since[j] /\ last'[j] = last[j]
      BY <1>1, <1>2, <2>2 DEF CacheTypeOK
    <3> QED
      BY <1>2, <3>1, Zenon DEF CacheInv, Fits, Located, Blank
  <2> QED
    BY <2>1, <2>2, Zenon
<1> QED
  BY <1>3, <1>4, <1>5, Zenon DEF CacheInv

\* A content that is cached goes to the front; a rotation moves what was in the front to
\* the back, and drops from the back only what Capacity bytes were offered after.
LEMMA CachedStep ==
  ASSUME CacheInv, NEW i \in Ids, NEW v \in Values, InsertCached(i, v)
  PROVE  CacheInv'
<1>1. CacheTypeOK /\ Size[v] \in Nat /\ Capacity \in Nat /\ v # None
  BY CacheConstants, Zenon DEF CacheInv
<1>2. /\ last' = [last EXCEPT ![i] = v]
      /\ since' = [j \in Ids |-> IF j = i THEN 0 ELSE since[j] + Size[v]]
      /\ next' = IF HasNext THEN [next EXCEPT ![i] = v] ELSE next
      /\ cacheBack' = IF Rotates(v) THEN cacheFront ELSE cacheBack
      /\ cacheFrontSize' = (IF Rotates(v) THEN 0 ELSE cacheFrontSize) + Size[v]
      /\ cacheFront' = [(IF Rotates(v) THEN Empty ELSE cacheFront) EXCEPT ![i] = v]
  BY Zenon DEF InsertCached, Offered, InsertNext, Put
<1>3. CacheTypeOK'
  <2>1. Empty \in [Ids -> Content]
    BY Zenon DEF Empty, Content
  <2>2. /\ cacheFront' \in [Ids -> Content] /\ cacheBack' \in [Ids -> Content]
        /\ next' \in [Ids -> Content] /\ last' \in [Ids -> Content]
    BY <1>1, <1>2, <2>1, ZenonT(60) DEF CacheTypeOK, Content
  <2>3. cacheFrontSize' \in Nat /\ since' \in [Ids -> Nat]
    BY <1>1, <1>2 DEF CacheTypeOK
  <2> QED
    BY <2>2, <2>3, Zenon DEF CacheTypeOK
<1>4. HasNext => next' = last'
  BY <1>1, <1>2, Zenon DEF CacheInv
<1>5. ASSUME NEW j \in Ids PROVE (Fits(j)' => Located(j)') /\ Blank(j)'
  <2>1. CASE j = i
    <3>1. cacheFront'[i] = v /\ last'[i] = v
      BY <1>1, <1>2, Zenon DEF CacheTypeOK, Empty
    <3> QED
      BY <1>1, <2>1, <3>1, Zenon DEF Located, Blank
  <2>2. CASE j # i
    <3>1. /\ since'[j] = since[j] + Size[v] /\ last'[j] = last[j]
          /\ cacheFront'[j] = IF Rotates(v) THEN None ELSE cacheFront[j]
          /\ since[j] \in Nat /\ cacheFrontSize \in Nat
      BY <1>1, <1>2, <2>2, Zenon DEF CacheTypeOK, Empty
    <3>2. (Fits(j) => Located(j)) /\ Blank(j) /\ (Fits(j)' <=> Fits(j))
      BY <3>1, Zenon DEF CacheInv, Fits
    <3>3. CASE ~Rotates(v)
      <4>1. cacheBack'[j] = cacheBack[j] /\ cacheFront'[j] = cacheFront[j]
            /\ cacheFrontSize' = cacheFrontSize + Size[v]
        BY <1>2, <3>1, <3>3, Zenon
      <4> QED
        BY <1>1, <3>1, <3>2, <4>1 DEF Located, Blank
    <3>4. CASE Rotates(v)
      <4>1. cacheBack'[j] = cacheFront[j] /\ cacheFront'[j] = None
            /\ cacheFrontSize' = Size[v] /\ cacheFrontSize + Size[v] > Capacity
        BY <1>1, <1>2, <3>1, <3>4 DEF Rotates
      <4> QED
        BY <1>1, <3>1, <3>2, <4>1 DEF Located, Blank
    <3> QED
      BY <3>3, <3>4, Zenon
  <2> QED
    BY <2>1, <2>2, Zenon
<1> QED
  BY <1>3, <1>4, <1>5, Zenon DEF CacheInv

\* Every step keeps the invariant.
LEMMA CacheStep == CacheInv /\ [CacheNext]_cacheVars => CacheInv'
<1> SUFFICES ASSUME CacheInv, [CacheNext]_cacheVars PROVE CacheInv'
  BY Zenon
<1>1. CASE CacheNext
  BY <1>1, TooLargeStep, CachedStep, Zenon DEF CacheNext
<1>2. CASE UNCHANGED cacheVars
  BY <1>2, Zenon DEF cacheVars, CacheInv, CacheTypeOK, Fits, Located, Blank
<1> QED
  BY <1>1, <1>2, Zenon

\* The maps hold contents, and sizes are natural numbers.
THEOREM CacheTypeCorrect == CacheSpec => []CacheTypeOK
<1>1. CacheInv => CacheTypeOK
  BY Zenon DEF CacheInv
<1> QED
  BY <1>1, CacheInitially, CacheStep, PTL DEF CacheSpec

\* InsertContent: what was inserted stays in the caches until more than Capacity bytes of
\* other contents were inserted, whatever the capacity and the sizes.
THEOREM RetainedHolds == CacheSpec => []Retained
<1>1. CacheInv => Retained
  <2> SUFFICES ASSUME CacheInv, NEW i \in Ids, Fits(i), since[i] <= Capacity
               PROVE  Cached(i) = last[i]
    BY Zenon DEF Retained, Fits
  <2>1. Located(i) /\ since[i] \in Nat /\ Capacity \in Nat /\ last[i] # None
    BY CacheConstants, Zenon DEF CacheInv, CacheTypeOK, Fits
  <2> QED
    BY <2>1 DEF Located, Cached
<1> QED
  BY <1>1, CacheInitially, CacheStep, PTL DEF CacheSpec

\* QueryContent over a next resolver returns what was inserted last, through any number
\* of rotations, unless that was too large for the cache.
THEOREM ReadsLastCachedHolds == CacheSpec => []ReadsLastCached
<1>1. CacheInv => ReadsLastCached
  <2> SUFFICES ASSUME CacheInv, HasNext, NEW i \in Ids, last[i] = None \/ Fits(i)
               PROVE  QueryContent(i) = last[i]
    BY Zenon DEF ReadsLastCached, Fits
  <2>1. next[i] = last[i]
    BY Zenon DEF CacheInv
  <2>2. CASE last[i] = None
    BY <2>1, <2>2, Zenon DEF CacheInv, Blank, QueryContent, Cached
  <2>3. CASE Fits(i)
    <3>1. Located(i) /\ last[i] # None
      BY <2>3, Zenon DEF CacheInv, Fits
    <3> QED
      BY <2>1, <3>1, Zenon DEF Located, QueryContent, Cached
  <2> QED
    BY <2>2, <2>3, Zenon
<1> QED
  BY <1>1, CacheInitially, CacheStep, PTL DEF CacheSpec

-----------------------------------------------------------------------------
(* The bound on the bytes of each map.                                     *)

\* Bounded is not inductive: the bytes of the front are bounded by the counter that
\* decides on rotations, and the counter by Capacity.
SizeInv ==
  /\ CacheTypeOK /\ cacheFrontSize <= Capacity
  /\ IsFiniteSet(Bytes(cacheFront)) /\ Cardinality(Bytes(cacheFront)) <= cacheFrontSize
  /\ IsFiniteSet(Bytes(cacheBack)) /\ Cardinality(Bytes(cacheBack)) <= Capacity

\* A map grows by the bytes of a content at most, less if it replaces another.
LEMMA PutBytes ==
  ASSUME NEW map \in [Ids -> Content], IsFiniteSet(Bytes(map)), NEW i \in Ids, NEW v \in Values
  PROVE  /\ IsFiniteSet(Bytes(Put(map, i, v)))
         /\ Cardinality(Bytes(Put(map, i, v))) <= Cardinality(Bytes(map)) + Size[v]
<1> DEFINE more == {i} \X (1..Size[v])
<1>1. Size[v] \in Nat
  BY CacheConstants, Zenon
<1>2. IsFiniteSet(1..Size[v]) /\ Cardinality(1..Size[v]) = Size[v]
  <2>1. 1 \in Int /\ Size[v] \in Int
    BY <1>1
  <2>2. /\ IsFiniteSet(1..Size[v])
        /\ Cardinality(1..Size[v]) = IF 1 > Size[v] THEN 0 ELSE Size[v] - 1 + 1
    BY <2>1, FS_Interval, ZenonT(60)
  <2> QED
    BY <1>1, <2>2
<1>3. IsFiniteSet(more) /\ Cardinality(more) = Size[v]
  <2>1. IsFiniteSet({i}) /\ Cardinality({i}) = 1
    BY FS_Singleton, Zenon
  <2>2. IsFiniteSet(more) /\ Cardinality(more) = Cardinality({i}) * Cardinality(1..Size[v])
    BY <1>2, <2>1, FS_Product, ZenonT(60)
  <2> QED
    BY <1>1, <1>2, <2>1, <2>2
<1>4. Bytes(Put(map, i, v)) \in SUBSET (Bytes(map) \cup more)
  BY Zenon DEF Bytes, Put
<1>5. /\ IsFiniteSet(Bytes(map) \cup more)
      /\ Cardinality(Bytes(map) \cup more)
           = Cardinality(Bytes(map)) + Cardinality(more) - Cardinality(Bytes(map) \cap more)
  BY <1>3, FS_Union, Zenon
<1>6. /\ IsFiniteSet(Bytes(Put(map, i, v)))
      /\ Cardinality(Bytes(Put(map, i, v))) <= Cardinality(Bytes(map) \cup more)
  BY <1>4, <1>5, FS_Subset, Zenon
<1>7. Cardinality(Bytes(map) \cap more) \in Nat /\ Cardinality(Bytes(map)) \in Nat
  BY FS_Intersection, FS_CardinalityType, Zenon
<1>8. Cardinality(Bytes(Put(map, i, v))) \in Nat
  BY <1>6, FS_CardinalityType, Zenon
<1> HIDE DEF more
<1> QED
  BY <1>1, <1>3, <1>5, <1>6, <1>7, <1>8

\* Both ways to insert keep the bound: the front is rotated before it overflows.
LEMMA SizeStep ==
  ASSUME CacheInv, SizeInv, [CacheNext]_cacheVars
  PROVE  SizeInv'
<1>1. CacheTypeOK' /\ Capacity \in Nat /\ CacheTypeOK
  BY CacheStep, CacheConstants, Zenon DEF CacheInv
<1>2. ASSUME NEW i \in Ids, NEW v \in Values, InsertCached(i, v) PROVE SizeInv'
  <2> DEFINE old == IF Rotates(v) THEN Empty ELSE cacheFront
             size == IF Rotates(v) THEN 0 ELSE cacheFrontSize
  <2>1. /\ Size[v] \in Nat /\ Size[v] <= Capacity
        /\ cacheBack' = IF Rotates(v) THEN cacheFront ELSE cacheBack
        /\ cacheFrontSize' = size + Size[v] /\ cacheFront' = Put(old, i, v)
    BY <1>2, CacheConstants, Zenon DEF InsertCached
  <2>2. Bytes(Empty) = {}
    BY Zenon DEF Bytes, Empty
  <2>3. /\ old \in [Ids -> Content] /\ IsFiniteSet(Bytes(old)) /\ size \in Nat
        /\ Cardinality(Bytes(old)) <= size /\ size + Size[v] <= Capacity
    <3>1. CASE Rotates(v)
      <4>1. old = Empty /\ size = 0
        BY <3>1, Zenon
      <4>2. Empty \in [Ids -> Content]
        BY Zenon DEF Empty, Content
      <4>3. IsFiniteSet(Bytes(old)) /\ Cardinality(Bytes(old)) = 0
        BY <2>2, <4>1, FS_EmptySet, ZenonT(60)
      <4> QED
        BY <2>1, <4>1, <4>2, <4>3
    <3>2. CASE ~Rotates(v)
      <4>1. old = cacheFront /\ size = cacheFrontSize
        BY <3>2, Zenon
      <4>2. cacheFrontSize + Size[v] <= Capacity
        BY <1>1, <2>1, <3>2 DEF Rotates, CacheTypeOK
      <4> QED
        BY <4>1, <4>2, Zenon DEF SizeInv, CacheTypeOK
    <3> QED
      BY <3>1, <3>2, Zenon
  <2> HIDE DEF old, size
  <2>4. /\ IsFiniteSet(Bytes(cacheFront'))
        /\ Cardinality(Bytes(cacheFront')) <= Cardinality(Bytes(old)) + Size[v]
    BY <2>1, <2>3, PutBytes, Zenon
  <2>5. Cardinality(Bytes(old)) \in Nat /\ Cardinality(Bytes(cacheFront')) \in Nat
    BY <2>3, <2>4, FS_CardinalityType, Zenon
  <2>6. cacheFrontSize' <= Capacity /\ Cardinality(Bytes(cacheFront')) <= cacheFrontSize'
    BY <1>1, <2>1, <2>3, <2>4, <2>5
  <2>7. IsFiniteSet(Bytes(cacheBack')) /\ Cardinality(Bytes(cacheBack')) <= Capacity
    <3>1. Cardinality(Bytes(cacheFront)) \in Nat
      BY FS_CardinalityType, Zenon DEF SizeInv
    <3>2. Cardinality(Bytes(cacheFront)) <= Capacity
      BY <1>1, <3>1 DEF SizeInv, CacheTypeOK
    <3> QED
      BY <2>1, <3>2, Zenon DEF SizeInv
  <2>8. Bytes(cacheFront)' = Bytes(cacheFront') /\ Bytes(cacheBack)' = Bytes(cacheBack')
    BY Zenon DEF Bytes
  <2> QED
    BY <1>1, <2>4, <2>6, <2>7, <2>8, Zenon DEF SizeInv
<1>3. ASSUME NEW i \in Ids, NEW v \in Values, InsertTooLarge(i, v) PROVE SizeInv'
  BY <1>1, <1>3, Zenon DEF InsertTooLarge, SizeInv, Bytes
<1>4. CASE UNCHANGED cacheVars
  BY <1>1, <1>4, Zenon DEF cacheVars, SizeInv, Bytes
<1> QED
  BY <1>2, <1>3, <1>4, Zenon DEF CacheNext

\* InsertContent keeps each of the two maps within Capacity, for any contents and sizes,
\* although a content that is inserted again is counted again.
THEOREM BoundedHolds == CacheSpec => []Bounded
<1>1. CacheInit => SizeInv
  <2> SUFFICES ASSUME CacheInit PROVE SizeInv
    BY Zenon
  <2>1. CacheTypeOK
    BY CacheInitially, Zenon DEF CacheInv
  <2>2. Bytes(cacheFront) = {} /\ Bytes(cacheBack) = {} /\ cacheFrontSize = 0
    BY Zenon DEF CacheInit, Empty, Bytes
  <2> QED
    BY <2>1, <2>2, FS_EmptySet, CacheConstants DEF SizeInv
<1>2. SizeInv => Bounded
  <2> SUFFICES ASSUME SizeInv PROVE Bounded
    BY Zenon
  <2>1. Cardinality(Bytes(cacheFront)) \in Nat /\ Capacity \in Nat
    BY FS_CardinalityType, CacheConstants, Zenon DEF SizeInv
  <2> QED
    BY <2>1 DEF SizeInv, CacheTypeOK, Bounded
<1>3. CacheInv /\ SizeInv /\ [CacheNext]_cacheVars => CacheInv' /\ SizeInv'
  BY CacheStep, SizeStep, Zenon
<1> QED
  BY <1>1, <1>2, <1>3, CacheInitially, PTL DEF CacheSpec

-----------------------------------------------------------------------------
(* Expiries in the table.                                                  *)

Places == {"idle", "set", "handle", "delete", "forget"}
Address == Nonces \cup {NoAddr}

\* Types of the table's maps, of its lock and of the dials.
TypeOK ==
  /\ addrs \in [Peers -> Address] /\ expiry \in [Peers -> {"none", "young", "old"}]
  /\ mu \in Dialers \cup {NoDialer} /\ pc \in [Dialers -> Places]

\* A dial between two steps of AddExpiry or of HandleExpired holds the lock.
Locked == \A d \in Dialers : pc[d] \in {"set", "delete", "forget"} => mu = d

\* What AddExpiry has looked up is still so when it sets the expiry: only a dial that
\* holds the lock, or the application, deletes a peer.
LookedUp ==
  \A d \in Dialers : pc[d] = "set" => addrs[Target[d]] # NoAddr \/ Target[d] \in AppDeletes

ExpiryInv == TypeOK /\ Locked /\ LookedUp /\ ExpiryHasPeer

\* At first there are neither peers nor expiries.
LEMMA Initially == DiscoveryInit => ExpiryInv
BY Zenon DEF DiscoveryInit, TableInit, ExpiryInv, TypeOK, Address, Places, Locked, LookedUp, ExpiryHasPeer

\* Steps outside the table.
LEMMA QuietStep ==
  ASSUME ExpiryInv, UNCHANGED <<addrs, expiry, mu, pc>>
  PROVE  ExpiryInv'
BY Zenon DEF ExpiryInv, TypeOK, Locked, LookedUp, ExpiryHasPeer

\* A peer is added, or gets another address, at any time.
LEMMA AddPeerStep ==
  ASSUME ExpiryInv, NEW p, NEW a \in Nonces, AddPeer(p, a)
  PROVE  ExpiryInv'
<1>1. a # NoAddr /\ Target \in [Dialers -> Peers]
  BY TableConstants, Zenon
<1>2. expiry' = expiry /\ mu' = mu /\ pc' = pc
  BY Zenon DEF AddPeer
<1>3. addrs' = addrs \/ addrs' = [addrs EXCEPT ![p] = a]
  BY Zenon DEF AddPeer
<1>4. addrs' \in [Peers -> Address]
  BY <1>3, Zenon DEF ExpiryInv, TypeOK, Address
<1>5. \A q \in Peers : addrs[q] # NoAddr => addrs'[q] # NoAddr
  BY <1>1, <1>3, Zenon DEF ExpiryInv, TypeOK
<1>6. TypeOK' /\ Locked'
  BY <1>2, <1>4, Zenon DEF ExpiryInv, TypeOK, Locked
<1>7. LookedUp'
  BY <1>1, <1>2, <1>5, Zenon DEF ExpiryInv, LookedUp
<1>8. ExpiryHasPeer'
  BY <1>2, <1>5, Zenon DEF ExpiryInv, ExpiryHasPeer
<1> QED
  BY <1>6, <1>7, <1>8, Zenon DEF ExpiryInv

\* The application deletes a peer of its own, which the invariant leaves out.
LEMMA AppDeleteStep ==
  ASSUME ExpiryInv, NEW p \in AppDeletes, DeletePeer(p)
  PROVE  ExpiryInv'
<1>1. /\ addrs' = [addrs EXCEPT ![p] = NoAddr]
      /\ expiry' = expiry /\ mu' = mu /\ pc' = pc
  BY Zenon DEF DeletePeer, RemovePeer
<1>2. Target \in [Dialers -> Peers]
  BY TableConstants, Zenon
<1>3. \A q \in Peers \ AppDeletes : addrs'[q] = addrs[q]
  BY <1>1, Zenon DEF ExpiryInv, TypeOK
<1>4. TypeOK' /\ Locked'
  BY <1>1, ZenonT(60) DEF ExpiryInv, TypeOK, Locked, Address
<1>5. LookedUp'
  BY <1>1, <1>2, <1>3, Zenon DEF ExpiryInv, LookedUp
<1>6. ExpiryHasPeer'
  BY <1>1, <1>3, Zenon DEF ExpiryInv, ExpiryHasPeer
<1> QED
  BY <1>4, <1>5, <1>6, Zenon DEF ExpiryInv

\* The steps of a dial in AddExpiry, HandleExpired and DeleteExpiry.
LEMMA DialingStep ==
  ASSUME ExpiryInv, NEW d \in Dialers, Dialing(d)
  PROVE  ExpiryInv'
<1>1. TypeOK /\ Locked /\ LookedUp /\ ExpiryHasPeer
  BY Zenon DEF ExpiryInv
<1>2. Target[d] \in Peers /\ NoDialer \notin Dialers /\ Target \in [Dialers -> Peers]
  BY TableConstants, Zenon
<1>3. CASE AddExpiry(d)
  <2>1. /\ pc[d] = "idle" /\ mu = NoDialer /\ addrs' = addrs /\ expiry' = expiry
        /\ \/ pc' = [pc EXCEPT ![d] = "set"] /\ mu' = d /\ addrs[Target[d]] # NoAddr
           \/ pc' = [pc EXCEPT ![d] = "handle"] /\ mu' = mu
    BY <1>3, Zenon DEF AddExpiry
  <2>2. TypeOK' /\ Locked'
    BY <1>1, <1>2, <2>1, Zenon DEF TypeOK, Places, Locked
  <2>3. LookedUp'
    BY <1>1, <2>1, Zenon DEF TypeOK, LookedUp
  <2>4. ExpiryHasPeer'
    BY <1>1, <2>1 DEF TypeOK, ExpiryHasPeer
  <2> QED
    BY <2>2, <2>3, <2>4, Zenon DEF ExpiryInv
<1>4. CASE AddExpirySet(d)
  <2>1. /\ pc[d] = "set" /\ expiry' = [expiry EXCEPT ![Target[d]] = "young"]
        /\ pc' = [pc EXCEPT ![d] = "handle"] /\ mu' = NoDialer /\ addrs' = addrs
    BY <1>4, Zenon DEF AddExpirySet
  <2>2. mu = d /\ (addrs[Target[d]] # NoAddr \/ Target[d] \in AppDeletes)
    BY <1>1, <2>1, Zenon DEF Locked, LookedUp
  <2>3. \A e \in Dialers \ {d} : pc[e] \notin {"set", "delete", "forget"}
    BY <1>1, <2>2, Zenon DEF Locked
  <2>4. TypeOK' /\ Locked' /\ LookedUp'
    BY <1>1, <1>2, <2>1, <2>3, Zenon DEF TypeOK, Places, Locked, LookedUp
  <2>5. ExpiryHasPeer'
    BY <1>1, <1>2, <2>1, <2>2, Zenon DEF TypeOK, ExpiryHasPeer
  <2> QED
    BY <2>4, <2>5, Zenon DEF ExpiryInv
<1>5. CASE DeleteExpiry(d)
  <2>1. /\ expiry' = [expiry EXCEPT ![Target[d]] = "none"]
        /\ addrs' = addrs /\ mu' = mu /\ pc' = pc
    BY <1>5, Zenon DEF DeleteExpiry
  <2> QED
    BY <1>1, <1>2, <2>1, Zenon DEF ExpiryInv, TypeOK, Locked, LookedUp, ExpiryHasPeer
<1>6. CASE HandleExpired(d)
  <2>1. /\ pc[d] = "handle" /\ mu = NoDialer /\ addrs' = addrs /\ expiry' = expiry
        /\ \/ pc' = [pc EXCEPT ![d] = "delete"] /\ mu' = d
           \/ pc' = [pc EXCEPT ![d] = "idle"] /\ mu' = mu
    BY <1>6, Zenon DEF HandleExpired
  <2>2. TypeOK' /\ Locked'
    BY <1>1, <1>2, <2>1, Zenon DEF TypeOK, Places, Locked
  <2>3. LookedUp'
    BY <1>1, <2>1, Zenon DEF TypeOK, LookedUp
  <2>4. ExpiryHasPeer'
    BY <1>1, <2>1 DEF TypeOK, ExpiryHasPeer
  <2> QED
    BY <2>2, <2>3, <2>4, Zenon DEF ExpiryInv
<1>7. CASE HandleExpiredDelete(d)
  <2>1. /\ pc[d] = "delete" /\ addrs' = [addrs EXCEPT ![Target[d]] = NoAddr]
        /\ pc' = [pc EXCEPT ![d] = "forget"] /\ expiry' = expiry /\ mu' = mu
    BY <1>7, Zenon DEF HandleExpiredDelete, RemovePeer
  <2>2. \A e \in Dialers \ {d} : pc[e] \notin {"set", "delete", "forget"}
    BY <1>1, <2>1, Zenon DEF Locked
  <2>3. TypeOK' /\ Locked' /\ LookedUp'
    BY <1>1, <1>2, <2>1, <2>2, Zenon DEF TypeOK, Places, Address, Locked, LookedUp
  <2>4. ExpiryHasPeer'
    <3> SUFFICES ASSUME NEW p \in Peers \ AppDeletes, expiry'[p] # "none"
                 PROVE  addrs'[p] # NoAddr
                        \/ \E e \in Dialers : pc'[e] = "forget" /\ Target[e] = p
      BY Zenon DEF ExpiryHasPeer
    <3>1. CASE p = Target[d]
      BY <1>1, <2>1, <3>1, Zenon DEF TypeOK
    <3>2. CASE p # Target[d]
      BY <1>1, <2>1, <2>2, <3>2, Zenon DEF TypeOK, ExpiryHasPeer
    <3> QED
      BY <3>1, <3>2, Zenon
  <2> QED
    BY <2>3, <2>4, Zenon DEF ExpiryInv
<1>8. CASE HandleExpiredForget(d)
  <2>1. /\ pc[d] = "forget" /\ expiry' = [expiry EXCEPT ![Target[d]] = "none"]
        /\ pc' = [pc EXCEPT ![d] = "idle"] /\ mu' = NoDialer /\ addrs' = addrs
    BY <1>8, Zenon DEF HandleExpiredForget
  <2>2. \A e \in Dialers \ {d} : pc[e] \notin {"set", "delete", "forget"}
    BY <1>1, <2>1, Zenon DEF Locked
  <2>3. TypeOK' /\ Locked' /\ LookedUp'
    BY <1>1, <1>2, <2>1, <2>2, Zenon DEF TypeOK, Places, Locked, LookedUp
  <2>4. ExpiryHasPeer'
    BY <1>1, <1>2, <2>1, <2>2, Zenon DEF TypeOK, ExpiryHasPeer
  <2> QED
    BY <2>3, <2>4, Zenon DEF ExpiryInv
<1> QED
  BY <1>3, <1>4, <1>5, <1>6, <1>7, <1>8, Zenon DEF Dialing

\* An expiry gets older.
LEMMA AgeStep ==
  ASSUME ExpiryInv, NEW p \in Peers, Age(p)
  PROVE  ExpiryInv'
<1>1. /\ expiry[p] = "young" /\ expiry' = [expiry EXCEPT ![p] = "old"]
      /\ addrs' = addrs /\ mu' = mu /\ pc' = pc
  BY Zenon DEF Age
<1> QED
  BY <1>1, Zenon DEF ExpiryInv, TypeOK, Locked, LookedUp, ExpiryHasPeer

\* Every step keeps the invariant.
LEMMA Step == ExpiryInv /\ [DiscoveryNext]_dvars => ExpiryInv'
<1> SUFFICES ASSUME ExpiryInv, [DiscoveryNext]_dvars PROVE ExpiryInv'
  BY Zenon
<1>1. CASE DiscoverPeers \/ Cancel
  BY <1>1, QuietStep, Zenon DEF DiscoverPeers, Ping, Tick, Return, Cancel, tableVars
<1>2. CASE Receiving
  <2>1. ASSUME NEW m \in inbox, ReceiveBad(m) \/ didReceivePingAck(m) PROVE ExpiryInv'
    BY <2>1, QuietStep, Zenon DEF ReceiveBad, didReceivePingAck, tableVars
  <2>2. ASSUME NEW m \in inbox, didReceivePing(m) PROVE ExpiryInv'
    BY <2>2, AddPeerStep, Zenon DEF didReceivePing
  <2>3. CASE AckList \/ AckAddress \/ AckLookup \/ AckSend \/ AddDone
    BY <2>3, QuietStep, Zenon DEF AckList, AckAddress, AckLookup, AckSend, AddDone, tableVars
  <2>4. CASE AddListed
    BY <2>4, AddPeerStep, Zenon DEF AddListed
  <2> QED
    BY <1>2, <2>1, <2>2, <2>3, <2>4, Zenon DEF Receiving
<1>3. CASE TableStep
  BY <1>3, DialingStep, AgeStep, Zenon DEF TableStep
<1>4. ASSUME NEW p \in Peers, AddBootstrap(p) PROVE ExpiryInv'
  BY <1>4, AddPeerStep, Zenon DEF AddBootstrap
<1>5. ASSUME NEW p \in Peers, AppDelete(p) PROVE ExpiryInv'
  BY <1>5, AppDeleteStep, Zenon DEF AppDelete
<1>6. ASSUME NEW p \in Peers, RemotePing(p) \/ Vanish(p) PROVE ExpiryInv'
  BY <1>6, QuietStep, Zenon DEF RemotePing, Vanish, tableVars
<1>7. CASE UNCHANGED dvars
  BY <1>7, QuietStep, Zenon DEF dvars, tableVars
<1> QED
  BY <1>1, <1>2, <1>3, <1>4, <1>5, <1>6, <1>7, Zenon DEF DiscoveryNext

\* The lock of the expiries is held by one dial at most, and maps have their types.
THEOREM TypeCorrect == DiscoverySpec => [](TypeOK /\ Locked)
<1>1. ExpiryInv => TypeOK /\ Locked
  BY Zenon DEF ExpiryInv
<1> QED
  BY <1>1, Initially, Step, PTL DEF DiscoverySpec

\* AddExpiry and HandleExpired, which call into the rest of the table between their own
\* steps, leave no expiry of a peer that is not in the table, whatever discovery adds and
\* other dials delete in between.
THEOREM ExpiryHasPeerHolds == DiscoverySpec => []ExpiryHasPeer
<1>1. ExpiryInv => ExpiryHasPeer
  BY Zenon DEF ExpiryInv
<1> QED
  BY <1>1, Initially, Step, PTL DEF DiscoverySpec

-----------------------------------------------------------------------------
(* The sorted list of the table.                                           *)

\* A set of natural numbers has a least element: induction in the form that the provers
\* can use, since it speaks of a set and not of a predicate.
LEMMA LeastNatural ==
  ASSUME NEW T \in SUBSET Nat, T # {}
  PROVE  \E n \in T : \A m \in T : n <= m
<1> DEFINE Below == {0..n : n \in T}
<1>1. Below \subseteq FiniteSubsetsOf(Nat) /\ Below # {}
  <2>1. ASSUME NEW n \in T PROVE 0..n \in SUBSET Nat /\ IsFiniteSet(0..n)
    <3>1. 0 \in Int /\ n \in Int
      OBVIOUS
    <3>2. IsFiniteSet(0..n)
      BY <3>1, FS_Interval, ZenonT(60)
    <3> QED
      BY <3>2
  <2> QED
    BY <2>1, Zenon DEF FiniteSubsetsOf
<1>2. PICK x \in Below : \A y \in Below : ~(<<y, x>> \in StrictSubsetOrdering(Nat))
  BY <1>1, FS_StrictSubsetOrderingWellFounded, WFMin, Zenon
<1>3. PICK n \in T : x = 0..n
  BY Zenon
<1>4. ASSUME NEW m \in T, m < n PROVE FALSE
  <2>1. /\ 0..m \in Below /\ 0..m \in SUBSET Nat /\ 0..n \in SUBSET Nat
        /\ 0..m \subseteq 0..n /\ n \notin 0..m /\ n \in 0..n
    BY <1>4
  <2>2. <<0..m, 0..n>> \in StrictSubsetOrdering(Nat)
    BY <2>1, Zenon DEF StrictSubsetOrdering
  <2> QED
    BY <1>2, <1>3, <2>1, <2>2, Zenon
<1> QED
  BY <1>4

\* ClosestPeers needs that the list is complete, for as long as no absent peer is deleted.
Complete == ~absent => Known \subseteq Range(sorted)

ListInv ==
  sorted \in Seq(Peers) /\ addrs \in [Peers -> Address] /\ ListedHaveAddress /\ Complete

\* The peers that discovery passes to the table are signatories.
QueueInv ==
  /\ inbox \subseteq {"Ping", "PingAck"} \X Peers
  /\ round \in Seq(Peers) /\ todo \in Seq(Peers \cup {Self})

Ordered(s) == \A i, j \in 1..Len(s) : i < j => Dist[s[i]] < Dist[s[j]]

\* sort.Search finds the place: what precedes it is not farther than p, the rest is.
LEMMA SearchFinds ==
  ASSUME sorted \in Seq(Peers), Ordered(sorted), NEW p \in Peers
  PROVE  /\ Search(p) \in 1..(Len(sorted) + 1)
         /\ \A j \in 1..(Search(p) - 1) : Dist[sorted[j]] <= Dist[p]
         /\ \A j \in Search(p)..Len(sorted) : Dist[p] < Dist[sorted[j]]
<1>1. /\ Len(sorted) \in Nat /\ Dist \in [Peers -> Nat]
      /\ \A i \in 1..Len(sorted) : sorted[i] \in Peers
  BY TableConstants
<1> DEFINE P(i) == /\ i <= Len(sorted) => isCloser(p, sorted[i])
                   /\ \A j \in 1..(i - 1) : ~isCloser(p, sorted[j])
           T == {i \in 1..(Len(sorted) + 1) : i <= Len(sorted) => isCloser(p, sorted[i])}
<1>2. \E i \in 1..(Len(sorted) + 1) : P(i)
  <2>1. Len(sorted) + 1 \in T /\ T \in SUBSET Nat
    BY <1>1
  <2>2. PICK i \in T : \A j \in T : i <= j
    BY <2>1, LeastNatural, Zenon
  <2>3. \A j \in 1..(i - 1) : j \notin T /\ j \in 1..(Len(sorted) + 1)
    BY <1>1, <2>2
  <2> QED
    BY <2>2, <2>3, Zenon
<1>3. Search(p) \in 1..(Len(sorted) + 1) /\ P(Search(p))
  BY <1>2, Zenon DEF Search
<1>4. ASSUME NEW j \in Search(p)..Len(sorted) PROVE Dist[p] < Dist[sorted[j]]
  <2>1. Search(p) <= Len(sorted) /\ Search(p) \in 1..Len(sorted) /\ j \in 1..Len(sorted)
    BY <1>1, <1>3
  <2>2. Dist[p] < Dist[sorted[Search(p)]]
    BY <1>3, <2>1, Zenon DEF isCloser
  <2>3. Dist[p] \in Nat /\ Dist[sorted[j]] \in Nat /\ Dist[sorted[Search(p)]] \in Nat
    BY <1>1, <2>1, Zenon
  <2>4. Search(p) = j \/ Dist[sorted[Search(p)]] < Dist[sorted[j]]
    BY <1>3, <2>1 DEF Ordered
  <2> QED
    BY <2>2, <2>3, <2>4
<1>5. ASSUME NEW j \in 1..(Search(p) - 1) PROVE Dist[sorted[j]] <= Dist[p]
  <2>1. j \in 1..Len(sorted) /\ ~(Dist[p] < Dist[sorted[j]])
    BY <1>1, <1>3 DEF isCloser
  <2> QED
    BY <1>1, <2>1
<1> QED
  BY <1>3, <1>4, <1>5, Zenon

\* What a part of the list is, place by place.
LEMMA PartPlaces ==
  ASSUME NEW S, NEW s \in Seq(S), NEW m \in 1..(Len(s) + 1), NEW n \in (m - 1)..Len(s)
  PROVE  /\ SubSeq(s, m, n) \in Seq(S) /\ Len(SubSeq(s, m, n)) = n - m + 1
         /\ \A i \in 1..(n - m + 1) : SubSeq(s, m, n)[i] = s[m + i - 1]
<1>1. Len(s) \in Nat /\ \A i \in 1..Len(s) : s[i] \in S
  OBVIOUS
<1>2. SubSeq(s, m, n) = [i \in 1..(n - m + 1) |-> s[m + i - 1]]
  BY <1>1
<1>3. n - m + 1 \in Nat /\ \A i \in 1..(n - m + 1) : m + i - 1 \in 1..Len(s)
  BY <1>1
<1> QED
  BY <1>1, <1>2, <1>3

\* What two lists make, place by place.
LEMMA JoinedPlaces ==
  ASSUME NEW a \in Seq(Peers), NEW b \in Seq(Peers)
  PROVE  /\ a \o b \in Seq(Peers) /\ Len(a \o b) = Len(a) + Len(b)
         /\ \A i \in 1..(Len(a) + Len(b)) :
              (a \o b)[i] = IF i <= Len(a) THEN a[i] ELSE b[i - Len(a)]
OBVIOUS

\* What With is, place by place.
LEMMA WithPlaces ==
  ASSUME NEW s \in Seq(Peers), NEW k \in 1..(Len(s) + 1), NEW p \in Peers
  PROVE  /\ With(s, k, p) \in Seq(Peers) /\ Len(With(s, k, p)) = Len(s) + 1
         /\ \A i \in 1..(Len(s) + 1) :
              With(s, k, p)[i] = IF i < k THEN s[i] ELSE IF i = k THEN p ELSE s[i - 1]
<1> DEFINE a == SubSeq(s, 1, k - 1)
           b == SubSeq(s, k, Len(s))
           c == a \o <<p>>
<1>1. Len(s) \in Nat /\ k - 1 \in (1 - 1)..Len(s) /\ Len(s) \in (k - 1)..Len(s) /\ 1 \in 1..(Len(s) + 1)
  OBVIOUS
<1>2. a \in Seq(Peers) /\ Len(a) = k - 1 /\ \A i \in 1..(k - 1) : a[i] = s[i]
  <2>1. /\ a \in Seq(Peers) /\ Len(a) = k - 1 - 1 + 1
        /\ \A i \in 1..(k - 1 - 1 + 1) : a[i] = s[1 + i - 1]
    BY <1>1, PartPlaces, ZenonT(60)
  <2> QED
    BY <1>1, <2>1
<1>3. /\ b \in Seq(Peers) /\ Len(b) = Len(s) - k + 1
      /\ \A i \in 1..(Len(s) - k + 1) : b[i] = s[k + i - 1]
  BY <1>1, PartPlaces, ZenonT(60)
<1>4. With(s, k, p) = c \o b
  BY Zenon DEF With
<1> HIDE DEF a, b
<1>5. /\ c \in Seq(Peers) /\ Len(c) = k /\ c[k] = p
      /\ \A i \in 1..(k - 1) : c[i] = s[i]
  <2>1. c \in Seq(Peers) /\ Len(c) = k
    BY <1>2
  <2>2. c[k] = p
    BY <1>2
  <2>3. \A i \in 1..(k - 1) : c[i] = a[i]
    BY <1>2
  <2> QED
    BY <1>2, <2>1, <2>2, <2>3, Zenon
<1> HIDE DEF c
<1>6. /\ c \o b \in Seq(Peers) /\ Len(c \o b) = Len(s) + 1
      /\ \A i \in 1..(Len(s) + 1) : (c \o b)[i] = IF i <= k THEN c[i] ELSE b[i - k]
  <2>1. /\ c \o b \in Seq(Peers) /\ Len(c \o b) = Len(c) + Len(b)
        /\ \A i \in 1..(Len(c) + Len(b)) :
             (c \o b)[i] = IF i <= Len(c) THEN c[i] ELSE b[i - Len(c)]
    BY <1>3, <1>5, JoinedPlaces, ZenonT(60)
  <2>2. Len(c) = k /\ Len(c) + Len(b) = Len(s) + 1
    BY <1>1, <1>3, <1>5
  <2> QED
    BY <2>1, <2>2, Zenon
<1>7. ASSUME NEW i \in 1..(Len(s) + 1)
      PROVE  (c \o b)[i] = IF i < k THEN s[i] ELSE IF i = k THEN p ELSE s[i - 1]
  <2>1. CASE i <= k
    <3>1. (c \o b)[i] = c[i]
      BY <1>6, <2>1, Zenon
    <3>2. i = k \/ i \in 1..(k - 1)
      BY <1>1, <2>1
    <3> QED
      BY <1>1, <1>5, <3>1, <3>2
  <2>2. CASE ~(i <= k)
    <3>1. (c \o b)[i] = b[i - k]
      BY <1>6, <2>2, Zenon
    <3>2. i - k \in 1..(Len(s) - k + 1) /\ k + (i - k) - 1 = i - 1 /\ ~(i < k) /\ i # k
      BY <1>1, <2>2
    <3>3. b[i - k] = s[k + (i - k) - 1]
      BY <1>3, <3>2, Zenon
    <3> QED
      BY <3>1, <3>2, <3>3, Zenon
  <2> QED
    BY <2>1, <2>2, Zenon
<1> QED
  BY <1>4, <1>6, <1>7, Zenon

\* What Without is, place by place.
LEMMA WithoutPlaces ==
  ASSUME NEW s \in Seq(Peers), NEW k \in 1..Len(s)
  PROVE  /\ Without(s, k) \in Seq(Peers) /\ Len(Without(s, k)) = Len(s) - 1
         /\ \A i \in 1..(Len(s) - 1) : Without(s, k)[i] = IF i < k THEN s[i] ELSE s[i + 1]
<1> DEFINE a == SubSeq(s, 1, k - 1)
           b == SubSeq(s, k + 1, Len(s))
<1>1. /\ Len(s) \in Nat /\ k - 1 \in (1 - 1)..Len(s) /\ k + 1 \in 1..(Len(s) + 1)
      /\ Len(s) \in ((k + 1) - 1)..Len(s) /\ 1 \in 1..(Len(s) + 1)
  OBVIOUS
<1>2. a \in Seq(Peers) /\ Len(a) = k - 1 /\ \A i \in 1..(k - 1) : a[i] = s[i]
  <2>1. /\ a \in Seq(Peers) /\ Len(a) = k - 1 - 1 + 1
        /\ \A i \in 1..(k - 1 - 1 + 1) : a[i] = s[1 + i - 1]
    BY <1>1, PartPlaces, ZenonT(60)
  <2> QED
    BY <1>1, <2>1
<1>3. b \in Seq(Peers) /\ Len(b) = Len(s) - k /\ \A i \in 1..(Len(s) - k) : b[i] = s[k + i]
  <2>1. /\ b \in Seq(Peers) /\ Len(b) = Len(s) - (k + 1) + 1
        /\ \A i \in 1..(Len(s) - (k + 1) + 1) : b[i] = s[(k + 1) + i - 1]
    BY <1>1, PartPlaces, ZenonT(60)
  <2> QED
    BY <1>1, <2>1
<1>4. Without(s, k) = a \o b
  BY Zenon DEF Without
<1> HIDE DEF a, b
<1>5. /\ a \o b \in Seq(Peers) /\ Len(a \o b) = Len(s) - 1
      /\ \A i \in 1..(Len(s) - 1) : (a \o b)[i] = IF i <= k - 1 THEN a[i] ELSE b[i - (k - 1)]
  <2>1. /\ a \o b \in Seq(Peers) /\ Len(a \o b) = Len(a) + Len(b)
        /\ \A i \in 1..(Len(a) + Len(b)) :
             (a \o b)[i] = IF i <= Len(a) THEN a[i] ELSE b[i - Len(a)]
    BY <1>2, <1>3, JoinedPlaces, ZenonT(60)
  <2>2. Len(a) = k - 1 /\ Len(a) + Len(b) = Len(s) - 1
    BY <1>1, <1>2, <1>3
  <2> QED
    BY <2>1, <2>2, Zenon
<1>6. ASSUME NEW i \in 1..(Len(s) - 1) PROVE (a \o b)[i] = IF i < k THEN s[i] ELSE s[i + 1]
  <2>1. CASE i <= k - 1
    <3>1. (a \o b)[i] = a[i]
      BY <1>5, <2>1, Zenon
    <3>2. i \in 1..(k - 1) /\ i < k
      BY <1>1, <2>1
    <3> QED
      BY <1>2, <3>1, <3>2, Zenon
  <2>2. CASE ~(i <= k - 1)
    <3>1. (a \o b)[i] = b[i - (k - 1)]
      BY <1>5, <2>2
    <3>2. i - (k - 1) \in 1..(Len(s) - k) /\ k + (i - (k - 1)) = i + 1 /\ ~(i < k)
      BY <1>1, <2>2
    <3>3. b[i - (k - 1)] = s[k + (i - (k - 1))]
      BY <1>3, <3>2, Zenon
    <3> QED
      BY <3>1, <3>2, <3>3, Zenon
  <2> QED
    BY <2>1, <2>2, Zenon
<1> QED
  BY <1>4, <1>5, <1>6, Zenon
\* Inserting a peer at its place adds it to the list and keeps the order.
LEMMA WithOrdered ==
  ASSUME NEW s \in Seq(Peers), NEW k \in 1..(Len(s) + 1), NEW p \in Peers, Ordered(s),
         \A j \in 1..(k - 1) : Dist[s[j]] < Dist[p],
         \A j \in k..Len(s) : Dist[p] < Dist[s[j]]
  PROVE  Ordered(With(s, k, p)) /\ Range(With(s, k, p)) = Range(s) \cup {p}
<1>1. /\ Len(s) \in Nat /\ k \in Nat /\ Dist \in [Peers -> Nat]
      /\ DOMAIN s = 1..Len(s) /\ \A i \in 1..Len(s) : s[i] \in Peers
  BY TableConstants
<1> DEFINE t == With(s, k, p)
<1>2. /\ t \in Seq(Peers) /\ Len(t) = Len(s) + 1 /\ DOMAIN t = 1..(Len(s) + 1)
      /\ \A i \in 1..(Len(s) + 1) : t[i] = IF i < k THEN s[i] ELSE IF i = k THEN p ELSE s[i - 1]
  BY WithPlaces
<1> HIDE DEF t
<1>3. /\ \A i \in 1..(k - 1) : i \in 1..(Len(s) + 1) /\ i \in 1..Len(s) /\ t[i] = s[i]
      /\ k \in 1..(Len(s) + 1) /\ t[k] = p
      /\ \A i \in (k + 1)..(Len(s) + 1) : i - 1 \in k..Len(s) /\ i - 1 \in 1..Len(s) /\ t[i] = s[i - 1]
  BY <1>1, <1>2
<1>4. Ordered(t)
  <2> SUFFICES ASSUME NEW i \in 1..(Len(s) + 1), NEW j \in 1..(Len(s) + 1), i < j
               PROVE  Dist[t[i]] < Dist[t[j]]
    BY <1>2, Zenon DEF Ordered
  <2>1. CASE j < k
    BY <1>1, <1>3, <2>1 DEF Ordered
  <2>2. CASE j = k
    BY <1>1, <1>3, <2>2
  <2>3. CASE j > k /\ i = k
    BY <1>1, <1>3, <2>3
  <2>4. CASE j > k /\ i > k
    <3>1. /\ i - 1 \in 1..Len(s) /\ j - 1 \in 1..Len(s) /\ i - 1 < j - 1
          /\ t[i] = s[i - 1] /\ t[j] = s[j - 1]
      BY <1>1, <1>3, <2>4
    <3> QED
      BY <3>1, Zenon DEF Ordered
  <2>5. CASE j > k /\ i < k
    <3>1. /\ i \in 1..(k - 1) /\ j - 1 \in 1..Len(s) /\ i \in 1..Len(s) /\ i < j - 1
          /\ t[i] = s[i] /\ t[j] = s[j - 1]
      BY <1>1, <1>3, <2>5
    <3> QED
      BY <3>1, Zenon DEF Ordered
  <2> QED
    BY <1>1, <2>1, <2>2, <2>3, <2>4, <2>5
<1>5. ASSUME NEW i \in 1..(Len(s) + 1) PROVE t[i] \in Range(s) \cup {p}
  <2>1. i \in 1..(k - 1) \/ i = k \/ i \in (k + 1)..(Len(s) + 1)
    BY <1>1
  <2> QED
    BY <1>1, <1>3, <2>1, Zenon DEF Range
<1>6. ASSUME NEW i \in 1..Len(s) PROVE s[i] \in Range(t)
  <2>1. CASE i < k
    <3>1. i \in DOMAIN t /\ t[i] = s[i]
      BY <1>1, <1>2, <1>3, <2>1
    <3> QED
      BY <3>1, Zenon DEF Range
  <2>2. CASE ~(i < k)
    <3>1. i + 1 \in (k + 1)..(Len(s) + 1) /\ (i + 1) - 1 = i /\ i + 1 \in 1..(Len(s) + 1)
      BY <1>1, <2>2
    <3>2. t[i + 1] = s[i]
      BY <1>3, <3>1, Zenon
    <3> QED
      BY <1>2, <3>1, <3>2, Zenon DEF Range
  <2> QED
    BY <2>1, <2>2, Zenon
<1>7. p \in Range(t)
  BY <1>2, <1>3, Zenon DEF Range
<1>8. Range(t) = Range(s) \cup {p}
  BY <1>1, <1>2, <1>5, <1>6, <1>7 DEF Range
<1> QED
  BY <1>4, <1>8, Zenon DEF t

\* Removing a place of the list removes its peer, and keeps the order.
LEMMA WithoutOrdered ==
  ASSUME NEW s \in Seq(Peers), NEW k \in 1..Len(s), Ordered(s)
  PROVE  Ordered(Without(s, k)) /\ Range(Without(s, k)) = Range(s) \ {s[k]}
<1>1. /\ Len(s) \in Nat /\ k \in Nat /\ Dist \in [Peers -> Nat]
      /\ DOMAIN s = 1..Len(s) /\ \A i \in 1..Len(s) : s[i] \in Peers
  BY TableConstants
<1> DEFINE t == Without(s, k)
<1>2. /\ t \in Seq(Peers) /\ Len(t) = Len(s) - 1 /\ DOMAIN t = 1..(Len(s) - 1)
      /\ \A i \in 1..(Len(s) - 1) : t[i] = IF i < k THEN s[i] ELSE s[i + 1]
  BY WithoutPlaces
<1> HIDE DEF t
<1>3. /\ \A i \in 1..(k - 1) : i \in 1..(Len(s) - 1) /\ i \in 1..Len(s) /\ t[i] = s[i]
      /\ \A i \in k..(Len(s) - 1) : i \in 1..(Len(s) - 1) /\ i + 1 \in 1..Len(s) /\ t[i] = s[i + 1]
  <2>1. ASSUME NEW i \in 1..(k - 1) PROVE i \in 1..(Len(s) - 1) /\ i \in 1..Len(s) /\ t[i] = s[i]
    <3>1. i \in 1..(Len(s) - 1) /\ i \in 1..Len(s) /\ i < k
      OBVIOUS
    <3> QED
      BY <1>2, <3>1, Zenon
  <2>2. ASSUME NEW i \in k..(Len(s) - 1)
        PROVE  i \in 1..(Len(s) - 1) /\ i + 1 \in 1..Len(s) /\ t[i] = s[i + 1]
    <3>1. i \in 1..(Len(s) - 1) /\ i + 1 \in 1..Len(s) /\ ~(i < k)
      OBVIOUS
    <3> QED
      BY <1>2, <3>1, Zenon
  <2> QED
    BY <2>1, <2>2, Zenon
<1>4. Ordered(t)
  <2> SUFFICES ASSUME NEW i \in 1..(Len(s) - 1), NEW j \in 1..(Len(s) - 1), i < j
               PROVE  Dist[t[i]] < Dist[t[j]]
    BY <1>2, Zenon DEF Ordered
  <2>1. CASE j < k
    <3>1. i \in 1..Len(s) /\ j \in 1..Len(s) /\ i \in 1..(k - 1) /\ j \in 1..(k - 1)
      BY <1>1, <2>1
    <3> QED
      BY <1>3, <3>1, Zenon DEF Ordered
  <2>2. CASE ~(j < k) /\ i < k
    <3>1. i \in 1..Len(s) /\ j + 1 \in 1..Len(s) /\ i < j + 1 /\ t[i] = s[i] /\ t[j] = s[j + 1]
      BY <1>1, <1>3, <2>2
    <3> QED
      BY <3>1, Zenon DEF Ordered
  <2>3. CASE ~(i < k)
    <3>1. /\ i + 1 \in 1..Len(s) /\ j + 1 \in 1..Len(s) /\ i + 1 < j + 1
          /\ t[i] = s[i + 1] /\ t[j] = s[j + 1]
      BY <1>1, <1>3, <2>3
    <3> QED
      BY <3>1, Zenon DEF Ordered
  <2> QED
    BY <1>1, <2>1, <2>2, <2>3, Zenon
<1>5. ASSUME NEW i \in 1..Len(s), i # k PROVE s[i] # s[k]
  <2>1. Dist[s[i]] < Dist[s[k]] \/ Dist[s[k]] < Dist[s[i]]
    BY <1>1, <1>5 DEF Ordered
  <2> QED
    BY <1>1, <2>1
<1>6. ASSUME NEW i \in 1..(Len(s) - 1) PROVE t[i] \in Range(s) \ {s[k]}
  <2>1. CASE i < k
    BY <1>1, <1>3, <1>5, <2>1 DEF Range
  <2>2. CASE ~(i < k)
    <3>1. i + 1 \in 1..Len(s) /\ i + 1 # k /\ t[i] = s[i + 1]
      BY <1>1, <1>3, <2>2
    <3> QED
      BY <1>1, <1>5, <3>1, Zenon DEF Range
  <2> QED
    BY <2>1, <2>2, Zenon
<1>7. ASSUME NEW i \in 1..Len(s), i # k PROVE s[i] \in Range(t)
  <2>1. CASE i < k
    <3>1. i \in DOMAIN t /\ t[i] = s[i]
      BY <1>1, <1>2, <1>3, <2>1
    <3> QED
      BY <3>1, Zenon DEF Range
  <2>2. CASE ~(i < k)
    <3>1. i - 1 \in k..(Len(s) - 1) /\ (i - 1) + 1 = i /\ i - 1 \in 1..(Len(s) - 1)
      BY <1>1, <1>7, <2>2
    <3>2. t[i - 1] = s[i]
      BY <1>3, <3>1, Zenon
    <3> QED
      BY <1>2, <3>1, <3>2, Zenon DEF Range
  <2> QED
    BY <2>1, <2>2, Zenon
<1>8. Range(t) = Range(s) \ {s[k]}
  BY <1>1, <1>2, <1>6, <1>7, Zenon DEF Range
<1> QED
  BY <1>4, <1>8, Zenon DEF t
\* AddPeer inserts a peer that is new, and keeps the place of one that is not.
LEMMA AddPeerList ==
  ASSUME ListInv, NEW p \in Peers \cup {Self}, NEW a \in Nonces, AddPeer(p, a)
  PROVE  ListInv'
<1>1. /\ sorted \in Seq(Peers) /\ addrs \in [Peers -> Address] /\ Range(sorted) \subseteq Known
      /\ Ordered(sorted) /\ absent' = absent /\ a # NoAddr
      /\ Dist \in [Peers -> Nat] /\ \A q, r \in Peers : Dist[q] = Dist[r] => q = r
  BY TableConstants, Zenon DEF ListInv, ListedHaveAddress, isCloser, Ordered, AddPeer
<1>2. CASE p = Self
  BY <1>2, Zenon DEF AddPeer, ListInv, ListedHaveAddress, isCloser, Complete, Known
<1>3. CASE p # Self
  <2>1. /\ p \in Peers /\ addrs' = [addrs EXCEPT ![p] = a]
        /\ sorted' = IF addrs[p] = NoAddr THEN With(sorted, Search(p), p) ELSE sorted
    BY <1>3, Zenon DEF AddPeer, Inserted
  <2>2. addrs' \in [Peers -> Address] /\ Known' = Known \cup {p}
    BY <1>1, <2>1, Zenon DEF Known, Address
  <2>3. \/ sorted' \in Seq(Peers) /\ Ordered(sorted') /\ Range(sorted') = Range(sorted) \cup {p}
        \/ sorted' = sorted /\ p \in Known
    <3>1. CASE addrs[p] # NoAddr
      BY <2>1, <3>1, Zenon DEF Known
    <3>2. CASE addrs[p] = NoAddr
      <4> DEFINE k == Search(p)
      <4>1. /\ k \in 1..(Len(sorted) + 1)
            /\ \A j \in 1..(k - 1) : Dist[sorted[j]] <= Dist[p]
            /\ \A j \in k..Len(sorted) : Dist[p] < Dist[sorted[j]]
        BY <1>1, <2>1, SearchFinds, Zenon
      <4>2. sorted' = With(sorted, k, p)
        BY <2>1, <3>2, Zenon
      <4> HIDE DEF k
      <4>3. p \notin Range(sorted)
        BY <1>1, <3>2, Zenon DEF Known
      <4>4. ASSUME NEW j \in 1..(k - 1) PROVE Dist[sorted[j]] < Dist[p]
        <5>1. j \in 1..Len(sorted) /\ sorted[j] \in Peers /\ sorted[j] \in Range(sorted)
          BY <1>1, <4>1 DEF Range
        <5>2. Dist[sorted[j]] # Dist[p] /\ Dist[sorted[j]] \in Nat /\ Dist[p] \in Nat
          BY <1>1, <2>1, <4>3, <5>1, Zenon
        <5> QED
          BY <4>1, <5>2
      <4>5. With(sorted, k, p) \in Seq(Peers)
        BY <1>1, <2>1, <4>1, WithPlaces, Zenon
      <4>6. Ordered(With(sorted, k, p)) /\ Range(With(sorted, k, p)) = Range(sorted) \cup {p}
        BY <1>1, <2>1, <4>1, <4>4, WithOrdered, Zenon
      <4> QED
        BY <4>2, <4>5, <4>6, Zenon
    <3> QED
      BY <3>1, <3>2, Zenon
  <2>4. CASE sorted' \in Seq(Peers) /\ Ordered(sorted') /\ Range(sorted') = Range(sorted) \cup {p}
    <3>1. ListedHaveAddress' /\ Complete'
      BY <1>1, <2>2, <2>4 DEF ListInv, ListedHaveAddress, Complete, isCloser, Ordered
    <3> QED
      BY <2>2, <2>4, <3>1, Zenon DEF ListInv
  <2>5. CASE sorted' = sorted /\ p \in Known
    BY <1>1, <2>2, <2>5, Zenon DEF ListInv, ListedHaveAddress, Complete, isCloser
  <2> QED
    BY <2>3, <2>4, <2>5, Zenon
<1> QED
  BY <1>2, <1>3, Zenon

\* DeletePeer removes the peer's place if it has one.  If it has none it removes a peer
\* that keeps its address: the list is then not complete, but it is still in order.
LEMMA RemovePeerList ==
  ASSUME ListInv, NEW p \in Peers, RemovePeer(p)
  PROVE  ListInv'
<1>1. /\ sorted \in Seq(Peers) /\ addrs \in [Peers -> Address] /\ Range(sorted) \subseteq Known
      /\ Ordered(sorted) /\ Complete /\ Len(sorted) \in Nat
      /\ DOMAIN sorted = 1..Len(sorted) /\ \A i \in 1..Len(sorted) : sorted[i] \in Peers
      /\ Dist \in [Peers -> Nat]
  BY TableConstants DEF ListInv, ListedHaveAddress, isCloser, Ordered
<1>2. /\ addrs' = [addrs EXCEPT ![p] = NoAddr]
      /\ sorted' = IF Search(p) > 1 THEN Without(sorted, Search(p) - 1) ELSE sorted
      /\ absent' = (absent \/ addrs[p] = NoAddr)
  BY Zenon DEF RemovePeer, Removed
<1>3. addrs' \in [Peers -> Address] /\ Known' = Known \ {p}
  BY <1>1, <1>2, Zenon DEF Known, Address
<1> DEFINE k == Search(p)
<1>4. /\ k \in 1..(Len(sorted) + 1)
      /\ \A j \in 1..(k - 1) : Dist[sorted[j]] <= Dist[p]
      /\ \A j \in k..Len(sorted) : Dist[p] < Dist[sorted[j]]
  BY <1>1, SearchFinds, Zenon
<1>5. sorted' = IF k > 1 THEN Without(sorted, k - 1) ELSE sorted
  BY <1>2, Zenon
<1> HIDE DEF k
<1>6. ASSUME p \in Range(sorted) PROVE k > 1 /\ sorted[k - 1] = p
  <2>1. PICK j \in 1..Len(sorted) : sorted[j] = p
    BY <1>1, <1>6, Zenon DEF Range
  <2>2. Dist[p] \in Nat /\ j < k
    BY <1>1, <1>4, <2>1
  <2>3. k - 1 \in 1..Len(sorted) /\ k - 1 \in 1..(k - 1)
    BY <1>1, <1>4, <2>2
  <2>4. Dist[sorted[k - 1]] <= Dist[p] /\ Dist[sorted[k - 1]] \in Nat
    BY <1>1, <1>4, <2>3, Zenon
  <2>5. j < k - 1 => Dist[p] < Dist[sorted[k - 1]]
    BY <1>1, <2>1, <2>3, Zenon DEF Ordered
  <2>6. j = k - 1
    BY <1>4, <2>2, <2>4, <2>5
  <2> QED
    BY <1>4, <2>1, <2>2, <2>6
<1>7. /\ sorted' \in Seq(Peers) /\ Ordered(sorted') /\ Range(sorted') \subseteq Range(sorted)
      /\ p \in Range(sorted) => Range(sorted') = Range(sorted) \ {p}
  <2>1. CASE k > 1
    <3>1. k - 1 \in 1..Len(sorted) /\ sorted' = Without(sorted, k - 1)
      BY <1>1, <1>4, <1>5, <2>1
    <3>2. /\ sorted' \in Seq(Peers) /\ Ordered(sorted')
          /\ Range(sorted') = Range(sorted) \ {sorted[k - 1]}
      BY <1>1, <3>1, WithoutOrdered, WithoutPlaces, Zenon
    <3> QED
      BY <1>6, <3>2, Zenon
  <2>2. CASE ~(k > 1)
    BY <1>1, <1>5, <1>6, <2>2, Zenon
  <2> QED
    BY <2>1, <2>2, Zenon
<1>8. ListedHaveAddress'
  BY <1>1, <1>3, <1>7, Zenon DEF ListedHaveAddress, isCloser, Ordered
<1>9. Complete'
  BY <1>1, <1>2, <1>3, <1>7, Zenon DEF Complete, Known
<1> QED
  BY <1>3, <1>7, <1>8, <1>9, Zenon DEF ListInv

\* Steps that leave the table alone, and those on expiries.
LEMMA QuietList ==
  ASSUME ListInv, UNCHANGED <<sorted, addrs, absent>>
  PROVE  ListInv'
BY Zenon DEF ListInv, ListedHaveAddress, isCloser, Complete, Known

\* Peers returns a part of the list.
LEMMA PeersOfPlaces ==
  ASSUME sorted \in Seq(Peers), NEW n \in Nat
  PROVE  LET m == IF n < Len(sorted) THEN n ELSE Len(sorted)
         IN  /\ PeersOf(n) \in Seq(Peers) /\ Len(PeersOf(n)) = m
             /\ \A i \in 1..m : PeersOf(n)[i] = sorted[i]
<1> DEFINE m == IF n < Len(sorted) THEN n ELSE Len(sorted)
<1>1. m \in (1 - 1)..Len(sorted) /\ 1 \in 1..(Len(sorted) + 1) /\ m \in Nat
  OBVIOUS
<1>2. PeersOf(n) = SubSeq(sorted, 1, m)
  BY Zenon DEF PeersOf
<1> HIDE DEF m
<1>3. /\ SubSeq(sorted, 1, m) \in Seq(Peers) /\ Len(SubSeq(sorted, 1, m)) = m - 1 + 1
      /\ \A i \in 1..(m - 1 + 1) : SubSeq(sorted, 1, m)[i] = sorted[1 + i - 1]
  BY <1>1, PartPlaces, ZenonT(60)
<1>4. PeersOf(n) \in Seq(Peers) /\ Len(PeersOf(n)) = m /\ \A i \in 1..m : PeersOf(n)[i] = sorted[i]
  BY <1>1, <1>2, <1>3
<1> QED
  BY <1>4, Zenon DEF m
\* The queues of discovery hold signatories.
LEMMA QueueStep == ListInv /\ QueueInv /\ [DiscoveryNext]_dvars => QueueInv'
<1> SUFFICES ASSUME ListInv, QueueInv, [DiscoveryNext]_dvars PROVE QueueInv'
  BY Zenon
<1>1. /\ \A n \in Nat : PeersOf(n) \in Seq(Peers)
      /\ Alpha \in Nat /\ MaxExpectedPeers \in Nat /\ Pingers \subseteq Peers
      /\ \A p \in Peers : Knows[p] \in Seq(Peers \cup {Self})
  <2>1. Alpha \in Nat /\ MaxExpectedPeers \in Nat /\ Pingers \subseteq Peers
        /\ \A p \in Peers : Knows[p] \in Seq(Peers \cup {Self})
    BY DiscoveryConstants
  <2>2. \A n \in Nat : PeersOf(n) \in Seq(Peers)
    BY PeersOfPlaces, Zenon DEF ListInv
  <2> QED
    BY <2>1, <2>2, Zenon
<1>2. CASE Ping
  <2>1. Head(round) \in Peers /\ Tail(round) \in Seq(Peers) /\ todo' = todo
    BY <1>2 DEF Ping, QueueInv, rxVars
  <2>2. inbox' \subseteq inbox \cup {<<"PingAck", Head(round)>>} /\ round' \in {Tail(round), PeersOf(Alpha)}
    BY <1>2, Zenon DEF Ping
  <2>3. inbox' \subseteq {"Ping", "PingAck"} \X Peers
    BY <2>1, <2>2 DEF QueueInv
  <2>4. round' \in Seq(Peers)
    BY <1>1, <2>1, <2>2, Zenon
  <2> QED
    BY <2>1, <2>3, <2>4, Zenon DEF QueueInv
<1>3. CASE Tick \/ Return \/ Cancel
  BY <1>1, <1>3, Zenon DEF Tick, Return, Cancel, QueueInv, rxVars, netVars
<1>4. CASE Receiving
  <2>1. ASSUME NEW m \in inbox, ReceiveBad(m) \/ didReceivePing(m) PROVE QueueInv'
    BY <2>1, Zenon DEF ReceiveBad, didReceivePing, QueueInv, rxVars, loopVars
  <2>2. ASSUME NEW m \in inbox, didReceivePingAck(m) PROVE QueueInv'
    BY <1>1, <2>2, Zenon DEF didReceivePingAck, QueueInv, loopVars
  <2>3. CASE AckList
    <3>1. todo' = PeersOf(MaxExpectedPeers) /\ inbox' = inbox /\ round' = round
      BY <2>3, Zenon DEF AckList, loopVars, netVars
    <3>2. todo' \in Seq(Peers)
      BY <1>1, <3>1, Zenon
    <3>3. todo' \in Seq(Peers \cup {Self})
      BY <3>2
    <3> QED
      BY <3>1, <3>3, Zenon DEF QueueInv
  <2>4. CASE AckAddress \/ AddListed
    <3>1. todo # <<>> /\ todo' = Tail(todo) /\ inbox' = inbox /\ round' = round
      BY <2>4, Zenon DEF AckAddress, AddListed, loopVars, netVars
    <3>2. todo' \in Seq(Peers \cup {Self})
      BY <3>1 DEF QueueInv
    <3> QED
      BY <3>1, <3>2, Zenon DEF QueueInv
  <2>5. CASE AckLookup \/ AckSend \/ AddDone
    BY <2>5, Zenon DEF AckLookup, AckSend, AddDone, QueueInv, loopVars, netVars
  <2> QED
    BY <1>4, <2>1, <2>2, <2>3, <2>4, <2>5, Zenon DEF Receiving
<1>5. CASE TableStep
  BY <1>5, Zenon DEF TableStep, QueueInv, rxVars, loopVars, netVars
<1>6. ASSUME NEW p \in Peers, AddBootstrap(p) \/ AppDelete(p) \/ RemotePing(p) \/ Vanish(p)
      PROVE  QueueInv'
  BY <1>1, <1>6 DEF AddBootstrap, AppDelete, RemotePing, Vanish, QueueInv, rxVars, loopVars, netVars
<1>7. CASE UNCHANGED dvars
  BY <1>7, Zenon DEF dvars, QueueInv, rxVars, loopVars, netVars
<1> QED
  BY <1>2, <1>3, <1>4, <1>5, <1>6, <1>7, Zenon DEF DiscoveryNext, DiscoverPeers

\* Every step keeps the invariant of the list.
LEMMA ListStep == ListInv /\ QueueInv /\ [DiscoveryNext]_dvars => ListInv'
<1> SUFFICES ASSUME ListInv, QueueInv, [DiscoveryNext]_dvars PROVE ListInv'
  BY Zenon
<1>1. CASE DiscoverPeers \/ Cancel
  BY <1>1, QuietList, Zenon DEF DiscoverPeers, Ping, Tick, Return, Cancel, tableVars
<1>2. CASE Receiving
  <2>1. ASSUME NEW m \in inbox, ReceiveBad(m) \/ didReceivePingAck(m) PROVE ListInv'
    BY <2>1, QuietList, Zenon DEF ReceiveBad, didReceivePingAck, tableVars
  <2>2. ASSUME NEW m \in inbox, didReceivePing(m) PROVE ListInv'
    <3>1. m[2] \in Peers \cup {Self} /\ \E a \in Nonces : AddPeer(m[2], a)
      BY <2>2, Zenon DEF didReceivePing, QueueInv
    <3> QED
      BY <3>1, AddPeerList, Zenon
  <2>3. CASE AckList \/ AckAddress \/ AckLookup \/ AckSend \/ AddDone
    BY <2>3, QuietList, Zenon DEF AckList, AckAddress, AckLookup, AckSend, AddDone, tableVars
  <2>4. CASE AddListed
    <3>1. Head(todo) \in Peers \cup {Self} /\ \E a \in Nonces : AddPeer(Head(todo), a)
      BY <2>4 DEF AddListed, QueueInv
    <3> QED
      BY <3>1, AddPeerList, Zenon
  <2> QED
    BY <1>2, <2>1, <2>2, <2>3, <2>4, Zenon DEF Receiving
<1>3. CASE TableStep
  <2>1. ASSUME NEW p \in Peers, Age(p) PROVE ListInv'
    BY <2>1, QuietList, Zenon DEF Age
  <2>2. ASSUME NEW d \in Dialers, HandleExpiredDelete(d) PROVE ListInv'
    <3>1. Target[d] \in Peers /\ RemovePeer(Target[d])
      BY <2>2, TableConstants, Zenon DEF HandleExpiredDelete
    <3> QED
      BY <3>1, RemovePeerList, Zenon
  <2>3. ASSUME NEW d \in Dialers, Dialing(d), ~HandleExpiredDelete(d) PROVE ListInv'
    BY <2>3, QuietList, Zenon
    DEF Dialing, AddExpiry, AddExpirySet, DeleteExpiry, HandleExpired, HandleExpiredForget
  <2> QED
    BY <1>3, <2>1, <2>2, <2>3, Zenon DEF TableStep
<1>4. ASSUME NEW p \in Peers, AddBootstrap(p) PROVE ListInv'
  BY <1>4, AddPeerList, Zenon DEF AddBootstrap
<1>5. ASSUME NEW p \in Peers, AppDelete(p) PROVE ListInv'
  BY <1>5, RemovePeerList, Zenon DEF AppDelete, DeletePeer
<1>6. ASSUME NEW p \in Peers, RemotePing(p) \/ Vanish(p) PROVE ListInv'
  BY <1>6, QuietList, Zenon DEF RemotePing, Vanish, tableVars
<1>7. CASE UNCHANGED dvars
  BY <1>7, QuietList, Zenon DEF dvars, tableVars
<1> QED
  BY <1>1, <1>2, <1>3, <1>4, <1>5, <1>6, <1>7, Zenon DEF DiscoveryNext

\* At first the table is empty.
LEMMA ListInitially == DiscoveryInit => ListInv /\ QueueInv
<1> SUFFICES ASSUME DiscoveryInit PROVE ListInv /\ QueueInv
  BY Zenon
<1>1. sorted = <<>> /\ addrs = [p \in Peers |-> NoAddr] /\ todo = <<>> /\ round = <<>> /\ inbox = {}
  BY Zenon DEF DiscoveryInit, TableInit
<1>2. QueueInv /\ addrs \in [Peers -> Address] /\ sorted \in Seq(Peers)
  BY <1>1 DEF QueueInv, Address
<1>3. Len(sorted) = 0 /\ Range(sorted) = {} /\ Known = {}
  BY <1>1 DEF Range, Known
<1>4. ListedHaveAddress /\ Complete
  BY <1>3 DEF ListedHaveAddress, Complete
<1> QED
  BY <1>2, <1>4, Zenon DEF ListInv

\* Whatever dials, discovery and the application interleave, the peers that the table
\* lists are in strict order of distance and have an address.
THEOREM ListedHaveAddressHolds == DiscoverySpec => []ListedHaveAddress
<1>1. ListInv => ListedHaveAddress
  BY Zenon DEF ListInv
<1> QED
  BY <1>1, ListInitially, ListStep, QueueStep, PTL DEF DiscoverySpec
\* The list holds as many peers as it has places.
LEMMA ListSize ==
  ASSUME NEW s \in Seq(Peers), Ordered(s), NEW S \in SUBSET (1..Len(s))
  PROVE  /\ IsFiniteSet({s[i] : i \in S}) /\ Cardinality({s[i] : i \in S}) = Cardinality(S)
         /\ IsFiniteSet(S) /\ Cardinality(S) \in Nat
<1>1. /\ Len(s) \in Nat /\ DOMAIN s = 1..Len(s) /\ \A i \in 1..Len(s) : s[i] \in Peers
      /\ Dist \in [Peers -> Nat]
  BY TableConstants
<1>2. 1 \in Int /\ Len(s) \in Int
  BY <1>1
<1>3. IsFiniteSet(S) /\ Cardinality(S) \in Nat
  BY <1>2, FS_Interval, FS_Subset, FS_CardinalityType, ZenonT(60)
<1>4. ASSUME NEW i \in S, NEW j \in S, s[i] = s[j] PROVE i = j
  <2>1. i \in 1..Len(s) /\ j \in 1..Len(s)
    BY Zenon
  <2>2. ~(i < j) /\ ~(j < i)
    BY <1>1, <1>4, <2>1 DEF Ordered
  <2> QED
    BY <2>1, <2>2
<1> DEFINE f == [i \in S |-> s[i]]
           U == {s[i] : i \in S}
<1>5. f \in Bijection(S, U)
  BY <1>4, Zenon DEF Bijection, Injection, Surjection, IsInjective
<1>6. ExistsBijection(S, U)
  BY <1>5, Zenon DEF ExistsBijection
<1> HIDE DEF U
<1>7. IsFiniteSet(U) /\ Cardinality(U) = Cardinality(S)
  BY <1>3, <1>6, FS_Bijection, ZenonT(60)
<1> QED
  BY <1>3, <1>7, Zenon DEF U

\* The list is as long as it has peers.
LEMMA ListLength ==
  ASSUME NEW s \in Seq(Peers), Ordered(s)
  PROVE  IsFiniteSet(Range(s)) /\ Cardinality(Range(s)) = Len(s)
<1>1. Len(s) \in Nat /\ 1 \in Int /\ Len(s) \in Int
  OBVIOUS
<1>2. Cardinality(1..Len(s)) = IF 1 > Len(s) THEN 0 ELSE Len(s) - 1 + 1
  BY <1>1, FS_Interval, ZenonT(60)
<1>3. Range(s) = {s[i] : i \in 1..Len(s)}
  BY DEF Range
<1>4. 1..Len(s) \in SUBSET (1..Len(s))
  BY Zenon
<1>5. IsFiniteSet(Range(s)) /\ Cardinality(Range(s)) = Cardinality(1..Len(s))
  BY <1>3, <1>4, ListSize, Zenon
<1> QED
  BY <1>1, <1>2, <1>5

\* Peers returns the closest peers of the table, in order, until DeletePeer is called
\* for a peer that the table does not hold.
THEOREM ClosestPeersHolds == DiscoverySpec => []ClosestPeers
<1>1. ASSUME ListInv, ~absent PROVE PeersAreClosest
  <2>0. sorted \in Seq(Peers) /\ Ordered(sorted) /\ Known = Range(sorted)
    BY <1>1, Zenon DEF ListInv, ListedHaveAddress, Complete, isCloser, Ordered
  <2>1. /\ sorted \in Seq(Peers) /\ Ordered(sorted) /\ Known = Range(sorted)
        /\ Len(sorted) \in Nat /\ DOMAIN sorted = 1..Len(sorted) /\ Dist \in [Peers -> Nat]
        /\ \A i \in 1..Len(sorted) : sorted[i] \in Peers
    BY <2>0, TableConstants
  <2>2. Cardinality(Known) = Len(sorted)
    BY <2>1, ListLength, Zenon
  <2> SUFFICES ASSUME NEW n \in 0..Cardinality(Peers)
               PROVE  LET ps == PeersOf(n) IN
                        /\ Len(ps) = (IF n < Cardinality(Known) THEN n ELSE Cardinality(Known))
                        /\ Range(ps) \subseteq Known
                        /\ \A i \in 1..Len(ps), q \in Known :
                             Dist[q] < Dist[ps[i]] => \E j \in 1..(i - 1) : ps[j] = q
    BY Zenon DEF PeersAreClosest
  <2> DEFINE ps == PeersOf(n)
             m == IF n < Len(sorted) THEN n ELSE Len(sorted)
  <2>3. n \in Nat /\ m \in Nat /\ m <= Len(sorted)
    BY <2>1
  <2>4. ps \in Seq(Peers) /\ Len(ps) = m /\ \A i \in 1..m : ps[i] = sorted[i]
    BY <2>1, <2>3, PeersOfPlaces, Zenon
  <2>5. Len(ps) = (IF n < Cardinality(Known) THEN n ELSE Cardinality(Known))
    BY <2>2, <2>4, Zenon
  <2> HIDE DEF ps, m
  <2>6. Range(ps) \subseteq Known
    BY <2>1, <2>3, <2>4 DEF Range
  <2>7. ASSUME NEW i \in 1..m, NEW q \in Known, Dist[q] < Dist[ps[i]]
        PROVE  \E j \in 1..(i - 1) : ps[j] = q
    <3>1. PICK j \in 1..Len(sorted) : sorted[j] = q
      BY <2>1, Zenon DEF Range
    <3>2. i \in 1..Len(sorted) /\ ps[i] = sorted[i] /\ Dist[sorted[i]] \in Nat /\ Dist[sorted[j]] \in Nat
      BY <2>1, <2>3, <2>4
    <3>3. ~(i < j) /\ i # j
      BY <2>1, <2>7, <3>1, <3>2 DEF Ordered
    <3>4. j \in 1..(i - 1) /\ j \in 1..m
      BY <2>3, <3>2, <3>3
    <3> QED
      BY <2>4, <3>1, <3>4, Zenon
  <2> QED
    BY <2>4, <2>5, <2>6, <2>7, Zenon DEF ps
<1>2. ListInv => ClosestPeers
  BY <1>1, Zenon DEF ClosestPeers
<1> QED
  BY <1>2, ListInitially, ListStep, QueueStep, PTL DEF DiscoverySpec
\* One step of Floyd's algorithm: the index that is drawn, or i if it was taken before.
Drawn(taken, i, draw) == taken \cup {IF draw[i] \in taken THEN i ELSE draw[i]}

\* The indices taken in the turns from lo to hi of its loop.
Run(g, lo, hi, draw) ==
  g = [i \in lo..hi |-> IF i = lo THEN {} ELSE Drawn(g[i - 1], i - 1, draw)]

\* The loop of Floyd's algorithm is well defined.
LEMMA FloydDefined ==
  ASSUME NEW lo \in Nat, NEW hi \in Nat, lo <= hi, NEW draw
  PROVE  \E g : Run(g, lo, hi, draw)
<1> DEFINE T == {k \in lo..hi : ~\E g : Run(g, lo, k, draw)}
<1>0. T \in SUBSET Nat /\ \A k \in lo..hi : k \notin T => \E g : Run(g, lo, k, draw)
  OBVIOUS
<1>1. ASSUME NEW k \in T, \A j \in T : k <= j PROVE FALSE
  <2>1. k \in lo..hi /\ ~\E g : Run(g, lo, k, draw)
    BY Zenon
  <2> HIDE DEF T
  <2>2. CASE k = lo
    <3>1. Run([i \in lo..lo |-> {}], lo, k, draw)
      BY <2>2 DEF Run
    <3> QED
      BY <2>1, <3>1, Zenon
  <2>3. CASE k # lo
    <3>1. k - 1 \in lo..hi /\ k - 1 \notin T
      BY <1>1, <2>1, <2>3
    <3>2. PICK g : Run(g, lo, k - 1, draw)
      BY <1>0, <3>1, Zenon
    <3> DEFINE h == [i \in lo..k |-> IF i = k THEN Drawn(g[k - 1], k - 1, draw) ELSE g[i]]
    <3>3. ASSUME NEW i \in lo..k
          PROVE  h[i] = IF i = lo THEN {} ELSE Drawn(h[i - 1], i - 1, draw)
      <4>1. CASE i = k
        <5>1. k - 1 \in lo..k /\ k - 1 # k
          BY <2>1, <2>3
        <5> QED
          BY <2>3, <4>1, <5>1, Zenon
      <4>2. CASE i # k
        <5>1. i \in lo..(k - 1) /\ h[i] = g[i]
          BY <2>1, <4>2
        <5>2. g[i] = IF i = lo THEN {} ELSE Drawn(g[i - 1], i - 1, draw)
          BY <3>2, <5>1, Zenon DEF Run
        <5>3. i # lo => h[i - 1] = g[i - 1]
          BY <2>1, <4>2, <5>1
        <5> QED
          BY <5>1, <5>2, <5>3, Zenon
      <4> QED
        BY <4>1, <4>2, Zenon
    <3>4. Run(h, lo, k, draw)
      BY <3>3, Zenon DEF Run
    <3> QED
      BY <2>1, <3>4, Zenon
  <2> QED
    BY <2>2, <2>3, Zenon
<1> HIDE DEF T
<1>2. T = {}
  BY <1>0, <1>1, LeastNatural, Zenon
<1>3. hi \in lo..hi
  OBVIOUS
<1> QED
  BY <1>0, <1>2, <1>3, Zenon

\* Floyd's algorithm takes n different indices of 0..m-1, whatever is drawn.
LEMMA FloydExact ==
  ASSUME sorted \in Seq(Peers), NEW n \in Nat, n < Len(sorted),
         NEW draw \in [(Len(sorted) - n)..(Len(sorted) - 1) -> 0..(Len(sorted) - 1)],
         \A i \in DOMAIN draw : draw[i] < i
  PROVE  /\ Floyd(n, draw) \subseteq 0..(Len(sorted) - 1)
         /\ IsFiniteSet(Floyd(n, draw)) /\ Cardinality(Floyd(n, draw)) = n
<1> DEFINE m == Len(sorted)
           lo == m - n
           set == CHOOSE g : g = [i \in lo..m |-> IF i = lo THEN {} ELSE
                    g[i - 1] \cup {IF draw[i - 1] \in g[i - 1] THEN i - 1 ELSE draw[i - 1]}]
<1>1. m \in Nat /\ lo \in Nat /\ lo <= m /\ m - lo = n
  OBVIOUS
<1>2. Floyd(n, draw) = set[m]
  BY Zenon DEF Floyd
<1>3. \A i \in lo..(m - 1) : draw[i] \in 0..(m - 1) /\ draw[i] < i
  BY Zenon
<1> HIDE DEF m, lo
<1>4. set = [i \in lo..m |-> IF i = lo THEN {} ELSE Drawn(set[i - 1], i - 1, draw)]
  <2>1. \E g : Run(g, lo, m, draw)
    BY <1>1, FloydDefined, Zenon
  <2> QED
    BY <2>1, Zenon DEF Run, Drawn
<1> HIDE DEF set
<1> DEFINE Exact(i) ==
             set[i] \in SUBSET (0..(i - 1)) /\ IsFiniteSet(set[i]) /\ Cardinality(set[i]) = i - lo
           T == {i \in lo..m : ~Exact(i)}
<1>5. T \in SUBSET Nat /\ \A i \in lo..m : i \notin T => Exact(i)
  BY <1>1
<1>6. ASSUME NEW i \in T, \A j \in T : i <= j PROVE FALSE
  <2>1. i \in lo..m /\ ~Exact(i) /\ i \in Nat
    BY <1>1
  <2> HIDE DEF T
  <2>2. CASE i = lo
    <3>1. set[i] = {} /\ i - lo = 0
      BY <1>1, <1>4, <2>1, <2>2
    <3>2. IsFiniteSet(set[i]) /\ Cardinality(set[i]) = 0
      BY <3>1, FS_EmptySet, ZenonT(60)
    <3> QED
      BY <2>1, <3>1, <3>2, Zenon
  <2>3. CASE i # lo
    <3>1. i - 1 \in lo..m /\ i - 1 \in lo..(m - 1) /\ (i - 1) - lo + 1 = i - lo /\ i - 1 < i
      BY <1>1, <2>1, <2>3
    <3>2. Exact(i - 1)
      <4>1. i - 1 \notin T
        BY <1>5, <1>6, <3>1
      <4> QED
        BY <1>5, <3>1, <4>1, Zenon
    <3> DEFINE taken == set[i - 1]
               d == IF draw[i - 1] \in taken THEN i - 1 ELSE draw[i - 1]
    <3>3. set[i] = taken \cup {d}
      BY <1>4, <2>1, <2>3, Zenon DEF Drawn
    <3>4. draw[i - 1] \in 0..(m - 1) /\ draw[i - 1] < i - 1
      BY <1>3, <3>1, Zenon
    <3>5. i - 1 \notin taken /\ d \notin taken /\ d \in 0..(i - 1)
      BY <2>1, <3>1, <3>2, <3>4
    <3>6. set[i] \in SUBSET (0..(i - 1))
      BY <2>1, <3>2, <3>3, <3>5
    <3>7. IsFiniteSet(taken) /\ Cardinality(taken) = (i - 1) - lo
      BY <3>2, Zenon
    <3> HIDE DEF d, taken
    <3>8. IsFiniteSet(set[i]) /\ Cardinality(set[i]) = Cardinality(taken) + 1
      <4>1. /\ IsFiniteSet(taken \cup {d})
            /\ Cardinality(taken \cup {d}) = IF d \in taken THEN Cardinality(taken) ELSE Cardinality(taken) + 1
        BY <3>7, FS_AddElement, ZenonT(60)
      <4> QED
        BY <3>3, <3>5, <4>1, Zenon
    <3> QED
      BY <2>1, <3>1, <3>6, <3>7, <3>8, Zenon
  <2> QED
    BY <2>2, <2>3, Zenon
<1> HIDE DEF T
<1>7. T = {}
  BY <1>5, <1>6, LeastNatural, Zenon
<1>8. Exact(m)
  BY <1>1, <1>5, <1>7
<1> QED
  BY <1>1, <1>2, <1>8, Zenon DEF m
\* RandomPeers returns as many different peers of the table as it is asked for, or all
\* of them, by each of its ways: no draw is lost to an index that was drawn before.
THEOREM SamplesExactHolds == DiscoverySpec => []SamplesExact
<1>1. ASSUME ListInv, NEW n \in Nat, NEW ps \in RandomPeers(n)
      PROVE  /\ ps \subseteq Range(sorted)
             /\ Cardinality(ps) = (IF n < Len(sorted) THEN n ELSE Len(sorted))
  <2>1. sorted \in Seq(Peers) /\ Ordered(sorted)
    BY <1>1, Zenon DEF ListInv, ListedHaveAddress, isCloser, Ordered
  <2>2. Len(sorted) \in Nat /\ Cardinality(Range(sorted)) = Len(sorted) /\ DOMAIN sorted = 1..Len(sorted)
    BY <2>1, ListLength
  <2>3. CASE n <= 0
    <3>1. ps = {} /\ n = 0
      BY <2>3 DEF RandomPeers
    <3>2. Cardinality(ps) = 0
      BY <3>1, FS_EmptySet, ZenonT(60)
    <3> QED
      BY <2>2, <3>1, <3>2
  <2>4. CASE ~(n <= 0) /\ n >= Len(sorted)
    <3>1. ps = Range(sorted)
      BY <2>4, Zenon DEF RandomPeers
    <3> QED
      BY <2>2, <2>4, <3>1
  <2>5. CASE ~(n <= 0) /\ ~(n >= Len(sorted))
    <3>1. n < Len(sorted)
      BY <2>2, <2>5
    <3>2. CASE ps \in SUBSET Range(sorted) /\ Cardinality(ps) = n
      BY <3>1, <3>2, Zenon
    <3>3. ASSUME NEW f \in [(Len(sorted) - n)..(Len(sorted) - 1) -> 0..(Len(sorted) - 1)],
                 \A i \in DOMAIN f : f[i] < i, ps = {sorted[i + 1] : i \in Floyd(n, f)}
          PROVE  ps \subseteq Range(sorted) /\ Cardinality(ps) = n
      <4> DEFINE F == Floyd(n, f)
                 S == {i + 1 : i \in F}
      <4>1. F \subseteq 0..(Len(sorted) - 1) /\ IsFiniteSet(F) /\ Cardinality(F) = n
        BY <2>1, <3>1, <3>3, FloydExact, Zenon
      <4> HIDE DEF F
      <4>2. S \in SUBSET (1..Len(sorted)) /\ ps = {sorted[i] : i \in S}
        BY <2>2, <3>3, <4>1 DEF F
      <4>3. [i \in F |-> i + 1] \in Bijection(F, S)
        BY <4>1 DEF Bijection, Injection, Surjection, IsInjective
      <4>4. ExistsBijection(F, S)
        BY <4>3, Zenon DEF ExistsBijection
      <4> HIDE DEF S
      <4>5. Cardinality(S) = Cardinality(F)
        BY <4>1, <4>4, FS_Bijection, ZenonT(60)
      <4>6. Cardinality(ps) = Cardinality(S)
        BY <2>1, <4>2, ListSize, Zenon
      <4> QED
        BY <2>2, <4>1, <4>2, <4>5, <4>6, Zenon DEF Range
    <3> DEFINE m == Len(sorted)
               Draws == {f \in [(m - n)..(m - 1) -> 0..(m - 1)] : \A i \in DOMAIN f : f[i] < i}
    <3>4. \/ ps \in {qs \in SUBSET Range(sorted) : Cardinality(qs) = n}
          \/ ps \in {{sorted[i + 1] : i \in Floyd(n, f)} : f \in Draws}
      BY <2>5, Zenon DEF RandomPeers
    <3> QED
      BY <3>1, <3>2, <3>3, <3>4, Zenon
  <2> QED
    BY <2>3, <2>4, <2>5, Zenon
<1>2. ListInv => SamplesExact
  BY <1>1 DEF SamplesExact
<1> QED
  BY <1>2, ListInitially, ListStep, QueueStep, PTL DEF DiscoverySpec
=============================================================================
