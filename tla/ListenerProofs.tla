--------------------------- MODULE ListenerProofs ---------------------------
(* Proofs about Listener, for any accept loops, connections and policies:  *)
(* Max holds its bound and gets its slots back, and RateLimit holds its    *)
(* rate in maps of bounded size.                                           *)
EXTENDS Listener, FiniteSetTheorems, TLAPS

\* A loop in one of these places is checking a connection.
Checking == {"allow", "max", "failed"}

LoopType ==
  /\ loop \in [Loops -> {"accept", "returned"} \cup Checking]
  /\ cur \in [Loops -> Conns \cup {NoConn}] /\ i \in [Loops -> Nat \ {0}] /\ any \in [Loops -> BOOLEAN]
  /\ state \in [Conns -> {"new", "checked", "handled", "cleaned", "closed"}]

SlotType == cleanup \in [Conns -> Nat] /\ conns \in Nat

\* A loop has a connection while it checks one.
Placed(l) ==
  /\ loop[l] \in Checking => cur[l] \in Conns /\ state[cur[l]] = "checked"
  /\ loop[l] = "max" => i[l] <= Len(Policies[l]) /\ Policies[l][i[l]] = "max"
  /\ loop[l] = "failed" => Mode[l] = "all"

\* No other loop checks it.
Apart ==
  \A l, k \in Loops : l # k /\ loop[l] \in Checking /\ loop[k] \in Checking => cur[l] # cur[k]

LoopInv == LoopType /\ (\A l \in Loops : Placed(l)) /\ Apart

\* A step of one loop.
LEMMA OneLoop ==
  ASSUME LoopInv, LoopType', NEW l \in Loops, Placed(l)',
         \A k \in Loops : k # l => loop'[k] = loop[k] /\ cur'[k] = cur[k] /\ i'[k] = i[k],
         \A k \in Loops : k # l /\ loop[k] \in Checking => state'[cur[k]] = state[cur[k]],
         \A k \in Loops : k # l /\ loop'[l] \in Checking /\ loop[k] \in Checking => cur'[l] # cur[k]
  PROVE  LoopInv'
<1>1. ASSUME NEW k \in Loops PROVE Placed(k)'
  <2>1. CASE k = l
    BY <2>1, Zenon
  <2>2. CASE k # l
    <3>1. /\ loop'[k] = loop[k] /\ cur'[k] = cur[k] /\ i'[k] = i[k] /\ Placed(k)
          /\ loop[k] \in Checking => state'[cur[k]] = state[cur[k]]
      BY <2>2, Zenon DEF LoopInv
    <3> QED
      BY <3>1, Zenon DEF Placed
  <2> QED
    BY <2>1, <2>2, Zenon
<1>2. ASSUME NEW j \in Loops, NEW k \in Loops, j # k, loop'[j] \in Checking, loop'[k] \in Checking
      PROVE  cur'[j] # cur'[k]
  <2>1. CASE j = l
    BY <1>2, <2>1, Zenon
  <2>2. CASE k = l
    BY <1>2, <2>2, Zenon
  <2>3. CASE j # l /\ k # l
    <3>1. loop'[j] = loop[j] /\ loop'[k] = loop[k] /\ cur'[j] = cur[j] /\ cur'[k] = cur[k]
      BY <2>3, Zenon
    <3>2. loop[j] \in Checking /\ loop[k] \in Checking
      BY <1>2, <3>1, Zenon
    <3>3. cur[j] # cur[k]
      BY <1>2, <3>2, Zenon DEF LoopInv, Apart
    <3> QED
      BY <3>1, <3>3, Zenon
  <2> QED
    BY <2>1, <2>2, <2>3, Zenon
<1>3. Apart'
  BY <1>2, Zenon DEF Apart
<1> QED
  BY <1>1, <1>3, Zenon DEF LoopInv

\* The result of an Allow function leaves the loop with its connection.
LEMMA ResultKeeps ==
  ASSUME LoopInv, NEW l \in Loops, loop[l] \in Checking, NEW ok, Result(l, ok), state' = state
  PROVE  LoopInv'
<1>1. i[l] + 1 \in Nat \ {0} /\ Mode[l] \in {"all", "any"}
  BY ListenerConstants DEF LoopInv, LoopType
<1>2. PICK x \in {"allow", "failed"} : loop' = [loop EXCEPT ![l] = x] /\ (x = "failed" => Mode[l] = "all")
  BY <1>1, Zenon DEF Result
<1>3. /\ i' = [i EXCEPT ![l] = i[l] + 1] /\ any' = [any EXCEPT ![l] = any[l] \/ ok] /\ cur' = cur
  BY Zenon DEF Result, LoopInv, LoopType
<1>4. x \in Checking /\ x # "max" /\ (any[l] \/ ok) \in BOOLEAN
  BY <1>2, Zenon DEF Checking
<1>5. LoopType'
  BY <1>1, <1>2, <1>3, <1>4, Zenon DEF LoopInv, LoopType
<1>6. loop'[l] = x /\ \A k \in Loops : k # l => loop'[k] = loop[k] /\ cur'[k] = cur[k] /\ i'[k] = i[k]
  BY <1>2, <1>3, Zenon DEF LoopInv, LoopType
<1>7. Placed(l)'
  BY <1>2, <1>3, <1>4, <1>6, Zenon DEF LoopInv, Placed
<1>8. \A k \in Loops : k # l /\ loop[k] \in Checking => cur'[l] # cur[k]
  BY <1>3, Zenon DEF LoopInv, Apart
<1> QED
  BY <1>5, <1>6, <1>7, <1>8, OneLoop, Zenon

\* A loop that is done with its connection.
LEMMA DoneKeeps ==
  ASSUME LoopInv, NEW l \in Loops, loop[l] \in Checking, NEW x \in {"handled", "closed"},
         loop' = [loop EXCEPT ![l] = "accept"], cur' = [cur EXCEPT ![l] = NoConn],
         state' = [state EXCEPT ![cur[l]] = x], i' = i, any' = any
  PROVE  LoopInv'
<1>1. cur[l] \in Conns /\ "accept" \notin Checking /\ "accept" # "max" /\ "accept" # "failed"
  BY DEF LoopInv, Placed, Checking
<1>2. LoopType'
  BY <1>1, Zenon DEF LoopInv, LoopType
<1>3. /\ loop'[l] = "accept"
      /\ \A k \in Loops : k # l => loop'[k] = loop[k] /\ cur'[k] = cur[k] /\ i'[k] = i[k]
  BY Zenon DEF LoopInv, LoopType
<1>4. \A c \in Conns : c # cur[l] => state'[c] = state[c]
  BY <1>1, Zenon DEF LoopInv, LoopType
<1>5. \A k \in Loops : k # l /\ loop[k] \in Checking => cur[k] \in Conns /\ cur[k] # cur[l]
  BY Zenon DEF LoopInv, Apart, Placed
<1>6. \A k \in Loops : k # l /\ loop[k] \in Checking => state'[cur[k]] = state[cur[k]]
  BY <1>4, <1>5, Zenon
<1>7. Placed(l)'
  BY <1>1, <1>3, Zenon DEF Placed
<1> QED
  BY <1>1, <1>2, <1>3, <1>6, <1>7, OneLoop, Zenon

\* Loops and connections keep their places apart.
LEMMA LoopStep == LoopInv /\ [Next]_vars => LoopInv'
<1> SUFFICES ASSUME LoopInv, [Next]_vars PROVE LoopInv'
  BY Zenon
<1>0. "allow" \in Checking /\ "max" \in Checking /\ "failed" \in Checking
  BY Zenon DEF Checking
<1>1. ASSUME NEW l \in Loops, NEW c \in Conns, AcceptConn(l, c) PROVE LoopInv'
  <2>1. /\ loop[l] = "accept" /\ state[c] = "new" /\ loop' = [loop EXCEPT ![l] = "allow"]
        /\ cur' = [cur EXCEPT ![l] = c] /\ i' = [i EXCEPT ![l] = 1]
        /\ any' = [any EXCEPT ![l] = FALSE] /\ state' = [state EXCEPT ![c] = "checked"]
    BY <1>1, Zenon DEF AcceptConn
  <2>2. LoopType'
    <3>1. 1 \in Nat \ {0}
      OBVIOUS
    <3> QED
      BY <1>0, <2>1, <3>1, Zenon DEF LoopInv, LoopType
  <2>3. /\ loop'[l] = "allow" /\ cur'[l] = c /\ state'[c] = "checked"
        /\ \A k \in Loops : k # l => loop'[k] = loop[k] /\ cur'[k] = cur[k] /\ i'[k] = i[k]
        /\ \A d \in Conns : d # c => state'[d] = state[d]
    BY <2>1, Zenon DEF LoopInv, LoopType
  <2>4. \A k \in Loops : k # l /\ loop[k] \in Checking => cur[k] \in Conns /\ cur[k] # c
    <3>1. "new" # "checked"
      OBVIOUS
    <3> QED
      BY <2>1, <3>1, Zenon DEF LoopInv, Placed
  <2>5. "allow" # "max" /\ "allow" # "failed"
    OBVIOUS
  <2>6. Placed(l)'
    BY <2>3, <2>5, Zenon DEF Placed
  <2>7. \A k \in Loops : k # l /\ loop[k] \in Checking => state'[cur[k]] = state[cur[k]] /\ cur'[l] # cur[k]
    BY <2>3, <2>4, Zenon
  <2> QED
    BY <2>2, <2>3, <2>6, <2>7, OneLoop, Zenon
<1>2. ASSUME NEW l \in Loops, Return(l) PROVE LoopInv'
  <2>1. loop' = [loop EXCEPT ![l] = "returned"] /\ UNCHANGED <<cur, i, any, state>>
    BY <1>2, Zenon DEF Return
  <2>2. "returned" \notin Checking /\ "returned" # "max" /\ "returned" # "failed"
    BY DEF Checking
  <2>3. LoopType'
    BY <2>1, Zenon DEF LoopInv, LoopType
  <2>4. loop'[l] = "returned" /\ \A k \in Loops : k # l => loop'[k] = loop[k]
    BY <2>1, Zenon DEF LoopInv, LoopType
  <2>5. Placed(l)'
    BY <2>2, <2>4, Zenon DEF Placed
  <2> QED
    BY <2>1, <2>2, <2>3, <2>4, <2>5, OneLoop, Zenon
<1>3. ASSUME NEW l \in Loops, Handle(l) \/ Reject(l) PROVE LoopInv'
  BY <1>0, <1>3, DoneKeeps, Zenon DEF Handle, Reject
<1>4. ASSUME NEW l \in Loops, MaxRead(l) PROVE LoopInv'
  <2>1. loop[l] = "allow" /\ i[l] <= Len(Policies[l]) /\ Policies[l][i[l]] = "max" /\ state' = state
    BY <1>4, Zenon DEF MaxRead, Calling
  <2>2. CASE Result(l, MaxConns < 0)
    BY <1>0, <2>1, <2>2, ResultKeeps, Zenon
  <2>3. CASE loop' = [loop EXCEPT ![l] = "max"] /\ UNCHANGED <<cur, i, any>>
    <3>1. LoopType'
      BY <1>0, <2>1, <2>3, Zenon DEF LoopInv, LoopType
    <3>2. loop'[l] = "max" /\ \A k \in Loops : k # l => loop'[k] = loop[k]
      BY <2>3, Zenon DEF LoopInv, LoopType
    <3>3. "max" # "failed"
      OBVIOUS
    <3>4. Placed(l)'
      <4>1. cur[l] \in Conns /\ state[cur[l]] = "checked"
        <5>1. loop[l] \in Checking
          BY <1>0, <2>1, Zenon
        <5> QED
          BY <5>1, Zenon DEF LoopInv, Placed
      <4> QED
        BY <2>1, <2>3, <3>2, <3>3, <4>1, Zenon DEF Placed
    <3>5. \A k \in Loops : k # l /\ loop[k] \in Checking => cur'[l] # cur[k]
      BY <1>0, <2>1, <2>3, Zenon DEF LoopInv, Apart
    <3> QED
      BY <2>1, <2>3, <3>1, <3>2, <3>4, <3>5, OneLoop, Zenon
  <2> QED
    BY <1>4, <2>2, <2>3, Zenon DEF MaxRead
<1>5. ASSUME NEW l \in Loops, MaxTake(l) \/ RateKnown(l) \/ RateNew(l) \/ OtherAllow(l) PROVE LoopInv'
  <2>1. loop[l] \in {"allow", "max"} /\ state' = state
    BY <1>5, Zenon DEF MaxTake, RateKnown, RateNew, OtherAllow, Calling
  <2>2. PICK ok : Result(l, ok)
    BY <1>5, Zenon DEF MaxTake, RateKnown, RateNew, OtherAllow
  <2> QED
    BY <1>0, <2>1, <2>2, ResultKeeps, Zenon
<1>6. ASSUME NEW c \in Conns, HandlerCleanup(c) \/ HandlerClose(c) PROVE LoopInv'
  <2>1. /\ state[c] \in {"handled", "cleaned"} /\ UNCHANGED <<loop, cur, i, any>>
        /\ \/ state' = [state EXCEPT ![c] = "cleaned"]
           \/ state' = [state EXCEPT ![c] = "closed"]
    BY <1>6, Zenon DEF HandlerCleanup, HandlerClose, loopVars
  <2>2. LoopType'
    BY <2>1, Zenon DEF LoopInv, LoopType
  <2>3. \A d \in Conns : state[d] = "checked" => state'[d] = "checked"
    <3>1. state[c] # "checked"
      BY <2>1
    <3> QED
      BY <2>1, <3>1, Zenon DEF LoopInv, LoopType
  <2>4. (\A l \in Loops : Placed(l)') /\ Apart'
    <3>1. ASSUME NEW l \in Loops PROVE Placed(l)'
      <4>1. loop' = loop /\ cur' = cur /\ i' = i /\ Placed(l)
        BY <2>1, Zenon DEF LoopInv
      <4> QED
        BY <2>3, <4>1, Zenon DEF Placed
    <3>2. Apart'
      BY <2>1, Zenon DEF LoopInv, Apart
    <3> QED
      BY <3>1, <3>2, Zenon
  <2> QED
    BY <2>2, <2>4, Zenon DEF LoopInv
<1>7. ASSUME UNCHANGED <<loopVars, state>> PROVE LoopInv'
  <2>1. UNCHANGED <<loop, cur, i, any, state>>
    BY <1>7, Zenon DEF loopVars
  <2>2. LoopType' /\ Apart'
    BY <2>1, Zenon DEF LoopInv, LoopType, Apart
  <2>3. \A l \in Loops : Placed(l)'
    BY <2>1, Zenon DEF LoopInv, Placed
  <2> QED
    BY <2>2, <2>3, Zenon DEF LoopInv
<1>8. ASSUME NEW p \in IPs, Refill(p) PROVE LoopInv'
  BY <1>7, <1>8, Zenon DEF Refill
<1>9. CASE UNCHANGED vars
  BY <1>7, <1>9, Zenon DEF vars
<1> QED
  BY <1>1, <1>2, <1>3, <1>4, <1>5, <1>6, <1>8, <1>9, Zenon DEF Next, Loop

-----------------------------------------------------------------------------
(* Max.  The count is that of the slots that clean-ups hold, also those of *)
(* clean-ups that were dropped.                                            *)

\* The slots of a set of connections, which Slots counts.
HeldBy(f, cs) == UNION {{c} \X (1..f[c]) : c \in cs}
Held(cs) == HeldBy(cleanup, cs)

Has(f, cs, x) == \E c \in cs : \E n \in 1..f[c] : x = <<c, n>>

MaxInv ==
  /\ SlotType /\ IsFiniteSet(Held(Conns)) /\ conns = Cardinality(Held(Conns))
  /\ MaxConns < 0 => conns = 0
  /\ MaxConns >= 0 => conns <= MaxConns

\* What is among the slots.
LEMMA AmongHeld ==
  ASSUME NEW f, NEW cs, NEW x
  PROVE  x \in HeldBy(f, cs) <=> Has(f, cs, x)
<1>1. \A c, S : x \in {c} \X S <=> \E n \in S : x = <<c, n>>
  BY SMT
<1>2. x \in HeldBy(f, cs) <=> \E c \in cs : x \in {c} \X (1..f[c])
  BY Zenon DEF HeldBy
<1>3. \A c : x \in {c} \X (1..f[c]) <=> \E n \in 1..f[c] : x = <<c, n>>
  BY <1>1, Zenon
<1> QED
  BY <1>2, <1>3, Zenon DEF Has

\* A slot is taken under the write lock (MaxTake).
LEMMA SlotTaken ==
  ASSUME SlotType, IsFiniteSet(Held(Conns)), NEW c \in Conns,
         cleanup' = [cleanup EXCEPT ![c] = @ + 1]
  PROVE  /\ IsFiniteSet(Held(Conns)') /\ Cardinality(Held(Conns)') = Cardinality(Held(Conns)) + 1
<1> DEFINE n == cleanup[c] + 1
           H == Held(Conns)
<1>1. cleanup[c] \in Nat /\ n \notin 1..cleanup[c] /\ cleanup'[c] = n
  BY DEF SlotType
<1>2. 1..n = (1..cleanup[c]) \cup {n}
  BY <1>1
<1>3. \A d \in Conns : d # c => cleanup'[d] = cleanup[d]
  BY Zenon DEF SlotType
<1> HIDE DEF n
<1>4. <<c, n>> \notin H
  <2>1. \A d, m : <<c, n>> = <<d, m>> => c = d /\ n = m
    OBVIOUS
  <2> QED
    <3>1. <<c, n>> \in H <=> Has(cleanup, Conns, <<c, n>>)
      BY AmongHeld, Zenon DEF Held
    <3>2. ~ Has(cleanup, Conns, <<c, n>>)
      BY <1>1, <2>1, Zenon DEF Has
    <3> QED
      BY <3>1, <3>2, Zenon
<1>5. ASSUME NEW x PROVE x \in Held(Conns)' <=> x \in H \cup {<<c, n>>}
  <2>1. ASSUME NEW d \in Conns, d # c
        PROVE  (\E m \in 1..cleanup'[d] : x = <<d, m>>) <=> (\E m \in 1..cleanup[d] : x = <<d, m>>)
    BY <1>3, <2>1, Zenon
  <2>2. (\E m \in 1..cleanup'[c] : x = <<c, m>>)
          <=> (\E m \in 1..cleanup[c] : x = <<c, m>>) \/ x = <<c, n>>
    BY <1>1, <1>2, Zenon
  <2>3. x \in Held(Conns)' <=> \E d \in Conns : \E m \in 1..cleanup'[d] : x = <<d, m>>
    <3>1. x \in Held(Conns)' <=> Has(cleanup', Conns, x)
      BY AmongHeld, Zenon DEF Held
    <3> QED
      BY <3>1, Zenon DEF Has
  <2>4. x \in H <=> \E d \in Conns : \E m \in 1..cleanup[d] : x = <<d, m>>
    <3>1. x \in H <=> Has(cleanup, Conns, x)
      BY AmongHeld, Zenon DEF Held
    <3> QED
      BY <3>1, Zenon DEF Has
  <2> HIDE DEF H
  <2> QED
    BY <2>1, <2>2, <2>3, <2>4, Zenon
<1>6. Held(Conns)' = H \cup {<<c, n>>}
  BY <1>5, Zenon
<1> QED
  BY <1>4, <1>6, FS_AddElement, ZenonT(60)

\* The slots of a connection are given back when its handler returns.
LEMMA SlotsGiven ==
  ASSUME SlotType, IsFiniteSet(Held(Conns)), NEW c \in Conns,
         cleanup' = [cleanup EXCEPT ![c] = 0]
  PROVE  /\ IsFiniteSet(Held(Conns)')
         /\ Cardinality(Held(Conns)') = Cardinality(Held(Conns)) - cleanup[c]
<1> DEFINE T == {c} \X (1..cleanup[c])
           H == Held(Conns)
<1>1. cleanup[c] \in Nat /\ cleanup'[c] = 0 /\ 1..0 = {}
  BY DEF SlotType
<1>2. IsFiniteSet(T) /\ Cardinality(T) = cleanup[c]
  <2>1. IsFiniteSet(1..cleanup[c]) /\ Cardinality(1..cleanup[c]) = cleanup[c]
    <3>1. 1 \in Int /\ cleanup[c] \in Int
      BY <1>1
    <3>2. /\ IsFiniteSet(1..cleanup[c])
          /\ Cardinality(1..cleanup[c]) = IF 1 > cleanup[c] THEN 0 ELSE cleanup[c] - 1 + 1
      BY <3>1, FS_Interval, ZenonT(60)
    <3> QED
      BY <1>1, <3>2
  <2>2. IsFiniteSet({c}) /\ Cardinality({c}) = 1
    BY FS_Singleton, ZenonT(60)
  <2>3. IsFiniteSet(T) /\ Cardinality(T) = Cardinality({c}) * Cardinality(1..cleanup[c])
    BY <2>1, <2>2, FS_Product, ZenonT(60)
  <2> HIDE DEF T
  <2>4. 1 * cleanup[c] = cleanup[c]
    BY <1>1
  <2> QED
    BY <2>1, <2>2, <2>3, <2>4, Zenon
<1>3. \A d \in Conns : d # c => cleanup'[d] = cleanup[d]
  BY Zenon DEF SlotType
<1>4. ASSUME NEW x PROVE (x \in T <=> \E m \in 1..cleanup[c] : x = <<c, m>>)
  BY SMT
<1>5. H \cap T = T
  <2> HIDE DEF T
  <2> QED
    BY <1>4, AmongHeld, Zenon DEF Held, Has
<1> HIDE DEF T
<1>6. ASSUME NEW x PROVE x \in Held(Conns)' <=> x \in H \ T
  <2>1. ASSUME NEW d \in Conns, d # c
        PROVE  (\E m \in 1..cleanup'[d] : x = <<d, m>>) <=> (\E m \in 1..cleanup[d] : x = <<d, m>>)
    BY <1>3, <2>1, Zenon
  <2>2. ~ \E m \in 1..cleanup'[c] : x = <<c, m>>
    BY <1>1, Zenon
  <2>3. x \in Held(Conns)' <=> \E d \in Conns : \E m \in 1..cleanup'[d] : x = <<d, m>>
    <3>1. x \in Held(Conns)' <=> Has(cleanup', Conns, x)
      BY AmongHeld, Zenon DEF Held
    <3> QED
      BY <3>1, Zenon DEF Has
  <2>4. x \in H <=> \E d \in Conns : \E m \in 1..cleanup[d] : x = <<d, m>>
    <3>1. x \in H <=> Has(cleanup, Conns, x)
      BY AmongHeld, Zenon DEF Held
    <3> QED
      BY <3>1, Zenon DEF Has
  <2>5. ASSUME NEW d, d # c, NEW m, x = <<d, m>> PROVE x \notin T
    <3>1. \A k : <<d, m>> # <<c, k>>
      BY <2>5
    <3> QED
      BY <1>4, <2>5, <3>1, Zenon
  <2> HIDE DEF H
  <2>6. ASSUME x \in Held(Conns)' PROVE x \in H /\ x \notin T
    BY <2>1, <2>2, <2>3, <2>4, <2>5, <2>6, Zenon
  <2>7. ASSUME x \in H, x \notin T PROVE x \in Held(Conns)'
    BY <1>4, <2>1, <2>3, <2>4, <2>7, Zenon
  <2> QED
    BY <2>6, <2>7, Zenon
<1>7. Held(Conns)' = H \ T
  BY <1>6, Zenon
<1>8. IsFiniteSet(H \ T) /\ Cardinality(H \ T) = Cardinality(H) - Cardinality(H \cap T)
  BY FS_Difference, ZenonT(60)
<1> QED
  BY <1>2, <1>5, <1>7, <1>8, Zenon

\* The count stays exact and within its bound.
LEMMA MaxStep == LoopInv /\ MaxInv /\ [Next]_vars => MaxInv'
<1> SUFFICES ASSUME LoopInv, MaxInv, [Next]_vars PROVE MaxInv'
  BY Zenon
<1>0. /\ SlotType /\ IsFiniteSet(Held(Conns)) /\ conns = Cardinality(Held(Conns)) /\ conns \in Nat
      /\ MaxConns \in Int
  BY ListenerConstants, Zenon DEF MaxInv, SlotType
<1>1. ASSUME UNCHANGED <<conns, cleanup>> PROVE MaxInv'
  BY <1>1, Zenon DEF MaxInv, SlotType, Held
<1>2. ASSUME NEW l \in Loops, MaxTake(l) PROVE MaxInv'
  <2>1. cur[l] \in Conns
    <3>1. loop[l] \in Checking
      BY <1>2, Zenon DEF MaxTake, Checking
    <3> QED
      BY <3>1, Zenon DEF LoopInv, Placed
  <2>2. cleanup[cur[l]] \in Nat
    BY <1>0, <2>1, Zenon DEF SlotType
  <2>3. CASE conns < MaxConns
    <3>1. conns' = conns + 1 /\ cleanup' = [cleanup EXCEPT ![cur[l]] = @ + 1]
      BY <1>2, <2>3, Zenon DEF MaxTake
    <3>2. IsFiniteSet(Held(Conns)') /\ Cardinality(Held(Conns)') = Cardinality(Held(Conns)) + 1
      BY <1>0, <2>1, <3>1, SlotTaken, Zenon
    <3>3. cleanup[cur[l]] + 1 \in Nat /\ conns + 1 \in Nat /\ conns + 1 <= MaxConns /\ ~(MaxConns < 0)
      BY <1>0, <2>2, <2>3
    <3>4. SlotType'
      BY <1>0, <2>1, <3>1, <3>3, Zenon DEF SlotType
    <3> QED
      BY <1>0, <3>1, <3>2, <3>3, <3>4, Zenon DEF MaxInv
  <2>4. CASE ~(conns < MaxConns)
    <3>1. conns' = conns + 0 /\ cleanup' = [cleanup EXCEPT ![cur[l]] = @ + 0]
      BY <1>2, <2>4, Zenon DEF MaxTake
    <3>2. conns + 0 = conns /\ cleanup[cur[l]] + 0 = cleanup[cur[l]]
      BY <1>0, <2>2
    <3>3. conns' = conns /\ cleanup' = cleanup
      BY <1>0, <2>1, <3>1, <3>2, Zenon DEF SlotType
    <3> QED
      BY <1>1, <3>3, Zenon
  <2> QED
    BY <2>3, <2>4, Zenon
<1>3. ASSUME NEW c \in Conns, HandlerCleanup(c) PROVE MaxInv'
  <2>1. conns' = conns - cleanup[c] /\ cleanup' = [cleanup EXCEPT ![c] = 0] /\ cleanup[c] \in Nat
    BY <1>0, <1>3, Zenon DEF HandlerCleanup, SlotType
  <2>2. IsFiniteSet(Held(Conns)') /\ Cardinality(Held(Conns)') = Cardinality(Held(Conns)) - cleanup[c]
    BY <1>0, <2>1, SlotsGiven, Zenon
  <2>3. conns' = Cardinality(Held(Conns)') /\ conns' \in Nat
    <3>1. conns' = Cardinality(Held(Conns)')
      BY <1>0, <2>1, <2>2, Zenon
    <3> QED
      BY <2>2, <3>1, FS_CardinalityType, ZenonT(60)
  <2>4. SlotType'
    <3>1. 0 \in Nat
      OBVIOUS
    <3> QED
      BY <1>0, <2>1, <2>3, <3>1, Zenon DEF SlotType
  <2>5. (MaxConns < 0 => conns' = 0) /\ (MaxConns >= 0 => conns' <= MaxConns)
    <3>1. (MaxConns < 0 => conns = 0) /\ (MaxConns >= 0 => conns <= MaxConns)
      BY Zenon DEF MaxInv
    <3>2. conns' = conns - cleanup[c] /\ conns' \in Nat /\ cleanup[c] \in Nat
      BY <2>1, <2>3, Zenon
    <3> QED
      BY <1>0, <3>1, <3>2
  <2> QED
    BY <2>2, <2>3, <2>4, <2>5, Zenon DEF MaxInv
<1>4. ASSUME NEW l \in Loops,
             \/ \E c \in Conns : AcceptConn(l, c)
             \/ Return(l) \/ Handle(l) \/ Reject(l) \/ OtherAllow(l) \/ MaxRead(l)
             \/ RateKnown(l) \/ RateNew(l)
      PROVE  MaxInv'
  BY <1>1, <1>4, Zenon
     DEF AcceptConn, Return, Handle, Reject, OtherAllow, MaxRead, RateKnown, RateNew
<1>5. ASSUME NEW c \in Conns, HandlerClose(c) PROVE MaxInv'
  BY <1>1, <1>5, Zenon DEF HandlerClose
<1>6. ASSUME NEW p \in IPs, Refill(p) PROVE MaxInv'
  BY <1>1, <1>6, Zenon DEF Refill
<1>7. CASE UNCHANGED vars
  BY <1>1, <1>7, Zenon DEF vars
<1> QED
  BY <1>2, <1>3, <1>4, <1>5, <1>6, <1>7, Zenon DEF Next, Loop

\* At first no loop has a connection, and no slot is taken.
LEMMA AtFirst == Init => LoopInv /\ MaxInv
<1> SUFFICES ASSUME Init PROVE LoopInv /\ MaxInv
  BY Zenon
<1>1. /\ "accept" \notin Checking /\ "accept" # "max" /\ "accept" # "failed" /\ 1 \in Nat \ {0} /\ 0 \in Nat
      /\ FALSE \in BOOLEAN
  BY DEF Checking
<1>2. LoopType
  BY <1>1, Zenon DEF Init, LoopType
<1>3. \A l \in Loops : loop[l] = "accept"
  BY Zenon DEF Init
<1>4. LoopInv
  BY <1>1, <1>2, <1>3, Zenon DEF LoopInv, Placed, Apart
<1>5. \A c \in Conns : cleanup[c] = 0
  BY Zenon DEF Init
<1>6. Held(Conns) = {}
  <2>1. \A x : ~ Has(cleanup, Conns, x)
    <3>1. 1..0 = {}
      OBVIOUS
    <3> QED
      BY <1>5, <3>1, Zenon DEF Has
  <2>2. \A x : x \notin Held(Conns)
    BY <2>1, AmongHeld, Zenon DEF Held
  <2> QED
    BY <2>2, Zenon
<1>7. IsFiniteSet({}) /\ Cardinality({}) = 0
  BY FS_EmptySet, ZenonT(60)
<1>8. SlotType /\ conns = 0
  BY <1>1, Zenon DEF Init, SlotType
<1>9. MaxConns >= 0 => 0 <= MaxConns
  BY ListenerConstants
<1> QED
  BY <1>4, <1>6, <1>7, <1>8, <1>9, Zenon DEF MaxInv

\* The slots of some connections are no more than those of all.
LEMMA FewerHeld ==
  ASSUME MaxInv, NEW cs \in SUBSET Conns
  PROVE  Slots(cs) \in Nat /\ Slots(cs) <= conns
<1>1. Slots(cs) = Cardinality(Held(cs)) /\ IsFiniteSet(Held(Conns)) /\ conns = Cardinality(Held(Conns))
  BY Zenon DEF Slots, Held, HeldBy, MaxInv
<1>2. Held(cs) \subseteq Held(Conns)
  BY Zenon DEF Held, HeldBy
<1>3. IsFiniteSet(Held(cs)) /\ Cardinality(Held(cs)) <= Cardinality(Held(Conns))
  BY <1>1, <1>2, FS_Subset, ZenonT(60)
<1>4. Cardinality(Held(cs)) \in Nat
  BY <1>3, FS_CardinalityType, ZenonT(60)
<1> QED
  BY <1>1, <1>3, <1>4, Zenon

\* Max (policy/allow.go): loops that race for the last slot never hold more than MaxConns
\* of them, for any number of loops and any combination of policies.
THEOREM AtMostHolds == Spec => []AtMost
<1>1. LoopInv /\ MaxInv /\ [Next]_vars => (LoopInv /\ MaxInv)'
  BY LoopStep, MaxStep, Zenon
<1>2. MaxInv => AtMost
  <2> DEFINE S == {c \in Conns : state[c] \in {"checked", "handled"}}
  <2> SUFFICES ASSUME MaxInv, MaxConns >= 0 PROVE Slots(S) <= MaxConns
    BY Zenon DEF AtMost
  <2>1. Slots(S) \in Nat /\ Slots(S) <= conns
    BY FewerHeld, Zenon
  <2>2. conns <= MaxConns /\ conns \in Nat /\ MaxConns \in Int
    BY ListenerConstants, Zenon DEF MaxInv, SlotType
  <2> HIDE DEF S
  <2> QED
    BY <2>1, <2>2
<1> QED
  BY <1>1, <1>2, AtFirst, PTL DEF Spec

-----------------------------------------------------------------------------
(* Slots that are given back.  The clean-up that comes with an error is    *)
(* dropped, so an All that calls another function after Max loses slots.   *)

\* A loop that has taken a slot will not reject the connection, or it is a leaky one.
Passing(l) ==
  loop[l] \in Checking /\ cleanup[cur[l]] # 0 =>
    \/ Mode[l] = "any" /\ any[l]
    \/ Mode[l] = "all" /\ loop[l] = "allow" /\ i[l] > Len(Policies[l])
    \/ l \in Leaky

\* The connections that leaky loops have closed while they held slots.
Dropped == UNION {leaked[l] : l \in Leaky}

Unheld ==
  \A c \in Conns : state[c] \in {"new", "cleaned", "closed"} /\ cleanup[c] # 0 =>
    state[c] = "closed" /\ c \in Dropped

SlotInv ==
  /\ leaked \in [Loops -> SUBSET Conns] /\ Unheld
  /\ \A l \in Loops : Passing(l)

\* A loop whose connection holds no slot, or that keeps what it has passed.
LEMMA OnePassing ==
  ASSUME SlotInv, LoopInv, Unheld', leaked' \in [Loops -> SUBSET Conns],
         NEW l \in Loops, Passing(l)',
         \A k \in Loops : k # l =>
           /\ loop'[k] = loop[k] /\ cur'[k] = cur[k] /\ i'[k] = i[k] /\ any'[k] = any[k]
           /\ loop[k] \in Checking => cleanup'[cur[k]] = cleanup[cur[k]]
  PROVE  SlotInv'
<1>1. ASSUME NEW k \in Loops PROVE Passing(k)'
  <2>1. CASE k = l
    BY <2>1, Zenon
  <2>2. CASE k # l
    <3>1. /\ loop'[k] = loop[k] /\ cur'[k] = cur[k] /\ i'[k] = i[k] /\ any'[k] = any[k] /\ Passing(k)
          /\ loop[k] \in Checking => cleanup'[cur[k]] = cleanup[cur[k]]
      BY <2>2, Zenon DEF SlotInv
    <3> QED
      BY <3>1, Zenon DEF Passing
  <2> QED
    BY <2>1, <2>2, Zenon
<1> QED
  BY <1>1, Zenon DEF SlotInv

\* A function other than Max, or a Max that takes no slot, has its result.
LEMMA ResultPassing ==
  ASSUME SlotInv, LoopInv, NEW l \in Loops, loop[l] \in Checking, NEW ok, Result(l, ok),
         state' = state, cleanup' = cleanup, leaked' = leaked,
         ~(loop[l] = "allow" /\ i[l] > Len(Policies[l]))
  PROVE  SlotInv'
<1>1. Unheld' /\ leaked' \in [Loops -> SUBSET Conns]
  BY Zenon DEF SlotInv, Unheld, Dropped
<1>2. /\ cur' = cur /\ any'[l] = (any[l] \/ ok)
      /\ \A k \in Loops : k # l => loop'[k] = loop[k] /\ i'[k] = i[k] /\ any'[k] = any[k]
  BY Zenon DEF Result, LoopInv, LoopType
<1>3. cleanup[cur[l]] # 0 => (Mode[l] = "any" /\ any[l]) \/ l \in Leaky
  BY Zenon DEF SlotInv, Passing
<1>4. Passing(l)'
  BY <1>2, <1>3, Zenon DEF Passing
<1> QED
  BY <1>1, <1>2, <1>4, OnePassing, Zenon

\* A loop takes its slot (MaxTake).
LEMMA TakePassing ==
  ASSUME SlotInv, LoopInv, MaxInv, NEW l \in Loops, MaxTake(l)
  PROVE  SlotInv'
<1> DEFINE c == cur[l]
           ok == conns < MaxConns
           n == IF ok THEN 1 ELSE 0
<1>1. /\ loop[l] = "max" /\ loop[l] \in Checking /\ Result(l, ok) /\ state' = state
      /\ leaked' = leaked /\ cleanup' = [cleanup EXCEPT ![c] = @ + n]
  BY Zenon DEF MaxTake, Checking
<1>2. /\ c \in Conns /\ state[c] = "checked"
      /\ i[l] <= Len(Policies[l]) /\ Policies[l][i[l]] = "max"
  BY <1>1, Zenon DEF LoopInv, Placed
<1>3. i[l] \in Nat \ {0} /\ Mode[l] \in {"all", "any"} /\ cleanup[c] \in Nat /\ Policies[l] \in Seq({"max", "rate", "other"})
  BY <1>2, ListenerConstants, Zenon DEF LoopInv, LoopType, MaxInv, SlotType
<1> HIDE DEF n, c, ok
<1>4. /\ cleanup'[c] = cleanup[c] + n /\ \A d \in Conns : d # c => cleanup'[d] = cleanup[d]
  BY <1>1, <1>2, Zenon DEF MaxInv, SlotType
<1>5. Unheld' /\ leaked' \in [Loops -> SUBSET Conns]
  <2>1. state[c] \notin {"new", "cleaned", "closed"}
    BY <1>2
  <2> QED
    BY <1>1, <1>4, <2>1, Zenon DEF SlotInv, Unheld, Dropped
<1>6. /\ cur' = cur /\ any'[l] = (any[l] \/ ok) /\ i'[l] = i[l] + 1
      /\ loop'[l] = IF ok \/ Mode[l] = "any" THEN "allow" ELSE "failed"
      /\ \A k \in Loops : k # l => loop'[k] = loop[k] /\ i'[k] = i[k] /\ any'[k] = any[k]
  BY <1>1, Zenon DEF Result, LoopInv, LoopType
<1>7. \A k \in Loops : k # l /\ loop[k] \in Checking => cur[k] \in Conns /\ cur[k] # c
  BY <1>1, Zenon DEF LoopInv, Apart, Placed, c
<1>8. Passing(l)'
  <2>1. CASE Mode[l] = "any"
    <3>1. CASE ok
      BY <1>6, <2>1, <3>1, Zenon DEF Passing
    <3>2. CASE ~ok
      <4>1. cleanup'[c] = cleanup[c]
        BY <1>3, <1>4, <3>2 DEF n
      <4>2. cleanup[c] # 0 => any[l] \/ l \in Leaky
        <5>1. "any" # "all"
          OBVIOUS
        <5> QED
          BY <1>1, <2>1, <5>1, Zenon DEF SlotInv, Passing, c
      <4> QED
        BY <1>6, <2>1, <4>1, <4>2, Zenon DEF Passing, c
    <3> QED
      BY <3>1, <3>2, Zenon
  <2>2. CASE Mode[l] = "all"
    <3>1. cleanup[c] # 0 => l \in Leaky
      <4>1. "any" # "all" /\ "max" # "allow"
        OBVIOUS
      <4> QED
        BY <1>1, <2>2, <4>1, Zenon DEF SlotInv, Passing, c
    <3>2. CASE ok
      <4>1. i[l] = Len(Policies[l]) \/ l \in Leaky
        <5>1. i[l] = Len(Policies[l]) \/ i[l] \in 1..(Len(Policies[l]) - 1)
          BY <1>2, <1>3
        <5> QED
          BY <1>2, <2>2, <5>1, Zenon DEF Leaky
      <4>2. i[l] + 1 > Len(Policies[l]) \/ l \in Leaky
        BY <1>3, <4>1
      <4> QED
        BY <1>6, <2>2, <3>2, <4>2, Zenon DEF Passing
    <3>3. CASE ~ok
      <4>1. cleanup'[c] # 0 => l \in Leaky
        BY <1>3, <1>4, <3>1, <3>3 DEF n
      <4> QED
        BY <1>6, <4>1, Zenon DEF Passing, c
    <3> QED
      BY <3>2, <3>3, Zenon
  <2> QED
    BY <1>3, <2>1, <2>2, Zenon
<1>9. \A k \in Loops : k # l /\ loop[k] \in Checking => cleanup'[cur[k]] = cleanup[cur[k]]
  BY <1>4, <1>7, Zenon
<1> QED
  BY <1>5, <1>6, <1>8, <1>9, OnePassing, Zenon

\* Slots are given back, whichever step is taken.
LEMMA SlotStep ==
  LoopInv /\ MaxInv /\ SlotInv /\ [Next]_vars => SlotInv'
<1> SUFFICES ASSUME LoopInv, MaxInv, SlotInv, [Next]_vars PROVE SlotInv'
  BY Zenon
<1>0. /\ "allow" \in Checking /\ "max" \in Checking /\ "failed" \in Checking
      /\ "accept" \notin Checking /\ "returned" \notin Checking
  BY DEF Checking
<1>1. ASSUME NEW l \in Loops, NEW c \in Conns, AcceptConn(l, c) PROVE SlotInv'
  <2>1. /\ state[c] = "new" /\ loop' = [loop EXCEPT ![l] = "allow"]
        /\ cur' = [cur EXCEPT ![l] = c] /\ i' = [i EXCEPT ![l] = 1] /\ any' = [any EXCEPT ![l] = FALSE]
        /\ state' = [state EXCEPT ![c] = "checked"] /\ cleanup' = cleanup /\ leaked' = leaked
    BY <1>1, Zenon DEF AcceptConn
  <2>2. cleanup[c] = 0
    <3>1. "new" # "closed"
      OBVIOUS
    <3> QED
      BY <2>1, <3>1, Zenon DEF SlotInv, Unheld
  <2>3. Unheld' /\ leaked' \in [Loops -> SUBSET Conns]
    BY <2>1, <2>2, Zenon DEF SlotInv, Unheld, Dropped, LoopInv, LoopType
  <2>4. /\ cur'[l] = c
        /\ \A k \in Loops : k # l => /\ loop'[k] = loop[k] /\ cur'[k] = cur[k] /\ i'[k] = i[k]
                                     /\ any'[k] = any[k]
    BY <2>1, Zenon DEF LoopInv, LoopType
  <2>5. Passing(l)'
    BY <2>1, <2>2, <2>4, Zenon DEF Passing
  <2> QED
    BY <2>1, <2>3, <2>4, <2>5, OnePassing, Zenon
<1>2. ASSUME NEW l \in Loops, Return(l) PROVE SlotInv'
  <2>1. loop' = [loop EXCEPT ![l] = "returned"] /\ UNCHANGED <<cur, i, any, state, cleanup, leaked>>
    BY <1>2, Zenon DEF Return
  <2>2. loop'[l] = "returned" /\ \A k \in Loops : k # l => loop'[k] = loop[k]
    BY <2>1, Zenon DEF LoopInv, LoopType
  <2>3. Unheld' /\ Passing(l)' /\ leaked' \in [Loops -> SUBSET Conns]
    BY <1>0, <2>1, <2>2, Zenon DEF SlotInv, Unheld, Dropped, Passing
  <2> QED
    BY <2>1, <2>2, <2>3, OnePassing, Zenon
<1>3. ASSUME NEW l \in Loops, Handle(l) \/ Reject(l) PROVE SlotInv'
  <2>1. /\ loop[l] \in Checking /\ loop' = [loop EXCEPT ![l] = "accept"]
        /\ cur' = [cur EXCEPT ![l] = NoConn] /\ UNCHANGED <<i, any, cleanup>>
    BY <1>0, <1>3, Zenon DEF Handle, Reject
  <2>2. cur[l] \in Conns
    BY <2>1, Zenon DEF LoopInv, Placed
  <2>3. /\ loop'[l] = "accept"
        /\ \A k \in Loops : k # l => loop'[k] = loop[k] /\ cur'[k] = cur[k]
    BY <2>1, Zenon DEF LoopInv, LoopType
  <2>4. Passing(l)'
    BY <1>0, <2>3, Zenon DEF Passing
  <2>5. Unheld' /\ leaked' \in [Loops -> SUBSET Conns]
    <3>1. CASE Handle(l)
      <4>1. state' = [state EXCEPT ![cur[l]] = "handled"] /\ leaked' = leaked
        BY <3>1, Zenon DEF Handle
      <4> QED
        BY <2>1, <2>2, <4>1, Zenon DEF SlotInv, Unheld, Dropped, LoopInv, LoopType
    <3>2. CASE Reject(l)
      <4>1. /\ state' = [state EXCEPT ![cur[l]] = "closed"]
            /\ leaked' = [leaked EXCEPT ![l] = IF cleanup[cur[l]] > 0 THEN @ \cup {cur[l]} ELSE @]
        BY <3>2, Zenon DEF Reject
      <4>2. cleanup[cur[l]] # 0 => l \in Leaky
        <5>1. CASE loop[l] = "failed"
          <6>1. Mode[l] = "all" /\ "all" # "any" /\ "failed" # "allow"
            BY <5>1, Zenon DEF LoopInv, Placed
          <6> QED
            BY <2>1, <5>1, <6>1, Zenon DEF SlotInv, Passing
        <5>2. CASE Mode[l] = "any" /\ ~any[l]
          <6>1. "all" # "any"
            OBVIOUS
          <6> QED
            BY <2>1, <5>2, <6>1, Zenon DEF SlotInv, Passing
        <5> QED
          BY <3>2, <5>1, <5>2, Zenon DEF Reject
      <4>3. cleanup[cur[l]] # 0 => cleanup[cur[l]] > 0
        BY <2>2 DEF MaxInv, SlotType
      <4>4. /\ leaked' \in [Loops -> SUBSET Conns]
            /\ \A k \in Loops : leaked[k] \subseteq leaked'[k]
            /\ cleanup[cur[l]] # 0 => cur[l] \in leaked'[l]
        BY <2>2, <4>1, <4>3 DEF SlotInv
      <4>5. Leaky \subseteq Loops
        BY Zenon DEF Leaky
      <4>6. Dropped \subseteq Dropped' /\ (cleanup[cur[l]] # 0 => cur[l] \in Dropped')
        BY <4>2, <4>4, <4>5, Zenon DEF Dropped, Leaky
      <4>7. state'[cur[l]] = "closed" /\ \A c \in Conns : c # cur[l] => state'[c] = state[c]
        BY <2>2, <4>1, Zenon DEF LoopInv, LoopType
      <4>8. Unheld'
        BY <2>1, <4>6, <4>7, Zenon DEF SlotInv, Unheld
      <4> QED
        BY <4>4, <4>8, Zenon
    <3> QED
      BY <1>3, <3>1, <3>2, Zenon
  <2> QED
    BY <2>1, <2>3, <2>4, <2>5, OnePassing, Zenon
<1>4. ASSUME NEW l \in Loops, loop[l] = "allow", i[l] <= Len(Policies[l]),
             UNCHANGED <<state, cleanup, leaked>>, NEW ok, Result(l, ok)
      PROVE  SlotInv'
  <2>1. ~(i[l] > Len(Policies[l]))
    <3>1. i[l] \in Nat /\ Len(Policies[l]) \in Nat
      BY ListenerConstants DEF LoopInv, LoopType
    <3> QED
      BY <1>4, <3>1
  <2>2. loop[l] \in Checking
    BY <1>0, <1>4, Zenon
  <2> QED
    BY <1>4, <2>1, <2>2, ResultPassing, Zenon
<1>5. ASSUME NEW l \in Loops, MaxRead(l) PROVE SlotInv'
  <2>1. loop[l] = "allow" /\ i[l] <= Len(Policies[l]) /\ UNCHANGED <<state, cleanup, leaked>>
    BY <1>5, Zenon DEF MaxRead, Calling
  <2>2. CASE Result(l, MaxConns < 0)
    BY <1>4, <2>1, <2>2, Zenon
  <2>3. CASE loop' = [loop EXCEPT ![l] = "max"] /\ UNCHANGED <<cur, i, any>>
    <3>1. \A k \in Loops : k # l => loop'[k] = loop[k]
      BY <2>3, Zenon DEF LoopInv, LoopType
    <3>2. cleanup[cur[l]] # 0 => (Mode[l] = "any" /\ any[l]) \/ l \in Leaky
      <4>1. ~(i[l] > Len(Policies[l]))
        <5>1. i[l] \in Nat /\ Len(Policies[l]) \in Nat
          BY ListenerConstants DEF LoopInv, LoopType
        <5> QED
          BY <2>1, <5>1
      <4>2. loop[l] \in Checking
        BY <1>0, <2>1, Zenon
      <4> QED
        BY <4>1, <4>2, Zenon DEF SlotInv, Passing
    <3>3. Unheld' /\ Passing(l)' /\ leaked' \in [Loops -> SUBSET Conns]
      BY <2>1, <2>3, <3>2, Zenon DEF SlotInv, Unheld, Dropped, Passing
    <3> QED
      BY <2>1, <2>3, <3>1, <3>3, OnePassing, Zenon
  <2> QED
    BY <1>5, <2>2, <2>3, Zenon DEF MaxRead
<1>6. ASSUME NEW l \in Loops, RateKnown(l) \/ RateNew(l) \/ OtherAllow(l) PROVE SlotInv'
  <2>1. loop[l] = "allow" /\ i[l] <= Len(Policies[l]) /\ UNCHANGED <<state, cleanup, leaked>>
    BY <1>6, Zenon DEF RateKnown, RateNew, OtherAllow, Calling
  <2>2. PICK ok : Result(l, ok)
    BY <1>6, Zenon DEF RateKnown, RateNew, OtherAllow
  <2> QED
    BY <1>4, <2>1, <2>2, Zenon
<1>7. ASSUME NEW c \in Conns, HandlerCleanup(c) \/ HandlerClose(c) PROVE SlotInv'
  <2>1. /\ UNCHANGED <<loop, cur, i, any, leaked>> /\ state[c] \in {"handled", "cleaned"}
        /\ \/ state[c] = "handled" /\ cleanup' = [cleanup EXCEPT ![c] = 0]
           \/ state[c] = "cleaned" /\ cleanup' = cleanup
        /\ \/ state' = [state EXCEPT ![c] = "cleaned"]
           \/ state' = [state EXCEPT ![c] = "closed"]
    BY <1>7, Zenon DEF HandlerCleanup, HandlerClose, loopVars
  <2>2. /\ cleanup'[c] = 0 /\ \A d \in Conns : d # c => cleanup'[d] = cleanup[d]
    <3>1. "cleaned" # "closed"
      OBVIOUS
    <3> QED
      BY <2>1, <3>1, Zenon DEF SlotInv, Unheld, MaxInv, SlotType
  <2>3. \A d \in Conns : d # c => state'[d] = state[d]
    BY <2>1, Zenon DEF LoopInv, LoopType
  <2>4. Unheld' /\ leaked' \in [Loops -> SUBSET Conns]
    BY <2>1, <2>2, <2>3, Zenon DEF SlotInv, Unheld, Dropped
  <2>5. \A l \in Loops : loop[l] \in Checking => cur[l] \in Conns /\ cur[l] # c
    <3>1. state[c] # "checked"
      BY <2>1
    <3>2. \A l \in Loops : loop[l] \in Checking => cur[l] \in Conns /\ state[cur[l]] = "checked"
      BY Zenon DEF LoopInv, Placed
    <3> QED
      BY <3>1, <3>2, Zenon
  <2>6. ASSUME NEW l \in Loops PROVE Passing(l)'
    <3>1. Passing(l) /\ (loop[l] \in Checking => cleanup'[cur[l]] = cleanup[cur[l]])
      BY <2>2, <2>5, Zenon DEF SlotInv
    <3> QED
      BY <2>1, <3>1, Zenon DEF Passing
  <2> QED
    BY <2>4, <2>6, Zenon DEF SlotInv
<1>8. ASSUME UNCHANGED <<loop, cur, i, any, state, cleanup, leaked>> PROVE SlotInv'
  BY <1>8, Zenon DEF SlotInv, Unheld, Dropped, Passing
<1>9. ASSUME NEW p \in IPs, Refill(p) PROVE SlotInv'
  BY <1>8, <1>9, Zenon DEF Refill, loopVars
<1>10. CASE UNCHANGED vars
  BY <1>8, <1>10, Zenon DEF vars, loopVars
<1> QED
  BY <1>1, <1>2, <1>3, <1>5, <1>6, <1>7, <1>9, <1>10, TakePassing, Zenon DEF Next, Loop

\* Max, All, Any and the accept loop: whatever functions the loops combine, and however
\* they race, the slots taken are those of connections that are not closed, and of those
\* that an All has filtered by a function that comes after Max.
THEOREM SlotsReturnedHolds == Spec => []SlotsReturned
<1> DEFINE Inv == LoopInv /\ MaxInv /\ SlotInv
<1>1. Init => Inv
  <2>1. Init => SlotInv
    <3> SUFFICES ASSUME Init PROVE SlotInv
      BY Zenon
    <3>1. \A c \in Conns : cleanup[c] = 0
      BY Zenon DEF Init
    <3>2. \A l \in Loops : loop[l] = "accept"
      BY Zenon DEF Init
    <3>3. "accept" \notin Checking
      BY DEF Checking
    <3>4. leaked \in [Loops -> SUBSET Conns]
      BY DEF Init
    <3> QED
      BY <3>1, <3>2, <3>3, <3>4, Zenon DEF SlotInv, Unheld, Passing
  <2> QED
    BY <2>1, AtFirst, Zenon
<1>2. Inv /\ [Next]_vars => Inv'
  BY LoopStep, MaxStep, SlotStep, Zenon
<1>3. Inv => SlotsReturned
  <2> SUFFICES ASSUME LoopInv, MaxInv, SlotInv PROVE SlotsReturned
    BY Zenon
  <2> DEFINE S == {c \in Conns : state[c] # "closed"} \cup Dropped
  <2>0. S \subseteq Conns
    BY Zenon DEF SlotInv, Dropped, Leaky
  <2>1. ASSUME NEW x, Has(cleanup, Conns, x) PROVE Has(cleanup, S, x)
    <3>1. PICK c \in Conns : \E n \in 1..cleanup[c] : x = <<c, n>>
      BY <2>1, Zenon DEF Has
    <3>2. cleanup[c] # 0
      <4>1. 1..0 = {}
        OBVIOUS
      <4> QED
        BY <3>1, <4>1, Zenon
    <3>3. c \in S
      BY <3>2, Zenon DEF SlotInv, Unheld
    <3> QED
      BY <3>1, <3>3, Zenon DEF Has
  <2>2. Held(S) = Held(Conns)
    <3>1. \A x : x \in Held(Conns) => x \in Held(S)
      BY <2>1, AmongHeld, Zenon DEF Held
    <3>2. Held(S) \subseteq Held(Conns)
      BY <2>0, Zenon DEF Held, HeldBy
    <3> QED
      BY <3>1, <3>2, Zenon
  <2>3. Slots(S) = Cardinality(Held(S)) /\ conns = Cardinality(Held(Conns))
    BY Zenon DEF Slots, Held, HeldBy, MaxInv
  <2> QED
    BY <2>2, <2>3, Zenon DEF SlotsReturned, Dropped
<1> QED
  BY <1>1, <1>2, <1>3, PTL DEF Spec

\* What Allow promises holds, for any loops, if no All calls a function after Max: every
\* connection that is closed, filtered or not, has given its slots back.
\* MCListener_filtered.cfg shows that this is needed.
THEOREM FilteredReturnedHolds == Spec => [](Leaky = {} => FilteredReturned)
<1>1. SlotsReturned => (Leaky = {} => FilteredReturned)
  <2> SUFFICES ASSUME SlotsReturned, Leaky = {} PROVE FilteredReturned
    BY Zenon
  <2>1. {c \in Conns : state[c] # "closed"} \cup UNION {leaked[l] : l \in Leaky}
          = {c \in Conns : state[c] # "closed"}
    BY Zenon
  <2> QED
    BY <2>1, Zenon DEF SlotsReturned, FilteredReturned
<1> QED
  BY <1>1, SlotsReturnedHolds, PTL

-----------------------------------------------------------------------------
(* RateLimit.                                                              *)

Half == Cap \div 2

\* The addresses that have a limiter in a map.
In(map) == {p \in IPs : map[p] >= 0}

RateType ==
  /\ front \in [IPs -> Int] /\ back \in [IPs -> Int] /\ refills \in Nat
  /\ passed \in [IPs -> Nat] /\ newer \in [IPs -> Nat]

\* The tokens of a limiter, in the front (f) or the back (b), and the n connections that
\* it has passed come from its burst and from the r tokens of time.  The k addresses of
\* the front are among the w that are newer than one of the back.
Balanced(f, b, n, w, r, k) ==
  /\ f >= 0 => f + n <= Burst + r /\ b < 0
  /\ b >= 0 => b + n <= Burst + r /\ k <= w
  /\ f < 0 /\ b < 0 /\ w <= Half => n = 0

Limited(p) ==
  Balanced(front[p], back[p], passed[p], newer[p], refills, Cardinality(In(front)))

\* The maps are finite and, if Cap/2 is not zero, of that size.
Sized ==
  /\ IsFiniteSet(In(front)) /\ IsFiniteSet(In(back))
  /\ Cap >= 2 => Cardinality(In(front)) <= Half /\ Cardinality(In(back)) <= Half

RateInv == RateType /\ Sized /\ \A p \in IPs : Limited(p)

\* Half of Cap.
LEMMA HalfOfCap == Half \in Nat /\ (Cap >= 2 => Half >= 1)
BY ListenerConstants DEF Half

\* limiter.Allow leaves the limiter in its map.
LEMMA TakeKeeps ==
  ASSUME NEW map \in [IPs -> Int], NEW p \in IPs, map[p] >= 0
  PROVE  /\ Take(map, p) \in [IPs -> Int] /\ In(Take(map, p)) = In(map)
         /\ \A q \in IPs : q # p => Take(map, p)[q] = map[q]
         /\ Take(map, p)[p] = IF map[p] > 0 THEN map[p] - 1 ELSE 0
         /\ Take(map, p)[p] >= 0
<1> DEFINE n == IF map[p] > 0 THEN map[p] - 1 ELSE 0
           t == Take(map, p)
<1>1. t = [map EXCEPT ![p] = n]
  BY Zenon DEF Take
<1>2. map[p] \in Int
  OBVIOUS
<1>3. n \in Int /\ n >= 0
  BY <1>2
<1> HIDE DEF n, t
<1>4. t \in [IPs -> Int] /\ t[p] = n /\ \A q \in IPs : q # p => t[q] = map[q]
  BY <1>1, <1>3, Zenon
<1>5. \A q \in IPs : t[q] >= 0 <=> map[q] >= 0
  BY <1>3, <1>4, Zenon
<1>6. In(t) = In(map)
  BY <1>5, Zenon DEF In
<1> QED
  BY <1>3, <1>4, <1>6, Zenon DEF n, t

\* The size of a map that is finite.
LEMMA SizeOfMap ==
  ASSUME RateInv
  PROVE  Cardinality(In(front)) \in Nat /\ Cardinality(In(back)) \in Nat
BY FS_CardinalityType, ZenonT(60) DEF RateInv, Sized

\* What is known of an address.
LEMMA OfAddress ==
  ASSUME RateInv, NEW p \in IPs
  PROVE  /\ front[p] \in Int /\ back[p] \in Int /\ passed[p] \in Nat /\ newer[p] \in Nat
         /\ refills \in Nat /\ Burst \in Nat /\ Limited(p)
BY ListenerConstants, Zenon DEF RateInv, RateType

\* What a step leaves of an address.
LEMMA LimitedNext ==
  ASSUME NEW p, NEW f, NEW b, NEW n, NEW w, NEW r, NEW k, Balanced(f, b, n, w, r, k),
         front'[p] = f, back'[p] = b, passed'[p] = n, newer'[p] = w, refills' = r,
         Cardinality(In(front))' = k
  PROVE  Limited(p)'
<1>1. /\ (f >= 0 => f + n <= Burst + r /\ b < 0) /\ (b >= 0 => b + n <= Burst + r /\ k <= w)
      /\ (f < 0 /\ b < 0 /\ w <= Half => n = 0)
  BY Zenon DEF Balanced
<1> QED
  BY <1>1, Zenon DEF Limited, Balanced, Half

\* A step that leaves the same addresses in the maps.
LEMMA SameAddresses ==
  ASSUME RateInv, RateType', In(front)' = In(front), In(back)' = In(back),
         \A p \in IPs : Limited(p)'
  PROVE  RateInv'
<1>1. Sized'
  BY Zenon DEF RateInv, Sized, Half
<1> QED
  BY <1>1, Zenon DEF RateInv

\* A token that is taken is a connection that passes.
LEMMA TokenTaken ==
  ASSUME NEW f \in Int, NEW b \in Int, NEW n \in Nat, NEW w, NEW r \in Nat, NEW k,
         Burst \in Nat, Balanced(f, b, n, w, r, k)
  PROVE  /\ f >= 0 => Balanced(IF f > 0 THEN f - 1 ELSE 0, b, IF f > 0 THEN n + 1 ELSE n, w, r, k)
         /\ ~(f >= 0) /\ b >= 0 =>
              Balanced(f, IF b > 0 THEN b - 1 ELSE 0, IF b > 0 THEN n + 1 ELSE n, w, r, k)
<1>1. ASSUME f >= 0
      PROVE  Balanced(IF f > 0 THEN f - 1 ELSE 0, b, IF f > 0 THEN n + 1 ELSE n, w, r, k)
  <2>1. f + n <= Burst + r /\ b < 0
    BY <1>1, Zenon DEF Balanced
  <2> QED
    BY <1>1, <2>1 DEF Balanced
<1>2. ASSUME ~(f >= 0), b >= 0
      PROVE  Balanced(f, IF b > 0 THEN b - 1 ELSE 0, IF b > 0 THEN n + 1 ELSE n, w, r, k)
  <2>1. b + n <= Burst + r /\ k <= w
    BY <1>2, Zenon DEF Balanced
  <2> QED
    BY <1>2, <2>1 DEF Balanced
<1> QED
  BY <1>1, <1>2, Zenon

\* RateLimit of an address that has a limiter.
LEMMA KnownKeeps ==
  ASSUME RateInv, LoopInv, NEW l \in Loops, RateKnown(l)
  PROVE  RateInv'
<1>0. PICK p \in IPs : p = Ip[cur[l]]
  <2>1. loop[l] \in Checking
    BY Zenon DEF RateKnown, Calling, Checking
  <2>2. cur[l] \in Conns
    BY <2>1, Zenon DEF LoopInv, Placed
  <2> QED
    BY <2>2, Zenon DEF IPs
<1>1. /\ front[p] \in Int /\ back[p] \in Int /\ passed[p] \in Nat /\ newer[p] \in Nat
      /\ refills \in Nat /\ Burst \in Nat /\ Limited(p)
  BY <1>0, OfAddress, Zenon
<1>2. /\ front \in [IPs -> Int] /\ back \in [IPs -> Int] /\ passed \in [IPs -> Nat]
      /\ newer \in [IPs -> Nat] /\ refills' = refills /\ newer' = newer
  BY Zenon DEF RateInv, RateType, RateKnown
<1>3. CASE /\ front[p] >= 0 /\ front' = Take(front, p) /\ back' = back
           /\ passed' = [passed EXCEPT ![p] = IF front[p] > 0 THEN @ + 1 ELSE @]
  <2> DEFINE n == IF front[p] > 0 THEN passed[p] + 1 ELSE passed[p]
             t == IF front[p] > 0 THEN front[p] - 1 ELSE 0
  <2>1. n \in Nat
    BY <1>1
  <2>2. /\ front' \in [IPs -> Int] /\ In(front') = In(front)
        /\ front'[p] = t /\ \A q \in IPs : q # p => front'[q] = front[q]
    <3>1. /\ Take(front, p) \in [IPs -> Int] /\ In(Take(front, p)) = In(front)
          /\ \A q \in IPs : q # p => Take(front, p)[q] = front[q]
          /\ Take(front, p)[p] = t
      BY <1>2, <1>3, TakeKeeps, Zenon
    <3> QED
      BY <1>3, <3>1, Zenon
  <2>3. Balanced(t, back[p], n, newer[p], refills, Cardinality(In(front)))
    BY <1>1, <1>3, TokenTaken, Zenon DEF Limited
  <2>4. passed' = [passed EXCEPT ![p] = n]
    BY <1>3, Zenon
  <2> HIDE DEF n, t
  <2>5. passed' \in [IPs -> Nat] /\ passed'[p] = n /\ \A q \in IPs : q # p => passed'[q] = passed[q]
    BY <1>0, <1>2, <2>1, <2>4, Zenon
  <2>6. In(front)' = In(front) /\ In(back)' = In(back)
    BY <1>3, <2>2, Zenon DEF In
  <2>7. Limited(p)'
    <3>1. Cardinality(In(front))' = Cardinality(In(front))
      BY <2>6, Zenon
    <3>2. /\ front'[p] = t /\ back'[p] = back[p] /\ newer'[p] = newer[p]
      BY <1>2, <1>3, <2>2, Zenon
    <3> QED
      BY <1>2, <2>3, <2>5, <3>1, <3>2, LimitedNext, Zenon
  <2>8. ASSUME NEW q \in IPs, q # p PROVE Limited(q)'
    <3>1. Limited(q) /\ front'[q] = front[q] /\ passed'[q] = passed[q]
      BY <2>2, <2>5, <2>8, Zenon DEF RateInv
    <3> QED
      BY <1>2, <1>3, <2>6, <3>1, Zenon DEF Limited, Balanced, Half
  <2>9. RateType'
    BY <1>2, <1>3, <2>2, <2>5, Zenon DEF RateInv, RateType
  <2>10. ASSUME NEW q \in IPs PROVE Limited(q)'
    BY <2>7, <2>8, Zenon
  <2> QED
    BY <2>6, <2>9, <2>10, SameAddresses, Zenon
<1>4. CASE /\ ~(front[p] >= 0) /\ back[p] >= 0 /\ back' = Take(back, p) /\ front' = front
           /\ passed' = [passed EXCEPT ![p] = IF back[p] > 0 THEN @ + 1 ELSE @]
  <2> DEFINE n == IF back[p] > 0 THEN passed[p] + 1 ELSE passed[p]
             t == IF back[p] > 0 THEN back[p] - 1 ELSE 0
  <2>1. n \in Nat
    BY <1>1
  <2>2. /\ back' \in [IPs -> Int] /\ In(back') = In(back)
        /\ back'[p] = t /\ \A q \in IPs : q # p => back'[q] = back[q]
    <3>1. /\ Take(back, p) \in [IPs -> Int] /\ In(Take(back, p)) = In(back)
          /\ \A q \in IPs : q # p => Take(back, p)[q] = back[q]
          /\ Take(back, p)[p] = t
      BY <1>2, <1>4, TakeKeeps, Zenon
    <3> QED
      BY <1>4, <3>1, Zenon
  <2>3. Balanced(front[p], t, n, newer[p], refills, Cardinality(In(front)))
    BY <1>1, <1>4, TokenTaken, Zenon DEF Limited
  <2>4. passed' = [passed EXCEPT ![p] = n]
    BY <1>4, Zenon
  <2> HIDE DEF n, t
  <2>5. passed' \in [IPs -> Nat] /\ passed'[p] = n /\ \A q \in IPs : q # p => passed'[q] = passed[q]
    BY <1>0, <1>2, <2>1, <2>4, Zenon
  <2>6. In(front)' = In(front) /\ In(back)' = In(back)
    BY <1>4, <2>2, Zenon DEF In
  <2>7. Limited(p)'
    <3>1. Cardinality(In(front))' = Cardinality(In(front))
      BY <2>6, Zenon
    <3>2. /\ front'[p] = front[p] /\ back'[p] = t /\ newer'[p] = newer[p]
      BY <1>2, <1>4, <2>2, Zenon
    <3> QED
      BY <1>2, <2>3, <2>5, <3>1, <3>2, LimitedNext, Zenon
  <2>8. ASSUME NEW q \in IPs, q # p PROVE Limited(q)'
    <3>1. Limited(q) /\ back'[q] = back[q] /\ passed'[q] = passed[q]
      BY <2>2, <2>5, <2>8, Zenon DEF RateInv
    <3> QED
      BY <1>2, <1>4, <2>6, <3>1, Zenon DEF Limited, Balanced, Half
  <2>9. RateType'
    BY <1>2, <1>4, <2>2, <2>5, Zenon DEF RateInv, RateType
  <2>10. ASSUME NEW q \in IPs PROVE Limited(q)'
    BY <2>7, <2>8, Zenon
  <2> QED
    BY <2>6, <2>9, <2>10, SameAddresses, Zenon
<1> QED
  BY <1>0, <1>3, <1>4, Zenon DEF RateKnown

\* A new limiter in a map.
LEMMA NewLimiter ==
  ASSUME NEW map \in [IPs -> Int], NEW p \in IPs, ~(map[p] >= 0), IsFiniteSet(In(map)),
         Burst \in Nat
  PROVE  LET f == Take([map EXCEPT ![p] = Burst], p) IN
         /\ f \in [IPs -> Int] /\ f[p] = (IF Burst > 0 THEN Burst - 1 ELSE 0)
         /\ \A q \in IPs : q # p => f[q] = map[q]
         /\ IsFiniteSet(In(f)) /\ Cardinality(In(f)) = Cardinality(In(map)) + 1
<1> DEFINE m == [map EXCEPT ![p] = Burst]
           f == Take([map EXCEPT ![p] = Burst], p)
<1>1. Burst \in Int /\ Burst >= 0
  OBVIOUS
<1>2. m \in [IPs -> Int] /\ m[p] = Burst /\ \A q \in IPs : q # p => m[q] = map[q]
  BY <1>1, Zenon
<1>3. f = Take(m, p)
  BY Zenon
<1> HIDE DEF m, f
<1>4. m[p] >= 0
  BY <1>1, <1>2, Zenon
<1>5. /\ f \in [IPs -> Int] /\ In(f) = In(m) /\ \A q \in IPs : q # p => f[q] = m[q]
      /\ f[p] = IF m[p] > 0 THEN m[p] - 1 ELSE 0
  <2>1. /\ Take(m, p) \in [IPs -> Int] /\ In(Take(m, p)) = In(m)
        /\ \A q \in IPs : q # p => Take(m, p)[q] = m[q]
        /\ Take(m, p)[p] = IF m[p] > 0 THEN m[p] - 1 ELSE 0
    BY <1>2, <1>4, TakeKeeps, Zenon
  <2> QED
    BY <1>3, <2>1, Zenon
<1>6. In(m) = In(map) \cup {p} /\ p \notin In(map)
  <2>1. \A q \in IPs : m[q] >= 0 <=> (map[q] >= 0 \/ q = p)
    BY <1>2, <1>4, Zenon
  <2> QED
    BY <2>1, Zenon DEF In
<1>7. IsFiniteSet(In(m)) /\ Cardinality(In(m)) = Cardinality(In(map)) + 1
  BY <1>6, FS_AddElement, ZenonT(60)
<1> QED
  BY <1>2, <1>5, <1>7, Zenon DEF f

\* RateLimit of an address that has none, with the maps f and b after the rotation.
LEMMA NewKeeps ==
  ASSUME RateInv, LoopInv, NEW l \in Loops, RateNew(l)
  PROVE  RateInv'
<1>0. PICK p \in IPs : p = Ip[cur[l]]
  <2>1. loop[l] \in Checking
    BY Zenon DEF RateNew, Calling, Checking
  <2>2. cur[l] \in Conns
    BY <2>1, Zenon DEF LoopInv, Placed
  <2> QED
    BY <2>2, Zenon DEF IPs
<1>1. /\ front[p] \in Int /\ back[p] \in Int /\ passed[p] \in Nat /\ newer[p] \in Nat
      /\ refills \in Nat /\ Burst \in Nat /\ Half \in Nat /\ (Cap >= 2 => Half >= 1)
      /\ Limited(p)
  BY <1>0, OfAddress, HalfOfCap, Zenon
<1>2. /\ front \in [IPs -> Int] /\ back \in [IPs -> Int] /\ passed \in [IPs -> Nat]
      /\ newer \in [IPs -> Nat] /\ refills' = refills
      /\ IsFiniteSet(In(front)) /\ IsFiniteSet(In(back))
      /\ Cap >= 2 => Cardinality(In(front)) <= Half /\ Cardinality(In(back)) <= Half
  BY Zenon DEF RateInv, RateType, Sized, RateNew
<1>3. Cardinality(In(front)) \in Nat /\ Cardinality(In(back)) \in Nat
  BY SizeOfMap, Zenon
<1>4. /\ front[p] < 0 /\ back[p] < 0
      /\ front' = Take([Rotated[1] EXCEPT ![p] = Burst], p) /\ back' = Rotated[2]
      /\ passed' = [passed EXCEPT ![p] = (IF newer[p] > Half THEN 0 ELSE passed[p])
                                         + (IF Burst > 0 THEN 1 ELSE 0)]
      /\ newer' = [q \in IPs |-> IF q = p THEN 0 ELSE newer[q] + 1]
  BY <1>0, <1>2, Zenon DEF RateNew, Half
<1> DEFINE t == IF Burst > 0 THEN Burst - 1 ELSE 0
           n == IF Burst > 0 THEN 1 ELSE 0
<1>5. passed' \in [IPs -> Nat] /\ passed'[p] = n /\ \A q \in IPs : q # p => passed'[q] = passed[q]
  <2>1. newer[p] <= Half => passed[p] = 0
    BY <1>1, <1>4, Zenon DEF Limited, Balanced
  <2>2. (IF newer[p] > Half THEN 0 ELSE passed[p]) + n = n /\ n \in Nat
    BY <1>1, <2>1
  <2> HIDE DEF n
  <2>3. passed' = [passed EXCEPT ![p] = n]
    <3>1. passed' = [passed EXCEPT ![p] = (IF newer[p] > Half THEN 0 ELSE passed[p]) + n]
      BY <1>4, Zenon DEF n
    <3> QED
      BY <2>2, <3>1, Zenon
  <2> QED
    BY <1>2, <2>2, <2>3, Zenon
<1>6. newer' \in [IPs -> Nat] /\ newer'[p] = 0 /\ \A q \in IPs : q # p => newer'[q] = newer[q] + 1
  <2>1. 0 \in Nat /\ \A q \in IPs : newer[q] + 1 \in Nat
    BY <1>2
  <2> QED
    BY <1>4, <2>1, Zenon
<1>7. /\ t \in Int /\ n \in Nat /\ t >= 0 /\ t + n <= Burst + refills
  BY <1>1
<1>8. PICK f \in [IPs -> Int], b \in [IPs -> Int] :
        /\ Rotated[1] = f /\ Rotated[2] = b /\ f[p] < 0 /\ b[p] < 0
        /\ IsFiniteSet(In(f)) /\ IsFiniteSet(In(b)) /\ Cardinality(In(f)) \in Nat
        /\ Cap >= 2 => Cardinality(In(f)) + 1 <= Half /\ Cardinality(In(b)) <= Half
        /\ \A q \in IPs : q # p =>
             Balanced(f[q], b[q], passed[q], newer[q] + 1, refills, Cardinality(In(f)) + 1)
  <2>0. \A q \in IPs : /\ front[q] \in Int /\ back[q] \in Int /\ passed[q] \in Nat /\ newer[q] \in Nat
                        /\ Limited(q)
    BY OfAddress, Zenon
  <2>1. CASE Cardinality(In(front)) = Half
    <3>1. Rotated[1] = NoLimiter /\ Rotated[2] = front
      BY <2>1 DEF Rotated, Limiters, In, Half
    <3>2. NoLimiter \in [IPs -> Int] /\ \A q \in IPs : NoLimiter[q] = -1 /\ NoLimiter[q] < 0
      BY DEF NoLimiter
    <3>3. In(NoLimiter) = {}
      BY <3>2 DEF In
    <3>4. IsFiniteSet(In(NoLimiter)) /\ Cardinality(In(NoLimiter)) = 0
      BY <3>3, FS_EmptySet, ZenonT(60)
    <3>5. ASSUME NEW q \in IPs
          PROVE  Balanced(NoLimiter[q], front[q], passed[q], newer[q] + 1, refills, 0 + 1)
      <4>1. Balanced(front[q], back[q], passed[q], newer[q], refills, Half)
        BY <2>0, <2>1, Zenon DEF Limited
      <4> QED
        BY <1>1, <2>0, <3>2, <4>1 DEF Balanced
    <3>6. /\ 0 \in Nat /\ (Cap >= 2 => 0 + 1 <= Half /\ Half <= Half)
      BY <1>1
    <3> QED
      BY <1>2, <1>4, <2>1, <3>1, <3>2, <3>4, <3>5, <3>6, Zenon
  <2>2. CASE Cardinality(In(front)) # Half
    <3>1. Rotated[1] = front /\ Rotated[2] = back
      BY <2>2 DEF Rotated, Limiters, In, Half
    <3>2. ASSUME NEW q \in IPs
          PROVE  Balanced(front[q], back[q], passed[q], newer[q] + 1, refills,
                          Cardinality(In(front)) + 1)
      <4>1. Balanced(front[q], back[q], passed[q], newer[q], refills, Cardinality(In(front)))
        BY <2>0, Zenon DEF Limited
      <4> QED
        BY <1>1, <1>3, <2>0, <4>1 DEF Balanced
    <3>3. Cap >= 2 => Cardinality(In(front)) + 1 <= Half /\ Cardinality(In(back)) <= Half
      BY <1>1, <1>2, <1>3, <2>2
    <3> QED
      BY <1>2, <1>3, <1>4, <3>1, <3>2, <3>3, Zenon
  <2> QED
    BY <2>1, <2>2, Zenon
<1> HIDE DEF t, n
<1>9. ~(f[p] >= 0) /\ ~(b[p] >= 0) /\ ~(t < 0)
  BY <1>7, <1>8
<1>10. /\ front' \in [IPs -> Int] /\ front'[p] = t
       /\ \A q \in IPs : q # p => front'[q] = f[q]
       /\ IsFiniteSet(In(front')) /\ Cardinality(In(front')) = Cardinality(In(f)) + 1
  <2>1. front' = Take([f EXCEPT ![p] = Burst], p)
    BY <1>4, <1>8, Zenon
  <2> DEFINE g == Take([f EXCEPT ![p] = Burst], p)
  <2>2. /\ g \in [IPs -> Int] /\ g[p] = (IF Burst > 0 THEN Burst - 1 ELSE 0)
        /\ \A q \in IPs : q # p => g[q] = f[q]
        /\ IsFiniteSet(In(g)) /\ Cardinality(In(g)) = Cardinality(In(f)) + 1
    BY <1>1, <1>8, <1>9, NewLimiter, Zenon
  <2> HIDE DEF g
  <2>3. front' = g
    BY <2>1, Zenon DEF g
  <2> QED
    BY <2>2, <2>3, Zenon DEF t
<1>11. In(front)' = In(front') /\ In(back)' = In(b) /\ back' = b
  BY <1>4, <1>8, Zenon DEF In
<1>12. Cardinality(In(front))' = Cardinality(In(f)) + 1
  BY <1>10, <1>11, Zenon
<1>13. Limited(p)'
  <2>1. Balanced(t, b[p], n, 0, refills, Cardinality(In(f)) + 1)
    BY <1>7, <1>8, <1>9, Zenon DEF Balanced
  <2> QED
    BY <1>2, <1>5, <1>6, <1>10, <1>11, <1>12, <2>1, LimitedNext, Zenon
<1>14. ASSUME NEW q \in IPs, q # p PROVE Limited(q)'
  <2>1. /\ Balanced(f[q], b[q], passed[q], newer[q] + 1, refills, Cardinality(In(f)) + 1)
        /\ front'[q] = f[q] /\ back'[q] = b[q] /\ passed'[q] = passed[q] /\ newer'[q] = newer[q] + 1
    BY <1>5, <1>6, <1>8, <1>10, <1>11, <1>14, Zenon
  <2> QED
    BY <1>2, <1>12, <2>1, LimitedNext, Zenon
<1>15. ASSUME NEW q \in IPs PROVE Limited(q)'
  BY <1>13, <1>14, Zenon
<1>16. RateType'
  BY <1>2, <1>5, <1>6, <1>10, <1>11, Zenon DEF RateInv, RateType
<1>17. Sized'
  BY <1>8, <1>10, <1>11, <1>12, Zenon DEF Sized, Half
<1> QED
  BY <1>15, <1>16, <1>17, Zenon DEF RateInv

\* Time adds a token.
LEMMA RefillKeeps ==
  ASSUME RateInv, NEW p \in IPs, Refill(p)
  PROVE  RateInv'
<1>1. /\ front \in [IPs -> Int] /\ back \in [IPs -> Int] /\ refills \in Nat
      /\ refills' = refills + 1 /\ passed' = passed /\ newer' = newer
  BY Zenon DEF RateInv, RateType, Refill
<1>2. refills + 1 \in Nat
  BY <1>1
<1>3. \A q \in IPs : /\ front[q] \in Int /\ back[q] \in Int /\ passed[q] \in Nat /\ newer[q] \in Nat
                      /\ Burst \in Nat /\ Limited(q)
  BY OfAddress, Zenon
<1>4. PICK map \in [IPs -> Int] :
        /\ \/ map = front /\ front' = [map EXCEPT ![p] = @ + 1] /\ back' = back
           \/ map = back /\ back' = [map EXCEPT ![p] = @ + 1] /\ front' = front
        /\ map[p] \in 0..(Burst - 1)
  BY <1>1, Zenon DEF Refill
<1> DEFINE m == [map EXCEPT ![p] = @ + 1]
<1>5. map[p] + 1 \in Int /\ map[p] + 1 >= 0 /\ map[p] >= 0
  BY <1>3, <1>4
<1>6. m \in [IPs -> Int] /\ m[p] = map[p] + 1 /\ \A q \in IPs : q # p => m[q] = map[q]
  BY <1>5, Zenon
<1> HIDE DEF m
<1>7. In(m) = In(map)
  <2>1. \A q \in IPs : m[q] >= 0 <=> map[q] >= 0
    BY <1>5, <1>6, Zenon
  <2> QED
    BY <2>1, Zenon DEF In
<1>8. \/ map = front /\ front' = m /\ back' = back
      \/ map = back /\ back' = m /\ front' = front
  BY <1>4, Zenon DEF m
<1>9. In(front)' = In(front) /\ In(back)' = In(back)
  BY <1>7, <1>8, Zenon DEF In
<1>10. RateType'
  BY <1>1, <1>2, <1>6, <1>8, Zenon DEF RateInv, RateType
<1>11. ASSUME NEW q \in IPs PROVE Limited(q)'
  <2>1. Balanced(front[q], back[q], passed[q], newer[q], refills, Cardinality(In(front)))
    BY <1>3, Zenon DEF Limited
  <2>2. Balanced(front'[q], back'[q], passed[q], newer[q], refills + 1, Cardinality(In(front)))
    <3>1. CASE q # p
      <4>1. front'[q] = front[q] /\ back'[q] = back[q]
        BY <1>6, <1>8, <3>1, Zenon
      <4>2. Balanced(front[q], back[q], passed[q], newer[q], refills + 1, Cardinality(In(front)))
        BY <1>1, <1>3, <2>1 DEF Balanced
      <4> QED
        BY <4>1, <4>2, Zenon
    <3>2. CASE q = p /\ map = front /\ front' = m /\ back' = back
      <4>1. front'[q] = front[q] + 1 /\ back'[q] = back[q] /\ front[q] >= 0
        BY <1>5, <1>6, <3>2, Zenon
      <4>2. Balanced(front[q] + 1, back[q], passed[q], newer[q], refills + 1, Cardinality(In(front)))
        BY <1>1, <1>3, <2>1, <4>1 DEF Balanced
      <4> QED
        BY <4>1, <4>2, Zenon
    <3>3. CASE q = p /\ map = back /\ back' = m /\ front' = front
      <4>1. back'[q] = back[q] + 1 /\ front'[q] = front[q] /\ back[q] >= 0
        BY <1>5, <1>6, <3>3, Zenon
      <4>2. Balanced(front[q], back[q] + 1, passed[q], newer[q], refills + 1, Cardinality(In(front)))
        BY <1>1, <1>3, <2>1, <4>1 DEF Balanced
      <4> QED
        BY <4>1, <4>2, Zenon
    <3> QED
      BY <1>8, <3>1, <3>2, <3>3, Zenon
  <2>3. Cardinality(In(front))' = Cardinality(In(front))
    BY <1>9, Zenon
  <2> QED
    BY <1>1, <2>2, <2>3, LimitedNext, Zenon
<1> QED
  BY <1>9, <1>10, <1>11, SameAddresses, Zenon

\* The limiters stay in balance, whichever step is taken.
LEMMA RateStep == LoopInv /\ RateInv /\ [Next]_vars => RateInv'
<1> SUFFICES ASSUME LoopInv, RateInv, [Next]_vars PROVE RateInv'
  BY Zenon
<1>1. ASSUME UNCHANGED rateVars PROVE RateInv'
  <2>1. front' = front /\ back' = back /\ refills' = refills /\ passed' = passed /\ newer' = newer
    BY <1>1, Zenon DEF rateVars
  <2>2. In(front)' = In(front) /\ In(back)' = In(back)
    BY <2>1, Zenon DEF In
  <2>3. ASSUME NEW p \in IPs PROVE Limited(p)'
    <3>1. Balanced(front[p], back[p], passed[p], newer[p], refills, Cardinality(In(front)))
      BY Zenon DEF RateInv, Limited
    <3> QED
      BY <2>1, <2>2, <3>1, LimitedNext, Zenon
  <2>4. RateType'
    BY <2>1, Zenon DEF RateInv, RateType
  <2> QED
    BY <2>2, <2>3, <2>4, SameAddresses, Zenon
<1>2. ASSUME NEW l \in Loops,
             \/ \E c \in Conns : AcceptConn(l, c)
             \/ Return(l) \/ Handle(l) \/ Reject(l) \/ OtherAllow(l) \/ MaxRead(l) \/ MaxTake(l)
      PROVE  RateInv'
  BY <1>1, <1>2, Zenon
     DEF AcceptConn, Return, Handle, Reject, OtherAllow, MaxRead, MaxTake
<1>3. ASSUME NEW c \in Conns, HandlerCleanup(c) \/ HandlerClose(c) PROVE RateInv'
  BY <1>1, <1>3, Zenon DEF HandlerCleanup, HandlerClose
<1>4. CASE UNCHANGED vars
  BY <1>1, <1>4, Zenon DEF vars
<1> QED
  BY <1>2, <1>3, <1>4, KnownKeeps, NewKeeps, RefillKeeps, Zenon DEF Next, Loop

\* At first there is no limiter.
LEMMA RateAtFirst == Init => RateInv
<1> SUFFICES ASSUME Init PROVE RateInv
  BY Zenon
<1>1. NoLimiter \in [IPs -> Int] /\ \A p \in IPs : NoLimiter[p] = -1
  BY DEF NoLimiter
<1>2. In(NoLimiter) = {}
  BY <1>1 DEF In
<1>3. /\ front = NoLimiter /\ back = NoLimiter /\ refills = 0
      /\ passed = [p \in IPs |-> 0] /\ newer = [p \in IPs |-> 0] /\ 0 \in Nat
  BY DEF Init
<1>4. RateType
  BY <1>1, <1>3, Zenon DEF RateType
<1>5. Sized
  <2>1. IsFiniteSet({}) /\ Cardinality({}) = 0
    BY FS_EmptySet, ZenonT(60)
  <2>2. Cap >= 2 => 0 <= Half
    BY HalfOfCap
  <2> QED
    BY <1>2, <1>3, <2>1, <2>2, Zenon DEF Sized
<1>6. ASSUME NEW p \in IPs PROVE Limited(p)
  <2>1. front[p] = -1 /\ back[p] = -1 /\ passed[p] = 0
    BY <1>1, <1>3, Zenon
  <2>2. ~(-1 >= 0)
    OBVIOUS
  <2> QED
    BY <2>1, <2>2, Zenon DEF Limited, Balanced
<1> QED
  BY <1>4, <1>5, <1>6, Zenon DEF RateInv

\* The limiters and the loops, in every state.
LEMMA RateInvariance == Spec => []RateInv
<1>1. LoopInv /\ RateInv /\ [Next]_vars => (LoopInv /\ RateInv)'
  BY LoopStep, RateStep, Zenon
<1>2. Init => LoopInv /\ RateInv
  BY AtFirst, RateAtFirst, Zenon
<1> QED
  BY <1>1, <1>2, PTL DEF Spec

\* RateLimit (policy/allow.go): an address passes no more often than its burst and time
\* allow, as long as at most Cap/2 others got a limiter after it, for any Cap, burst and
\* addresses.
THEOREM RateHeldHolds == Spec => []RateHeld
<1>1. RateInv => RateHeld
  <2> SUFFICES ASSUME RateInv, NEW p \in IPs, newer[p] <= Half PROVE passed[p] <= Burst + refills
    BY Zenon DEF RateHeld, Half
  <2>1. /\ front[p] \in Int /\ back[p] \in Int /\ passed[p] \in Nat /\ newer[p] \in Nat
        /\ refills \in Nat /\ Burst \in Nat /\ Limited(p)
    BY OfAddress, Zenon
  <2>2. Balanced(front[p], back[p], passed[p], newer[p], refills, Cardinality(In(front)))
    BY <2>1, Zenon DEF Limited
  <2> QED
    BY <2>1, <2>2 DEF Balanced
<1> QED
  BY <1>1, RateInvariance, PTL

\* RateLimit: rotating the front to the back when it is full bounds both maps, whenever
\* Cap/2 is not zero.
THEOREM MapsBoundedHolds == Spec => []MapsBounded
<1>1. RateInv => MapsBounded
  BY Zenon DEF RateInv, Sized, MapsBounded, Limiters, In, Half
<1> QED
  BY <1>1, RateInvariance, PTL
=============================================================================
