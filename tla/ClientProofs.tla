---------------------------- MODULE ClientProofs ----------------------------
(***************************************************************************)
(* Proofs about Client, for any users, remotes, receivers and packets: the *)
(* references of Channels, and what the receivers are called with.         *)
(***************************************************************************)
EXTENDS Client, FiniteSetTheorems, TLAPS

\* The references to one remote.
RefsTo(r) == {b \in bound : b[2] = r}

\* Packets that are forwarded or dispatched came from a Channel that was created.
CurInv ==
  /\ loop \in {"call", "kill"} => cur \in Gens \X Msgs /\ peer[cur[1]] \in Remotes
  /\ \A g \in Gens : fwd[g] # NoMsg => peer[g] \in Remotes

\* The marker is behind the range, which ends with the list.
MarkInv == loop \in {"call", "kill"} => marker < pos /\ pos <= Len(recvs) + 1

\* Numbers that were not used yet belong to no Channel.
FreshInv == (\A r \in Remotes : shared[r] <= ngen) /\ (\A g \in alive : g <= ngen)

IInv == TypeOK /\ CurInv /\ MarkInv /\ FreshInv /\ RefCounted /\ NoLeak

\* The references to a remote are counted by a natural number.
LEMMA RefsFinite ==
  ASSUME TypeOK, NEW r \in Remotes
  PROVE  IsFiniteSet(RefsTo(r)) /\ Cardinality(RefsTo(r)) \in Nat
<1>1. IsFiniteSet(Users \X Remotes)
  BY ClientConstants, FS_Product, Zenon
<1>2. RefsTo(r) \subseteq Users \X Remotes
  BY Zenon DEF TypeOK, RefsTo
<1> QED
  BY <1>1, <1>2, FS_Subset, FS_CardinalityType, Zenon

\* Counting one reference more, and one less.
LEMMA RefsAdded ==
  ASSUME TypeOK, NEW u \in Users, NEW r \in Remotes, NEW x \in Remotes,
         <<u, r>> \notin bound, bound' = bound \cup {<<u, r>>}
  PROVE  Cardinality(RefsTo(x)') =
           IF x = r THEN Cardinality(RefsTo(x)) + 1 ELSE Cardinality(RefsTo(x))
<1>1. CASE x = r
  <2>1. RefsTo(x)' = RefsTo(x) \cup {<<u, r>>} /\ <<u, r>> \notin RefsTo(x)
    BY <1>1 DEF RefsTo
  <2> QED
    BY <1>1, <2>1, RefsFinite, FS_AddElement, ZenonT(60)
<1>2. CASE x # r
  <2>1. RefsTo(x)' = RefsTo(x)
    BY <1>2 DEF RefsTo
  <2> QED
    BY <1>2, <2>1, Zenon
<1> QED
  BY <1>1, <1>2, Zenon

\* Unbind of a remote removes one reference to it and none to any other.
LEMMA RefsRemoved ==
  ASSUME TypeOK, NEW u \in Users, NEW r \in Remotes, NEW x \in Remotes,
         <<u, r>> \in bound, bound' = bound \ {<<u, r>>}
  PROVE  /\ x = r => Cardinality(RefsTo(x)) > 0
         /\ Cardinality(RefsTo(x)') =
              IF x = r THEN Cardinality(RefsTo(x)) - 1 ELSE Cardinality(RefsTo(x))
<1>1. CASE x = r
  <2>1. RefsTo(x)' = RefsTo(x) \ {<<u, r>>} /\ <<u, r>> \in RefsTo(x)
    BY <1>1, Zenon DEF RefsTo
  <2>2. IsFiniteSet(RefsTo(x)) /\ Cardinality(RefsTo(x)) \in Nat
    BY RefsFinite, Zenon
  <2>3. Cardinality(RefsTo(x)) # 0
    BY <2>1, <2>2, FS_EmptySet, Zenon
  <2>4. Cardinality(RefsTo(x) \ {<<u, r>>}) = Cardinality(RefsTo(x)) - 1
    BY <2>1, <2>2, FS_RemoveElement, ZenonT(60)
  <2> QED
    BY <1>1, <2>1, <2>2, <2>3, <2>4
<1>2. CASE x # r
  <2>1. RefsTo(x)' = RefsTo(x)
    BY <1>2 DEF RefsTo
  <2> QED
    BY <1>2, <2>1, Zenon
<1> QED
  BY <1>1, <1>2, Zenon

\* RefCounted in terms of RefsTo.
LEMMA RefCountedDef ==
  RefCounted <=> \A r \in Remotes :
    IF shared[r] = 0 THEN Cardinality(RefsTo(r)) = 0
    ELSE Cardinality(RefsTo(r)) > 0 /\ rc[shared[r]] = Cardinality(RefsTo(r))
         /\ peer[shared[r]] = r
BY Zenon DEF RefCounted, RefsTo

\* The part of the invariant that Bind, Unbind and the kill can disturb.
RegType ==
  /\ bound \subseteq Users \X Remotes /\ shared \in [Remotes -> 0..MaxGen]
  /\ ngen \in 0..MaxGen /\ peer \in [Gens -> Remotes \cup {NoRemote}]
  /\ rc \in [Gens -> Nat] /\ alive \subseteq Gens

RegInv == RegType /\ FreshInv /\ RefCounted /\ NoLeak

\* Bind of a remote that has a Channel: its count rises with its references.
LEMMA BindSharedKeeps ==
  ASSUME IInv, NEW u \in Users, NEW r \in Remotes, BindShared(u, r) PROVE RegInv'
<1> DEFINE g == shared[r]
<1>1. RegType /\ FreshInv /\ NoLeak /\ TypeOK /\ MaxGen \in Nat
  BY ClientConstants, ZenonT(60) DEF IInv, TypeOK, RegType
<1>2. /\ g \in Gens /\ rc' = [rc EXCEPT ![g] = @ + 1]
      /\ UNCHANGED <<shared, ngen, peer, alive>> /\ bound' = bound \cup {<<u, r>>}
  BY <1>1 DEF BindShared, RegType, Gens
<1>3. RegType'
  BY <1>1, <1>2 DEF RegType
<1>4. ASSUME NEW x \in Remotes
      PROVE  IF shared'[x] = 0 THEN Cardinality(RefsTo(x)') = 0
             ELSE Cardinality(RefsTo(x)') > 0 /\ rc'[shared'[x]] = Cardinality(RefsTo(x)')
                  /\ peer'[shared'[x]] = x
  <2>1. Cardinality(RefsTo(x)') =
          IF x = r THEN Cardinality(RefsTo(x)) + 1 ELSE Cardinality(RefsTo(x))
    BY <1>1, <1>2, RefsAdded, Zenon DEF BindShared
  <2>2. Cardinality(RefsTo(x)) \in Nat
    BY <1>1, RefsFinite, Zenon
  <2>3. /\ IF shared[x] = 0 THEN Cardinality(RefsTo(x)) = 0
           ELSE Cardinality(RefsTo(x)) > 0 /\ rc[shared[x]] = Cardinality(RefsTo(x))
                /\ peer[shared[x]] = x
        /\ peer[g] = r
    BY <1>2, RefCountedDef, Zenon DEF IInv, BindShared
  <2> QED
    BY <1>1, <1>2, <2>1, <2>2, <2>3 DEF RegType, Gens
<1>5. RefCounted'
  BY <1>4, Zenon DEF RefCounted, RefsTo
<1> QED
  BY <1>1, <1>2, <1>3, <1>5, Zenon DEF RegInv, FreshInv, NoLeak

\* Bind of a remote that has none: the new Channel is numbered afresh, so it is no
\* other remote's.
LEMMA BindNewKeeps ==
  ASSUME IInv, NEW u \in Users, NEW r \in Remotes, BindNew(u, r) PROVE RegInv'
<1> DEFINE g == ngen + 1
<1>1. RegType /\ FreshInv /\ NoLeak /\ TypeOK /\ MaxGen \in Nat /\ NoRemote \notin Remotes
  BY ClientConstants, ZenonT(60) DEF IInv, TypeOK, RegType
<1>2. /\ g \in Gens /\ rc' = [rc EXCEPT ![g] = 1] /\ peer' = [peer EXCEPT ![g] = r]
      /\ shared' = [shared EXCEPT ![r] = g] /\ alive' = alive \cup {g} /\ ngen' = g
      /\ bound' = bound \cup {<<u, r>>} /\ shared[r] = 0
  BY <1>1 DEF BindNew, RegType, Gens
<1>3. RegType'
  BY <1>1, <1>2 DEF RegType, Gens
<1>4. ASSUME NEW x \in Remotes
      PROVE  IF shared'[x] = 0 THEN Cardinality(RefsTo(x)') = 0
             ELSE Cardinality(RefsTo(x)') > 0 /\ rc'[shared'[x]] = Cardinality(RefsTo(x)')
                  /\ peer'[shared'[x]] = x
  <2>1. Cardinality(RefsTo(x)') =
          IF x = r THEN Cardinality(RefsTo(x)) + 1 ELSE Cardinality(RefsTo(x))
    BY <1>1, <1>2, RefsAdded, Zenon DEF BindNew
  <2>2. IF shared[x] = 0 THEN Cardinality(RefsTo(x)) = 0
        ELSE Cardinality(RefsTo(x)) > 0 /\ rc[shared[x]] = Cardinality(RefsTo(x))
             /\ peer[shared[x]] = x
    BY RefCountedDef, Zenon DEF IInv
  <2>3. shared[x] <= ngen /\ shared[x] \in 0..MaxGen /\ ngen \in Nat
    BY <1>1 DEF FreshInv, RegType
  <2>4. CASE x = r
    BY <1>1, <1>2, <2>1, <2>2, <2>4 DEF RegType, Gens
  <2>5. CASE x # r
    BY <1>1, <1>2, <2>1, <2>2, <2>3, <2>5 DEF RegType, Gens
  <2> QED
    BY <2>4, <2>5, Zenon
<1>5. RefCounted'
  BY <1>4, Zenon DEF RefCounted, RefsTo
<1>6. FreshInv'
  BY <1>1, <1>2 DEF FreshInv, RegType, Gens
<1>7. NoLeak'
  <2> SUFFICES ASSUME NEW h \in alive' PROVE peer'[h] \in Remotes /\ shared'[peer'[h]] = h
    BY Zenon DEF NoLeak
  <2>1. CASE h = g
    BY <1>1, <1>2, <2>1, Zenon DEF RegType
  <2>2. CASE h # g
    <3>1. h \in alive /\ peer[h] \in Remotes /\ shared[peer[h]] = h /\ h \in Gens
      BY <1>1, <1>2, <2>2, Zenon DEF NoLeak, RegType
    <3> QED
      BY <1>1, <1>2, <2>2, <3>1 DEF RegType, Gens
  <2> QED
    BY <2>1, <2>2, Zenon
<1> QED
  BY <1>3, <1>5, <1>6, <1>7, Zenon DEF RegInv

\* Unbind: the count falls with the references, and the last one stops the Channel
\* that it takes out of the map.
LEMMA UnbindKeeps ==
  ASSUME IInv, NEW u \in Users, NEW r \in Remotes, Unbind(u, r) PROVE RegInv'
<1> DEFINE g == shared[r]
<1>1. RegType /\ FreshInv /\ NoLeak /\ TypeOK /\ MaxGen \in Nat
  BY ClientConstants, ZenonT(60) DEF IInv, TypeOK, RegType
<1>2. \A x \in Remotes :
        IF shared[x] = 0 THEN Cardinality(RefsTo(x)) = 0
        ELSE Cardinality(RefsTo(x)) > 0 /\ rc[shared[x]] = Cardinality(RefsTo(x))
             /\ peer[shared[x]] = x
  BY RefCountedDef, Zenon DEF IInv
<1>3. \A x \in Remotes : Cardinality(RefsTo(x)) \in Nat
  BY <1>1, RefsFinite, Zenon
<1>4. bound' = bound \ {<<u, r>>} /\ <<u, r>> \in bound /\ UNCHANGED <<ngen, peer>>
  BY Zenon DEF Unbind
<1>5. \A x \in Remotes : Cardinality(RefsTo(x)') =
        IF x = r THEN Cardinality(RefsTo(x)) - 1 ELSE Cardinality(RefsTo(x))
  BY <1>1, <1>4, RefsRemoved, Zenon
<1>6. Cardinality(RefsTo(r)) > 0
  BY <1>1, <1>4, RefsRemoved, Zenon
<1>7. g \in Gens /\ rc[g] = Cardinality(RefsTo(r)) /\ peer[g] = r
  BY <1>1, <1>2, <1>3, <1>6 DEF RegType, Gens
<1>8. /\ rc' = [rc EXCEPT ![g] = @ - 1]
      /\ rc[g] = 1 => alive' = alive \ {g} /\ shared' = [shared EXCEPT ![r] = 0]
      /\ rc[g] # 1 => UNCHANGED <<alive, shared>>
  BY <1>1, <1>7 DEF Unbind, Gens
<1>9. RegType'
  <2>1. rc[g] - 1 \in Nat
    BY <1>3, <1>6, <1>7
  <2>2. rc' \in [Gens -> Nat]
    BY <1>1, <1>8, <2>1, ZenonT(60) DEF RegType
  <2>3. alive' \subseteq Gens /\ shared' \in [Remotes -> 0..MaxGen]
    BY <1>1, <1>8 DEF RegType
  <2> QED
    BY <1>1, <1>4, <2>2, <2>3, Zenon DEF RegType
<1>10. ASSUME NEW x \in Remotes
       PROVE  IF shared'[x] = 0 THEN Cardinality(RefsTo(x)') = 0
              ELSE Cardinality(RefsTo(x)') > 0 /\ rc'[shared'[x]] = Cardinality(RefsTo(x)')
                   /\ peer'[shared'[x]] = x
  <2>1. CASE x = r
    BY <1>1, <1>3, <1>4, <1>5, <1>6, <1>7, <1>8, <2>1 DEF RegType, Gens
  <2>2. CASE x # r
    <3>1. shared'[x] = shared[x] /\ Cardinality(RefsTo(x)') = Cardinality(RefsTo(x))
      BY <1>1, <1>5, <1>8, <2>2, Zenon DEF RegType
    <3>2. shared[x] # 0 => shared[x] # g /\ shared[x] \in Gens
      BY <1>1, <1>2, <1>7, <2>2 DEF RegType, Gens
    <3> QED
      BY <1>1, <1>2, <1>4, <1>8, <3>1, <3>2, Zenon DEF RegType
  <2> QED
    BY <2>1, <2>2, Zenon
<1>11. RefCounted'
  BY <1>10, Zenon DEF RefCounted, RefsTo
<1>12. FreshInv'
  BY <1>1, <1>4, <1>8 DEF FreshInv, RegType
<1>13. NoLeak'
  BY <1>1, <1>4, <1>7, <1>8 DEF NoLeak, RegType
<1> QED
  BY <1>9, <1>11, <1>12, <1>13, Zenon DEF RegInv

\* The receive goroutine only ever cancels Channels.
LEMMA KillKeeps ==
  ASSUME IInv, LoopKill PROVE RegInv'
<1>1. UNCHANGED <<bound, shared, ngen, peer, rc>> /\ alive' \subseteq alive
  BY Zenon DEF LoopKill
<1>2. RefCounted'
  BY <1>1, Zenon DEF IInv, RefCounted
<1> QED
  BY <1>1, <1>2, Zenon DEF IInv, TypeOK, RegInv, RegType, FreshInv, NoLeak

\* The goroutines that forward and receive leave the registry alone.
LEMMA OthersKeep ==
  ASSUME IInv, UNCHANGED regVars PROVE RegInv'
<1>1. RefCounted'
  BY Zenon DEF IInv, RefCounted, regVars
<1> QED
  BY <1>1, Zenon DEF IInv, TypeOK, RegInv, RegType, FreshInv, NoLeak, regVars

\* The variables of the forwarding and receive goroutines.
GoType ==
  /\ fwd \in [Gens -> Msgs \cup {NoMsg}] /\ fresh \subseteq Msgs
  /\ recv \in [Receivers -> {"idle", "offer", "registered", "returned"}] /\ done \subseteq Receivers
  /\ running \in BOOLEAN /\ loop \in {"off", "select", "call", "kill", "closing"}
  /\ recvs \in Seq(Receivers) /\ pos \in Nat \ {0} /\ marker \in Nat
  /\ cur \in (0..MaxGen) \X (Msgs \cup {NoMsg})
  /\ handled \in [Receivers -> Seq(Msgs)] /\ lost \subseteq Msgs
  /\ killed \subseteq Gens \X Gens

GoInv == GoType /\ CurInv

\* Lists that are as long and agree everywhere are the same.
LEMMA SameList ==
  ASSUME NEW a \in Seq(Receivers), NEW b \in Seq(Receivers), Len(a) = Len(b),
         \A n \in 1..Len(a) : a[n] = b[n]
  PROVE  a = b
OBVIOUS

\* The list with what is at position p moved behind the m that are kept.
Moved(s, p, m) == [s EXCEPT ![m + 1] = s[p]]

\* A list that is compacted in place, at position p and with m kept: what is left to be
\* called loses its first, and what is kept gains it if it is moved to the front.
LEMMA Compacted ==
  ASSUME NEW s \in Seq(Receivers), NEW p \in Nat \ {0}, NEW m \in Nat, m < p, p <= Len(s)
  PROVE  /\ Moved(s, p, m) \in Seq(Receivers) /\ Len(Moved(s, p, m)) = Len(s)
         /\ SubSeq(s, p, Len(s)) # <<>> /\ Head(SubSeq(s, p, Len(s))) = s[p]
         /\ Tail(SubSeq(s, p, Len(s))) = SubSeq(s, p + 1, Len(s))
         /\ SubSeq(Moved(s, p, m), p + 1, Len(Moved(s, p, m))) = SubSeq(s, p + 1, Len(s))
         /\ SubSeq(Moved(s, p, m), 1, m + 1) = Append(SubSeq(s, 1, m), s[p])
<1> DEFINE t == Moved(s, p, m)
<1>1. Len(s) \in Nat /\ p \in 1..Len(s) /\ s[p] \in Receivers /\ m + 1 \in 1..Len(s)
  OBVIOUS
<1>2. t \in Seq(Receivers) /\ Len(t) = Len(s)
  BY <1>1 DEF Moved
<1>3. \A n \in 1..Len(s) : t[n] = IF n = m + 1 THEN s[p] ELSE s[n]
  BY <1>1 DEF Moved
<1> HIDE DEF t
<1> DEFINE c == SubSeq(s, p, Len(s))
           d == SubSeq(s, p + 1, Len(s))
           e == SubSeq(t, p + 1, Len(t))
<1>4. /\ c \in Seq(Receivers) /\ Len(c) = Len(s) - p + 1
      /\ \A n \in 1..(Len(s) - p + 1) : c[n] = s[p + n - 1]
  BY <1>1
<1>5. /\ d \in Seq(Receivers) /\ Len(d) = Len(s) - p
      /\ \A n \in 1..(Len(s) - p) : d[n] = s[p + n]
  BY <1>1
<1>6. /\ e \in Seq(Receivers) /\ Len(e) = Len(s) - p
      /\ \A n \in 1..(Len(s) - p) : e[n] = t[p + n]
  BY <1>1, <1>2
<1>7. c # <<>> /\ Head(c) = s[p]
  <2> HIDE DEF c
  <2>1. c # <<>> /\ Head(c) = c[1] /\ 1 \in 1..(Len(s) - p + 1) /\ p + 1 - 1 = p
    BY <1>1, <1>4
  <2>2. c[1] = s[p + 1 - 1]
    BY <1>4, <2>1, Zenon
  <2> QED
    BY <2>1, <2>2, Zenon
<1>8. Tail(c) = d
  <2> HIDE DEF c, d
  <2>1. Tail(c) \in Seq(Receivers) /\ Len(Tail(c)) = Len(s) - p
    BY <1>1, <1>4, <1>7
  <2>2. \A n \in 1..(Len(s) - p) : Tail(c)[n] = c[n + 1]
    BY <1>1, <1>4, <1>7
  <2>3. \A n \in 1..(Len(s) - p) : c[n + 1] = s[p + n]
    <3> TAKE n \in 1..(Len(s) - p)
    <3>1. n + 1 \in 1..(Len(s) - p + 1) /\ p + (n + 1) - 1 = p + n
      BY <1>1
    <3>2. c[n + 1] = s[p + (n + 1) - 1]
      BY <1>4, <3>1, Zenon
    <3> QED
      BY <3>1, <3>2, Zenon
  <2>4. \A n \in 1..Len(Tail(c)) : Tail(c)[n] = d[n]
    BY <1>5, <2>1, <2>2, <2>3, Zenon
  <2> QED
    BY <1>5, <2>1, <2>4, SameList, Zenon
<1>9. e = d
  <2>1. \A n \in 1..(Len(s) - p) : t[p + n] = s[p + n]
    BY <1>1, <1>3
  <2> HIDE DEF e, d
  <2>2. \A n \in 1..Len(e) : e[n] = d[n]
    BY <1>5, <1>6, <2>1, Zenon
  <2> QED
    BY <1>5, <1>6, <2>2, SameList, Zenon
<1>10. SubSeq(t, 1, m + 1) = Append(SubSeq(s, 1, m), s[p])
  <2> DEFINE a == SubSeq(t, 1, m + 1)
             b == SubSeq(s, 1, m)
  <2>1. a \in Seq(Receivers) /\ Len(a) = m + 1 /\ \A n \in 1..(m + 1) : a[n] = t[n]
    BY <1>1, <1>2
  <2>2. b \in Seq(Receivers) /\ Len(b) = m /\ \A n \in 1..m : b[n] = s[n]
    BY <1>1
  <2> HIDE DEF a, b
  <2>3. /\ Append(b, s[p]) \in Seq(Receivers) /\ Len(Append(b, s[p])) = m + 1
        /\ \A n \in 1..(m + 1) : Append(b, s[p])[n] = IF n = m + 1 THEN s[p] ELSE s[n]
    BY <1>1, <2>2
  <2>4. \A n \in 1..(m + 1) : a[n] = Append(b, s[p])[n]
    BY <1>1, <1>3, <2>1, <2>3
  <2>5. a = Append(b, s[p])
    BY <2>1, <2>3, <2>4
  <2> QED
    BY <2>5 DEF a, b
<1> HIDE DEF c, d, e
<1> QED
  BY <1>2, <1>7, <1>8, <1>9, <1>10, Zenon DEF c, d, e, t

\* The kept and the uncalled of a list.
LEMMA Slices ==
  ASSUME NEW s \in Seq(Receivers), NEW p \in Nat \ {0}, NEW m \in Nat, m < p, p <= Len(s) + 1
  PROVE  /\ SubSeq(s, 1, m) \in Seq(Receivers) /\ SubSeq(s, p, Len(s)) \in Seq(Receivers)
         /\ m = 0 => SubSeq(s, 1, m) = <<>>
         /\ p > Len(s) => SubSeq(s, p, Len(s)) = <<>>
OBVIOUS

\* What a step of the goroutines does to their own variables.
LEMMA GoStep == IInv /\ [Next]_vars => GoInv' /\ MarkInv'
<1> SUFFICES ASSUME IInv, [Next]_vars PROVE GoInv' /\ MarkInv'
  BY Zenon
<1>0. GoType /\ CurInv /\ MarkInv /\ RegType /\ NoLeak /\ MaxGen \in Nat /\ NoMsg \notin Msgs
  BY ClientConstants, Zenon DEF IInv, TypeOK, GoType, RegType
<1> USE <1>0 DEF GoInv, GoType, CurInv, MarkInv, loopVars, regVars
<1>1. CASE Registry
  <2>1. PICK r \in Remotes : peer' = peer \/ peer' = [peer EXCEPT ![ngen + 1] = r]
    BY <1>1, Zenon DEF Registry, BindShared, BindNew, Unbind
  <2>2. \A g \in Gens : peer[g] \in Remotes => peer'[g] \in Remotes
    BY <2>1, ZenonT(60) DEF RegType
  <2>3. UNCHANGED <<fwd, fresh, recv, done, loopVars, killed>>
    BY <1>1, Zenon DEF Registry, BindShared, BindNew, Unbind
  <2> QED
    BY <2>2, <2>3, Zenon
<1>2. ASSUME NEW g \in Gens, NEW msg \in Msgs, Forward(g, msg) PROVE GoInv' /\ MarkInv'
  BY <1>2, Zenon DEF Forward, NoLeak
<1>3. ASSUME NEW g \in Gens, ForwardStop(g) PROVE GoInv' /\ MarkInv'
  BY <1>3, Zenon DEF ForwardStop
<1>4. ASSUME NEW k \in Receivers, Receive(k) PROVE GoInv' /\ MarkInv'
  <2>1. <<>> \in Seq(Receivers)
    OBVIOUS
  <2>2. /\ recvs' \in Seq(Receivers) /\ loop' \in {loop, "select"} /\ running' \in BOOLEAN
        /\ loop' # "select" => recvs' = recvs
    BY <1>4, <2>1, ZenonT(60) DEF Receive
  <2>3. recv' \in [Receivers -> {"idle", "offer", "registered", "returned"}]
    BY <1>4, Zenon DEF Receive
  <2> QED
    BY <1>4, <2>2, <2>3, Zenon DEF Receive
<1>5. ASSUME NEW k \in Receivers, Cancel(k) PROVE GoInv' /\ MarkInv'
  BY <1>5, ClientConstants, Zenon DEF Cancel
<1>6. ASSUME NEW k \in Receivers, ReceiveReturn(k) PROVE GoInv' /\ MarkInv'
  BY <1>6, Zenon DEF ReceiveReturn
<1>7. ASSUME NEW k \in Receivers, LoopRegister(k) PROVE GoInv' /\ MarkInv'
  <2>1. Append(recvs, k) \in Seq(Receivers) /\ "select" # "call" /\ "select" # "kill"
    OBVIOUS
  <2> QED
    BY <1>7, <2>1, Zenon DEF LoopRegister
<1>8. ASSUME NEW g \in Gens, LoopTake(g) PROVE GoInv' /\ MarkInv'
  <2>1. fwd[g] \in Msgs /\ g \in 0..MaxGen
    <3>1. fwd[g] \in Msgs
      BY <1>8, Zenon DEF LoopTake
    <3> QED
      BY <3>1, ClientConstants DEF Gens
  <2>2. 1 \in Nat \ {0} /\ 0 \in Nat /\ 0 < 1 /\ 1 <= Len(recvs) + 1
    OBVIOUS
  <2>3. /\ cur' \in (0..MaxGen) \X (Msgs \cup {NoMsg}) /\ cur'[2] = fwd[g]
        /\ fwd' \in [Gens -> Msgs \cup {NoMsg}] /\ lost' \subseteq Msgs
    BY <1>8, <2>1, Zenon DEF LoopTake
  <2> QED
    BY <1>8, <2>1, <2>2, <2>3, Zenon DEF LoopTake
<1>9. CASE LoopSkip
  <2>1. loop = "call" /\ pos <= Len(recvs) /\ pos' = pos + 1 /\ recvs' = recvs /\ marker' = marker
    BY <1>9, Zenon DEF LoopSkip
  <2>2. pos + 1 \in Nat \ {0} /\ marker < pos + 1 /\ pos + 1 <= Len(recvs) + 1
    BY <2>1
  <2> QED
    BY <1>9, <2>1, <2>2, Zenon DEF LoopSkip
<1>10. CASE LoopCall
  <2>1. /\ loop = "call" /\ pos <= Len(recvs) /\ pos' = pos + 1 /\ marker' = marker + 1
        /\ recvs' = [recvs EXCEPT ![marker + 1] = recvs[pos]]
    BY <1>10, Zenon DEF LoopCall
  <2>2. recvs[pos] \in Receivers /\ cur[2] \in Msgs
    BY <2>1
  <2>3. recvs' \in Seq(Receivers) /\ Len(recvs') = Len(recvs)
    <3>1. recvs' = Moved(recvs, pos, marker)
      BY <2>1, Zenon DEF Moved
    <3>2. loop = "call" /\ pos <= Len(recvs)
      BY <2>1, Zenon
    <3>3. marker < pos
      BY <3>2, Zenon
    <3>4. /\ Moved(recvs, pos, marker) \in Seq(Receivers)
          /\ Len(Moved(recvs, pos, marker)) = Len(recvs)
      BY <3>2, <3>3, Compacted, Zenon
    <3> QED
      BY <3>1, <3>4, Zenon
  <2>4. /\ pos + 1 \in Nat \ {0} /\ marker + 1 \in Nat /\ marker + 1 < pos + 1
        /\ pos + 1 <= Len(recvs) + 1
    BY <2>1
  <2>5. Append(handled[recvs[pos]], cur[2]) \in Seq(Msgs)
    BY <2>2
  <2> QED
    BY <1>10, <2>1, <2>2, <2>3, <2>4, <2>5, Zenon DEF LoopCall
<1>11. CASE LoopEnd
  <2>1. /\ loop = "call" /\ recvs' = SubSeq(recvs, 1, marker) /\ pos' = 1 /\ marker' = 0
        /\ loop' \in {"closing", "select"}
    BY <1>11, Zenon DEF LoopEnd
  <2>2. SubSeq(recvs, 1, marker) \in Seq(Receivers)
    BY <2>1, Slices, Zenon
  <2>3. 1 \in Nat \ {0} /\ 0 \in Nat /\ loop' # "call" /\ loop' # "kill"
    BY <2>1
  <2> QED
    BY <1>11, <2>1, <2>2, <2>3, Zenon DEF LoopEnd
<1>12. CASE LoopClose
  BY <1>12, ZenonT(60) DEF LoopClose
<1>13. CASE LoopKill
  <2>1. cur \in Gens \X Msgs /\ shared[peer[cur[1]]] \in 0..MaxGen
    BY <1>13, Zenon DEF LoopKill, RegType
  <2>2. killed' \subseteq Gens \X Gens
    BY <1>13, <2>1 DEF LoopKill, Gens
  <2> QED
    BY <1>13, <2>2, Zenon DEF LoopKill
<1>14. CASE UNCHANGED vars
  BY <1>14, Zenon DEF vars
<1> QED
  BY <1>1, <1>2, <1>3, <1>4, <1>5, <1>6, <1>7, <1>8, <1>9, <1>10, <1>11, <1>12, <1>13, <1>14, ZenonT(60)
  DEF Next, Forwarding, Receiving, Looping

\* The inductive invariant holds in every reachable state of the Client.
THEOREM Invariance == Spec => []IInv
<1>1. Init => IInv
  <2> SUFFICES ASSUME Init PROVE IInv
    BY Zenon
  <2>1. <<>> \in Seq(Receivers) /\ <<>> \in Seq(Msgs) /\ MaxGen \in Nat
    BY ClientConstants
  <2>2. TypeOK
    <3>1. RegType
      BY <2>1 DEF Init, RegType, Gens
    <3>2. /\ recvs \in Seq(Receivers) /\ pos \in Nat \ {0} /\ marker \in Nat
          /\ handled \in [Receivers -> Seq(Msgs)] /\ cur \in (0..MaxGen) \X (Msgs \cup {NoMsg})
      BY <2>1 DEF Init
    <3>3. running \in BOOLEAN
      BY ZenonT(60) DEF Init
    <3>4. GoType
      BY <3>2, <3>3, Zenon DEF Init, GoType
    <3> QED
      BY <3>1, <3>4, Zenon DEF TypeOK, RegType, GoType
  <2>4. CurInv /\ MarkInv /\ FreshInv /\ NoLeak
    BY <2>1 DEF Init, CurInv, MarkInv, FreshInv, NoLeak
  <2>3. RefCounted
    <3>1. \A r \in Remotes : RefsTo(r) = {} /\ shared[r] = 0
      BY Zenon DEF Init, RefsTo
    <3> QED
      BY <3>1, FS_EmptySet, RefCountedDef, Zenon
  <2> QED
    BY <2>2, <2>3, <2>4, Zenon DEF IInv
<1>2. IInv /\ [Next]_vars => IInv'
  <2> SUFFICES ASSUME IInv, [Next]_vars PROVE IInv'
    BY Zenon
  <2>1. GoInv' /\ MarkInv'
    BY GoStep, Zenon
  <2>2. RegInv'
    <3>1. CASE Registry
      BY <3>1, BindSharedKeeps, BindNewKeeps, UnbindKeeps, Zenon DEF Registry
    <3>2. CASE LoopKill
      BY <3>2, KillKeeps, Zenon
    <3>3. CASE Forwarding \/ Receiving \/ (Looping /\ ~LoopKill)
      <4>1. UNCHANGED regVars
        BY <3>3, Zenon DEF Forwarding, Forward, ForwardStop, Receiving, Receive, Cancel,
          ReceiveReturn, LoopRegister, Looping, LoopTake, LoopSkip, LoopCall, LoopEnd,
          LoopClose
      <4> QED
        BY <4>1, OthersKeep, Zenon
    <3>4. CASE UNCHANGED vars
      BY <3>4, OthersKeep, Zenon DEF vars
    <3> QED
      BY <3>1, <3>2, <3>3, <3>4, Zenon DEF Next
  <2> QED
    BY <2>1, <2>2, ZenonT(60) DEF IInv, TypeOK, GoInv, GoType, RegInv, RegType
<1> QED
  BY <1>1, <1>2, PTL DEF Spec

\* Type correctness of the Client's state (TypeOK), for any constants.
THEOREM TypeCorrect == Spec => []TypeOK
BY Invariance, PTL DEF IInv

\* The reference counts of Bind and Unbind are exact (RefCounted).
THEOREM RefCountedHolds == Spec => []RefCounted
BY Invariance, PTL DEF IInv

\* Unbind, and only Unbind, leaves no Channel running that nobody can reach
\* through the map (NoLeak).
THEOREM NoLeakHolds == Spec => []NoLeak
BY Invariance, PTL DEF IInv

-----------------------------------------------------------------------------
(* The receivers: what the receive goroutine calls them with.              *)

\* But for its last d packets, a ends with b.
EndsWith(a, b, d) ==
  /\ Len(b) + d <= Len(a)
  /\ \A n \in 1..Len(b) : b[n] = a[n + (Len(a) - d - Len(b))]

\* A receiver that is called catches up with those called before it, and is ahead of
\* those called after it.
LEMMA EndsAppend ==
  ASSUME NEW a \in Seq(Msgs), NEW b \in Seq(Msgs), NEW m \in Msgs
  PROVE  /\ EndsWith(a, b, 1) /\ a[Len(a)] = m => EndsWith(a, Append(b, m), 0)
         /\ EndsWith(a, b, 0) => EndsWith(Append(a, m), b, 1)
<1>1. Len(a) \in Nat /\ Len(b) \in Nat
  OBVIOUS
<1>2. ASSUME EndsWith(a, b, 1), a[Len(a)] = m PROVE EndsWith(a, Append(b, m), 0)
  <2> DEFINE c == Append(b, m)
  <2>1. /\ Len(c) = Len(b) + 1 /\ c[Len(b) + 1] = m /\ \A n \in 1..Len(b) : c[n] = b[n]
    OBVIOUS
  <2> HIDE DEF c
  <2>2. ASSUME NEW n \in 1..Len(c) PROVE c[n] = a[n + (Len(a) - 0 - Len(c))]
    <3>1. CASE n = Len(b) + 1
      <4>1. n + (Len(a) - 0 - Len(c)) = Len(a)
        BY <1>1, <2>1, <3>1
      <4> QED
        BY <1>2, <2>1, <3>1, <4>1, Zenon
    <3>2. CASE n # Len(b) + 1
      <4>1. n \in 1..Len(b) /\ n + (Len(a) - 0 - Len(c)) = n + (Len(a) - 1 - Len(b))
        BY <1>1, <2>1, <3>2
      <4> QED
        BY <1>2, <2>1, <4>1, Zenon DEF EndsWith
    <3> QED
      BY <3>1, <3>2, Zenon
  <2>3. Len(c) + 0 <= Len(a)
    BY <1>1, <1>2, <2>1 DEF EndsWith
  <2>4. EndsWith(a, c, 0)
    BY <2>2, <2>3, Zenon DEF EndsWith
  <2> QED
    BY <2>4, Zenon DEF c
<1> DEFINE c == Append(a, m)
<1>3. /\ Len(c) = Len(a) + 1 /\ c[Len(a) + 1] = m /\ \A n \in 1..Len(a) : c[n] = a[n]
  OBVIOUS
<1> HIDE DEF c
<1>4. ASSUME EndsWith(a, b, 0) PROVE EndsWith(c, b, 1)
  <2>1. Len(b) <= Len(a)
    BY <1>1, <1>4 DEF EndsWith
  <2>2. ASSUME NEW n \in 1..Len(b) PROVE b[n] = c[n + (Len(c) - 1 - Len(b))]
    <3>1. /\ n + (Len(c) - 1 - Len(b)) = n + (Len(a) - 0 - Len(b))
          /\ n + (Len(a) - 0 - Len(b)) \in 1..Len(a)
      BY <1>1, <1>3, <2>1
    <3> QED
      BY <1>3, <1>4, <3>1, Zenon DEF EndsWith
  <2>3. Len(b) + 1 <= Len(c)
    BY <1>1, <1>3, <2>1
  <2> QED
    BY <2>2, <2>3, Zenon DEF EndsWith
<1> QED
  BY <1>2, <1>4, Zenon DEF c

\* A packet that was just handled is the last one.
LEMMA LastAppended ==
  ASSUME NEW a \in Seq(Msgs), NEW m \in Msgs
  PROVE  Append(a, m) # <<>> /\ Append(a, m)[Len(Append(a, m))] = m
OBVIOUS

\* EndsWith in the terms of NothingMissed.
LEMMA EndsSuffix ==
  ASSUME NEW a \in Seq(Msgs), NEW b \in Seq(Msgs), EndsWith(a, b, 0)
  PROVE  Len(b) <= Len(a) /\ b = SubSeq(a, Len(a) - Len(b) + 1, Len(a))
<1>1. Len(a) \in Nat /\ Len(b) \in Nat /\ Len(b) <= Len(a)
  BY DEF EndsWith
<1> DEFINE c == SubSeq(a, Len(a) - Len(b) + 1, Len(a))
<1>2. c \in Seq(Msgs) /\ Len(c) = Len(b)
  BY <1>1
<1>3. ASSUME NEW n \in 1..Len(b) PROVE c[n] = b[n]
  <2>1. c[n] = a[(Len(a) - Len(b) + 1) + n - 1]
    BY <1>1
  <2>2. (Len(a) - Len(b) + 1) + n - 1 = n + (Len(a) - 0 - Len(b))
    BY <1>1
  <2> QED
    BY <2>1, <2>2, Zenon DEF EndsWith
<1> HIDE DEF c
<1>4. b = c
  BY <1>1, <1>2, <1>3
<1> QED
  BY <1>1, <1>4, Zenon DEF c

\* In a list of receivers, each was called with all that those behind it were.
InOrder(h, s) ==
  \A i, j \in 1..Len(s) : i < j => s[i] # s[j] /\ EndsWith(h[s[i]], h[s[j]], 0)

\* Those of s were called with m, on top of all that those of t were called with.
Ahead(h, s, t, m) ==
  \A i \in 1..Len(s) :
    /\ h[s[i]] # <<>> /\ h[s[i]][Len(h[s[i]])] = m
    /\ \A j \in 1..Len(t) : s[i] # t[j] /\ EndsWith(h[s[i]], h[t[j]], 1)

\* Amid the calls with m, those of s were called and those of t were not.
Amid(h, s, t, m) == InOrder(h, s) /\ InOrder(h, t) /\ Ahead(h, s, t, m)

\* The list without its first receiver.
LEMMA WithoutFirst ==
  ASSUME NEW h, NEW s \in Seq(Receivers), NEW t \in Seq(Receivers), t # <<>>, NEW m,
         Amid(h, s, t, m)
  PROVE  Amid(h, s, Tail(t), m)
<1> DEFINE r == Tail(t)
<1>1. Len(t) \in Nat /\ Len(r) = Len(t) - 1 /\ \A i \in 1..(Len(t) - 1) : r[i] = t[i + 1]
  OBVIOUS
<1> HIDE DEF r
<1>2. \A i \in 1..Len(r) : i + 1 \in 1..Len(t) /\ r[i] = t[i + 1]
  BY <1>1
<1>3. \A i, j \in 1..Len(r) : i < j => i + 1 < j + 1
  OBVIOUS
<1>4. InOrder(h, r)
  <2> SUFFICES ASSUME NEW i \in 1..Len(r), NEW j \in 1..Len(r), i < j
               PROVE  r[i] # r[j] /\ EndsWith(h[r[i]], h[r[j]], 0)
    BY Zenon DEF InOrder
  <2>1. i + 1 \in 1..Len(t) /\ j + 1 \in 1..Len(t) /\ i + 1 < j + 1
    BY <1>2, <1>3, Zenon
  <2>2. t[i + 1] # t[j + 1] /\ EndsWith(h[t[i + 1]], h[t[j + 1]], 0)
    BY <2>1, Zenon DEF InOrder, Amid
  <2>3. r[i] = t[i + 1] /\ r[j] = t[j + 1]
    BY <1>2, Zenon
  <2> QED
    BY <2>2, <2>3, Zenon
<1>5. Ahead(h, s, r, m)
  <2> SUFFICES ASSUME NEW i \in 1..Len(s)
               PROVE  /\ h[s[i]] # <<>> /\ h[s[i]][Len(h[s[i]])] = m
                      /\ \A j \in 1..Len(r) : s[i] # r[j] /\ EndsWith(h[s[i]], h[r[j]], 1)
    BY Zenon DEF Ahead
  <2>1. /\ h[s[i]] # <<>> /\ h[s[i]][Len(h[s[i]])] = m
        /\ \A j \in 1..Len(t) : s[i] # t[j] /\ EndsWith(h[s[i]], h[t[j]], 1)
    BY Zenon DEF Ahead, Amid
  <2> QED
    BY <1>2, <2>1, Zenon
<1> QED
  BY <1>4, <1>5, Zenon DEF r, Amid

\* The list with a receiver that was not called yet.
LEMMA WithAnother ==
  ASSUME NEW h \in [Receivers -> Seq(Msgs)], NEW s \in Seq(Receivers), NEW k \in Receivers,
         InOrder(h, s), \A i \in 1..Len(s) : s[i] # k, h[k] = <<>>
  PROVE  InOrder(h, Append(s, k))
<1> DEFINE r == Append(s, k)
<1>1. /\ Len(s) \in Nat /\ Len(r) = Len(s) + 1 /\ r[Len(s) + 1] = k
      /\ \A i \in 1..Len(s) : r[i] = s[i] /\ s[i] \in Receivers
  OBVIOUS
<1> HIDE DEF r
<1>2. \A a \in Seq(Msgs) : EndsWith(a, <<>>, 0)
  BY DEF EndsWith
<1>3. ASSUME NEW i \in 1..Len(r), NEW j \in 1..Len(r), i < j
      PROVE  r[i] # r[j] /\ EndsWith(h[r[i]], h[r[j]], 0)
  <2>1. i \in 1..Len(s) /\ r[i] = s[i] /\ h[s[i]] \in Seq(Msgs)
    <3>1. i \in 1..Len(s)
      BY <1>1, <1>3
    <3> QED
      BY <1>1, <3>1, Zenon
  <2>2. CASE j = Len(s) + 1
    BY <1>1, <1>2, <2>1, <2>2, Zenon
  <2>3. CASE j # Len(s) + 1
    <3>1. Len(s) \in Nat /\ Len(r) = Len(s) + 1
      BY <1>1, Zenon
    <3>2. j \in 1..Len(s)
      BY <2>3, <3>1
    <3> QED
      BY <1>1, <1>3, <2>1, <3>2, Zenon DEF InOrder
  <2> QED
    BY <2>2, <2>3, Zenon
<1>4. InOrder(h, r)
  BY <1>3, Zenon DEF InOrder
<1> QED
  BY <1>4, Zenon DEF r

\* The first of those to be called is called, and becomes the last of those that were.
LEMMA CallFirst ==
  ASSUME NEW h \in [Receivers -> Seq(Msgs)], NEW s \in Seq(Receivers), NEW t \in Seq(Receivers),
         NEW x \in Receivers, NEW m \in Msgs, NEW h2, t # <<>>, x = Head(t),
         h2 = [h EXCEPT ![x] = Append(@, m)], Amid(h, s, t, m)
  PROVE  Amid(h2, Append(s, x), Tail(t), m)
<1>0. InOrder(h, s) /\ InOrder(h, t) /\ Ahead(h, s, t, m)
  BY Zenon DEF Amid
<1> DEFINE r == Tail(t)
           q == Append(s, x)
<1>1. /\ Len(s) \in Nat /\ Len(q) = Len(s) + 1 /\ q[Len(s) + 1] = x
      /\ \A i \in 1..Len(s) : q[i] = s[i] /\ s[i] \in Receivers
  OBVIOUS
<1>2. /\ Len(t) \in Nat /\ Len(t) >= 1 /\ x = t[1] /\ Len(r) = Len(t) - 1
      /\ \A i \in 1..(Len(t) - 1) : r[i] = t[i + 1] /\ r[i] \in Receivers
  OBVIOUS
<1> HIDE DEF r, q
<1>3. InOrder(h, r) /\ Ahead(h, s, r, m)
  BY WithoutFirst, Zenon DEF r, Amid
<1>4. \A j \in 1..Len(r) : r[j] \in Receivers /\ r[j] # x /\ EndsWith(h[x], h[r[j]], 0)
  <2> SUFFICES ASSUME NEW j \in 1..Len(r)
               PROVE  r[j] \in Receivers /\ r[j] # x /\ EndsWith(h[x], h[r[j]], 0)
    BY Zenon
  <2>1. 1 \in 1..Len(t) /\ j + 1 \in 1..Len(t) /\ 1 < j + 1 /\ j \in 1..(Len(t) - 1)
    BY <1>2
  <2> QED
    <3>1. t[1] # t[j + 1] /\ EndsWith(h[t[1]], h[t[j + 1]], 0)
      BY <1>0, <2>1, Zenon DEF InOrder
    <3>2. r[j] = t[j + 1] /\ r[j] \in Receivers /\ x = t[1]
      BY <1>2, <2>1, Zenon
    <3> QED
      BY <3>1, <3>2, Zenon
<1>5. \A i \in 1..Len(s) : /\ s[i] \in Receivers /\ s[i] # x /\ EndsWith(h[s[i]], h[x], 1)
                           /\ h[s[i]] # <<>> /\ h[s[i]][Len(h[s[i]])] = m
  <2>1. 1 \in 1..Len(t)
    BY <1>2
  <2> QED
    <3> SUFFICES ASSUME NEW i \in 1..Len(s)
                 PROVE  /\ s[i] \in Receivers /\ s[i] # x /\ EndsWith(h[s[i]], h[x], 1)
                        /\ h[s[i]] # <<>> /\ h[s[i]][Len(h[s[i]])] = m
      BY Zenon
    <3>1. /\ h[s[i]] # <<>> /\ h[s[i]][Len(h[s[i]])] = m
          /\ s[i] # t[1] /\ EndsWith(h[s[i]], h[t[1]], 1)
      BY <1>0, <2>1, Zenon DEF Ahead
    <3>2. x = t[1] /\ s[i] \in Receivers
      BY <1>1, <1>2, Zenon
    <3> QED
      BY <3>1, <3>2, Zenon
<1>6. h[x] \in Seq(Msgs) /\ h2[x] = Append(h[x], m) /\ \A y \in Receivers : y # x => h2[y] = h[y]
  BY Zenon
<1>7. InOrder(h2, r)
  <2>1. \A j \in 1..Len(r) : h2[r[j]] = h[r[j]]
    BY <1>4, <1>6, Zenon
  <2> QED
    BY <1>3, <2>1, Zenon DEF InOrder
<1>8. \A i \in 1..Len(s) : EndsWith(h[s[i]], h2[x], 0)
  <2> SUFFICES ASSUME NEW i \in 1..Len(s) PROVE EndsWith(h[s[i]], h2[x], 0)
    BY Zenon
  <2>1. h[s[i]] \in Seq(Msgs) /\ EndsWith(h[s[i]], h[x], 1) /\ h[s[i]][Len(h[s[i]])] = m
    BY <1>5, Zenon
  <2> QED
    BY <1>6, <2>1, EndsAppend, Zenon
<1>9. ASSUME NEW i \in 1..Len(q), NEW j \in 1..Len(q), i < j
      PROVE  q[i] # q[j] /\ EndsWith(h2[q[i]], h2[q[j]], 0)
  <2>1. i \in 1..Len(s)
    BY <1>1, <1>9
  <2>2. CASE j = Len(s) + 1
    <3>1. q[i] = s[i] /\ q[j] = x /\ s[i] # x /\ s[i] \in Receivers
      BY <1>1, <1>5, <2>1, <2>2, Zenon
    <3>2. h2[s[i]] = h[s[i]] /\ EndsWith(h[s[i]], h2[x], 0)
      BY <1>6, <1>8, <2>1, <3>1, Zenon
    <3> QED
      BY <3>1, <3>2, Zenon
  <2>3. CASE j # Len(s) + 1
    <3>0. Len(s) \in Nat /\ Len(q) = Len(s) + 1
      BY <1>1, Zenon
    <3>1. j \in 1..Len(s)
      BY <2>3, <3>0
    <3>2. s[i] # s[j] /\ EndsWith(h[s[i]], h[s[j]], 0)
      BY <1>0, <1>9, <2>1, <3>1, Zenon DEF InOrder
    <3> QED
      <4>1. q[i] = s[i] /\ q[j] = s[j]
        BY <1>1, <2>1, <3>1, Zenon
      <4>2. h2[s[i]] = h[s[i]] /\ h2[s[j]] = h[s[j]]
        BY <1>5, <1>6, <2>1, <3>1, Zenon
      <4> QED
        BY <3>2, <4>1, <4>2, Zenon
  <2> QED
    BY <2>2, <2>3, Zenon
<1>10. InOrder(h2, q)
  BY <1>9, Zenon DEF InOrder
<1>11. /\ h2[x] # <<>> /\ h2[x][Len(h2[x])] = m
       /\ \A j \in 1..Len(r) : x # r[j] /\ EndsWith(h2[x], h2[r[j]], 1)
  <2>1. h2[x] # <<>> /\ h2[x][Len(h2[x])] = m
    BY <1>6, LastAppended, Zenon
  <2>2. ASSUME NEW j \in 1..Len(r) PROVE x # r[j] /\ EndsWith(h2[x], h2[r[j]], 1)
    <3>1. r[j] # x /\ EndsWith(h[x], h[r[j]], 0) /\ h[r[j]] \in Seq(Msgs) /\ h2[r[j]] = h[r[j]]
      BY <1>4, <1>6, Zenon
    <3> QED
      BY <1>6, <3>1, EndsAppend, Zenon
  <2> QED
    BY <2>1, <2>2, Zenon
<1>12. ASSUME NEW i \in 1..Len(q)
       PROVE  /\ h2[q[i]] # <<>> /\ h2[q[i]][Len(h2[q[i]])] = m
              /\ \A j \in 1..Len(r) : q[i] # r[j] /\ EndsWith(h2[q[i]], h2[r[j]], 1)
  <2>1. CASE i = Len(s) + 1
    BY <1>1, <1>11, <2>1, Zenon
  <2>2. CASE i # Len(s) + 1
    <3>1. i \in 1..Len(s)
      BY <1>1, <2>2
    <3>2. /\ h[s[i]] # <<>> /\ h[s[i]][Len(h[s[i]])] = m /\ h2[s[i]] = h[s[i]] /\ q[i] = s[i]
      BY <1>1, <1>5, <1>6, <3>1, Zenon
    <3>3. \A j \in 1..Len(r) : s[i] # r[j] /\ EndsWith(h[s[i]], h[r[j]], 1) /\ h2[r[j]] = h[r[j]]
      <4>1. \A j \in 1..Len(r) : s[i] # r[j] /\ EndsWith(h[s[i]], h[r[j]], 1)
        BY <1>3, <3>1, Zenon DEF Ahead
      <4>2. \A j \in 1..Len(r) : h2[r[j]] = h[r[j]]
        BY <1>4, <1>6, Zenon
      <4> QED
        BY <4>1, <4>2, Zenon
    <3> QED
      BY <3>2, <3>3, Zenon
  <2> QED
    BY <2>1, <2>2, Zenon
<1>13. Ahead(h2, q, r, m)
  BY <1>12, Zenon DEF Ahead
<1> QED
  BY <1>7, <1>10, <1>13, Zenon DEF r, q, Amid

\* The receivers that were called for the packet, and those that were not yet.
Kept == SubSeq(recvs, 1, marker)
Calls == SubSeq(recvs, pos, Len(recvs))

In(s, k) == \E i \in 1..Len(s) : s[i] = k

Registered(s) == \A i \in 1..Len(s) : recv[s[i]] = "registered"

\* The receivers that are registered and whose context is not done.
Waiting(k) == recv[k] = "registered" /\ k \notin done

\* A receiver is called only once it is registered, which it is once.  Amid the calls for
\* a packet, those that were called are ahead of those that were not.  The goroutine
\* keeps whoever waits, and ends when nobody does.
CallInv ==
  /\ \A k \in Receivers : recv[k] # "registered" => handled[k] = <<>>
  /\ ~running => loop = "off"
  /\ loop \in {"off", "closing"} => \A k \in Receivers : ~Waiting(k)
  /\ loop = "select" => /\ InOrder(handled, recvs) /\ Registered(recvs)
                        /\ \A k \in Receivers : Waiting(k) => In(recvs, k)
  /\ loop \in {"call", "kill"} =>
       /\ Amid(handled, Kept, Calls, cur[2]) /\ Registered(Kept) /\ Registered(Calls)
       /\ \A k \in Receivers : Waiting(k) => In(Kept, k) \/ In(Calls, k)

\* Those that are left of a list of registered receivers are registered, and so is the
\* list with another.
LEMMA RegisteredLists ==
  ASSUME NEW s \in Seq(Receivers), Registered(s)
  PROVE  /\ s # <<>> => Registered(Tail(s))
         /\ \A x \in Receivers : recv[x] = "registered" => Registered(Append(s, x))
<1>1. ASSUME s # <<>> PROVE Registered(Tail(s))
  <2> DEFINE r == Tail(s)
  <2>1. /\ Len(s) \in Nat /\ Len(r) = Len(s) - 1 /\ \A i \in 1..(Len(s) - 1) : r[i] = s[i + 1]
    BY <1>1
  <2> HIDE DEF r
  <2>2. \A i \in 1..Len(r) : i + 1 \in 1..Len(s) /\ r[i] = s[i + 1]
    BY <2>1
  <2>3. Registered(r)
    BY <2>2, Zenon DEF Registered
  <2> QED
    BY <2>3, Zenon DEF r
<1>2. ASSUME NEW x \in Receivers, recv[x] = "registered" PROVE Registered(Append(s, x))
  <2> DEFINE q == Append(s, x)
  <2>1. /\ Len(s) \in Nat /\ Len(q) = Len(s) + 1 /\ q[Len(s) + 1] = x
        /\ \A i \in 1..Len(s) : q[i] = s[i]
    OBVIOUS
  <2> HIDE DEF q
  <2>2. \A i \in 1..Len(q) : i = Len(s) + 1 \/ i \in 1..Len(s)
    BY <2>1
  <2>3. Registered(q)
    BY <1>2, <2>1, <2>2, Zenon DEF Registered
  <2> QED
    BY <2>3, Zenon DEF q
<1> QED
  BY <1>1, <1>2, Zenon

\* Who is in a list without its first, and with another at its end.
LEMMA InLists ==
  ASSUME NEW s \in Seq(Receivers), NEW x \in Receivers
  PROVE  /\ \A k : In(s, k) => In(Append(s, x), k)
         /\ In(Append(s, x), x)
         /\ s # <<>> => \A k : In(s, k) => k = Head(s) \/ In(Tail(s), k)
         /\ \A k : ~In(<<>>, k)
<1>1. /\ Len(s) \in Nat /\ Len(Append(s, x)) = Len(s) + 1 /\ Append(s, x)[Len(s) + 1] = x
      /\ \A i \in 1..Len(s) : Append(s, x)[i] = s[i] /\ i \in 1..(Len(s) + 1)
      /\ Len(s) + 1 \in 1..(Len(s) + 1)
  OBVIOUS
<1>2. (\A k : In(s, k) => In(Append(s, x), k)) /\ In(Append(s, x), x)
  BY <1>1, Zenon DEF In
<1>3. ASSUME s # <<>>, NEW k, In(s, k), k # Head(s) PROVE In(Tail(s), k)
  <2>1. PICK i \in 1..Len(s) : s[i] = k
    BY <1>3, Zenon DEF In
  <2>2. Head(s) = s[1] /\ i # 1
    BY <1>3, <2>1
  <2>3. i - 1 \in 1..Len(Tail(s)) /\ Tail(s)[i - 1] = s[i]
    BY <1>3, <2>2
  <2> QED
    BY <2>1, <2>3, Zenon DEF In
<1>4. \A k : ~In(<<>>, k)
  BY DEF In
<1> QED
  BY <1>2, <1>3, <1>4, Zenon

\* Calls for a packet begin, go on past a receiver or to it, and end.
LEMMA LoopCalls ==
  ASSUME IInv, CallInv, \/ \E g \in Gens : LoopTake(g)
                        \/ LoopSkip \/ LoopCall \/ LoopKill \/ LoopEnd \/ LoopClose
  PROVE  CallInv'
<1>1. /\ recvs \in Seq(Receivers) /\ pos \in Nat \ {0} /\ marker \in Nat
      /\ handled \in [Receivers -> Seq(Msgs)]
      /\ \A k \in Receivers : recv[k] # "registered" => handled[k] = <<>>
      /\ ~running => loop = "off"
  BY Zenon DEF IInv, TypeOK, CallInv
<1>2. ASSUME loop \in {"call", "kill"}
      PROVE  /\ marker < pos /\ pos <= Len(recvs) + 1
             /\ Kept \in Seq(Receivers) /\ Calls \in Seq(Receivers)
             /\ marker = 0 => Kept = <<>>
             /\ pos > Len(recvs) => Calls = <<>>
             /\ Amid(handled, Kept, Calls, cur[2]) /\ Registered(Kept) /\ Registered(Calls)
             /\ \A k \in Receivers : Waiting(k) => In(Kept, k) \/ In(Calls, k)
  <2>1. marker < pos /\ pos <= Len(recvs) + 1
    BY <1>2, Zenon DEF IInv, MarkInv
  <2>2. /\ Kept \in Seq(Receivers) /\ Calls \in Seq(Receivers)
        /\ marker = 0 => Kept = <<>>
        /\ pos > Len(recvs) => Calls = <<>>
    BY <1>1, <2>1, Slices, Zenon DEF Kept, Calls
  <2> QED
    BY <1>2, <2>1, <2>2, Zenon DEF CallInv
<1>3. ASSUME NEW g \in Gens, LoopTake(g) PROVE CallInv'
  <2>1. /\ loop = "select" /\ loop' = "call" /\ pos' = 1 /\ marker' = 0 /\ recvs' = recvs
        /\ recv' = recv /\ handled' = handled /\ done' = done /\ running' = running
    BY <1>3, Zenon DEF LoopTake
  <2>2. /\ InOrder(handled, recvs) /\ Registered(recvs)
        /\ \A k \in Receivers : Waiting(k) => In(recvs, k)
    BY <2>1, Zenon DEF CallInv
  <2>3. SubSeq(recvs, 1, 0) = <<>> /\ SubSeq(recvs, 1, Len(recvs)) = recvs
    BY <1>1
  <2>4. Kept' = <<>> /\ Calls' = recvs
    BY <2>1, <2>3, Zenon DEF Kept, Calls
  <2>5. Registered(<<>>)' /\ \A m : Amid(handled, <<>>, recvs, m)
    BY <2>2 DEF InOrder, Registered, Ahead, Amid
  <2>6. "call" \notin {"off", "closing"} /\ "call" # "select"
    OBVIOUS
  <2> QED
    BY <1>1, <2>1, <2>2, <2>4, <2>5, <2>6, Zenon DEF CallInv, Registered, Waiting
<1>4. CASE LoopSkip
  <2>1. /\ loop = "call" /\ loop' = "call" /\ pos' = pos + 1 /\ marker' = marker /\ recvs' = recvs
        /\ recv' = recv /\ handled' = handled /\ cur' = cur /\ done' = done /\ running' = running
        /\ pos <= Len(recvs) /\ recvs[pos] \in done
    BY <1>4, Zenon DEF LoopSkip
  <2>2. Calls # <<>> /\ Head(Calls) = recvs[pos] /\ Calls' = Tail(Calls) /\ Kept' = Kept
    BY <1>1, <1>2, <2>1, Compacted, Zenon DEF Kept, Calls
  <2>3. Amid(handled, Kept, Tail(Calls), cur[2])
    BY <1>2, <2>1, <2>2, WithoutFirst, Zenon
  <2>4. Registered(Tail(Calls))
    BY <1>2, <2>1, <2>2, RegisteredLists, Zenon
  <2>5. ASSUME NEW k \in Receivers, Waiting(k) PROVE In(Kept, k) \/ In(Tail(Calls), k)
    <3>1. k # Head(Calls)
      BY <2>1, <2>2, <2>5, Zenon DEF Waiting
    <3> QED
      BY <1>2, <2>1, <2>2, <2>5, <3>1, InLists, Zenon
  <2>6. "call" \notin {"off", "closing"} /\ "call" # "select"
    OBVIOUS
  <2> QED
    BY <1>1, <1>2, <2>1, <2>2, <2>3, <2>4, <2>5, <2>6, Zenon DEF CallInv, Registered, Waiting
<1>5. CASE LoopCall
  <2>0. PICK x, m, h : x = recvs[pos] /\ m = cur[2] /\ h = handled'
    BY Zenon
  <2>1. /\ loop = "call" /\ loop' \in {"call", "kill"} /\ pos' = pos + 1 /\ marker' = marker + 1
        /\ recvs' = [recvs EXCEPT ![marker + 1] = recvs[pos]] /\ pos <= Len(recvs)
        /\ recv' = recv /\ cur' = cur /\ done' = done /\ running' = running
        /\ h = [handled EXCEPT ![x] = Append(@, m)]
    BY <1>5, <2>0, Zenon DEF LoopCall
  <2>2. /\ Calls # <<>> /\ Head(Calls) = x /\ Calls' = Tail(Calls) /\ Kept' = Append(Kept, x)
    <3>1. recvs' = Moved(recvs, pos, marker)
      BY <2>1, Zenon DEF Moved
    <3>2. loop = "call" /\ pos <= Len(recvs) /\ pos' = pos + 1 /\ marker' = marker + 1
      BY <2>1, Zenon
    <3>3. marker < pos
      BY <1>2, <3>2, Zenon
    <3>4. /\ SubSeq(recvs, pos, Len(recvs)) # <<>>
          /\ Head(SubSeq(recvs, pos, Len(recvs))) = recvs[pos]
          /\ Tail(SubSeq(recvs, pos, Len(recvs))) = SubSeq(recvs, pos + 1, Len(recvs))
          /\ SubSeq(Moved(recvs, pos, marker), pos + 1, Len(Moved(recvs, pos, marker)))
             = SubSeq(recvs, pos + 1, Len(recvs))
          /\ SubSeq(Moved(recvs, pos, marker), 1, marker + 1)
             = Append(SubSeq(recvs, 1, marker), recvs[pos])
      BY <1>1, <3>2, <3>3, Compacted, Zenon
    <3> QED
      BY <2>0, <3>1, <3>2, <3>4, Zenon DEF Kept, Calls
  <2>3. x \in Receivers /\ recv[x] = "registered"
    <3>1. 1 \in 1..Len(Calls) /\ Calls[1] = x /\ Calls[1] \in Receivers
      BY <1>2, <2>1, <2>2
    <3> QED
      BY <1>2, <2>1, <3>1, Zenon DEF Registered
  <2>4. m \in Msgs
    BY <2>0, <2>1, Zenon DEF IInv, CurInv
  <2>5. Amid(h, Append(Kept, x), Tail(Calls), m)
    BY <1>1, <1>2, <2>0, <2>1, <2>2, <2>3, <2>4, CallFirst, Zenon
  <2>6. Registered(Tail(Calls)) /\ Registered(Append(Kept, x))
    BY <1>2, <2>1, <2>2, <2>3, RegisteredLists, Zenon
  <2>7. \A k \in Receivers : recv[k] # "registered" => h[k] = <<>>
    BY <1>1, <2>1, <2>3, Zenon
  <2>8. ASSUME NEW k \in Receivers, Waiting(k)
        PROVE  In(Append(Kept, x), k) \/ In(Tail(Calls), k)
    BY <1>2, <2>1, <2>2, <2>3, <2>8, InLists, Zenon
  <2>9. loop' \notin {"off", "closing"} /\ loop' # "select"
    BY <2>1
  <2> QED
    BY <1>1, <2>0, <2>1, <2>2, <2>5, <2>6, <2>7, <2>8, <2>9, Zenon DEF CallInv, Registered, Waiting
<1>6. CASE LoopKill
  <2>1. /\ loop = "kill" /\ loop' = "call" /\ pos' = pos /\ marker' = marker /\ recvs' = recvs
        /\ recv' = recv /\ handled' = handled /\ cur' = cur /\ done' = done /\ running' = running
    BY <1>6, Zenon DEF LoopKill
  <2>2. "call" \notin {"off", "closing"} /\ "call" # "select" /\ Kept' = Kept /\ Calls' = Calls
    BY <2>1 DEF Kept, Calls
  <2> QED
    BY <1>1, <1>2, <2>1, <2>2, Zenon DEF CallInv, Registered, Waiting
<1>7. CASE LoopEnd
  <2>1. /\ loop = "call" /\ recvs' = Kept /\ pos > Len(recvs)
        /\ loop' = IF marker = 0 THEN "closing" ELSE "select"
        /\ recv' = recv /\ handled' = handled /\ done' = done /\ running' = running
    BY <1>7, Zenon DEF LoopEnd, Kept
  <2>2. InOrder(handled, Kept) /\ Registered(Kept) /\ Calls = <<>>
    BY <1>2, <2>1, Zenon DEF Amid
  <2>3. \A k \in Receivers : Waiting(k) => In(Kept, k)
    <3>1. \A k : ~In(<<>>, k)
      BY DEF In
    <3> QED
      BY <1>2, <2>1, <2>2, <3>1, Zenon
  <2>4. CASE marker = 0
    <3>1. Kept = <<>> /\ loop' = "closing" /\ running = TRUE
      BY <1>1, <1>2, <2>1, <2>4
    <3>2. \A k \in Receivers : ~Waiting(k)
      BY <2>3, <3>1 DEF In
    <3>3. "closing" # "select" /\ "closing" \notin {"call", "kill"}
      OBVIOUS
    <3> QED
      BY <1>1, <2>1, <3>1, <3>2, <3>3, Zenon DEF CallInv, Waiting
  <2>5. CASE marker # 0
    <3>1. loop' = "select" /\ "select" \notin {"call", "kill", "off", "closing"}
      BY <2>1, <2>5
    <3> QED
      BY <1>1, <2>1, <2>2, <2>3, <3>1, Zenon DEF CallInv, Registered, Waiting
  <2> QED
    BY <2>4, <2>5, Zenon
<1>8. CASE LoopClose
  <2>1. /\ loop = "closing" /\ loop' = "off" /\ running' = FALSE
        /\ recv' = recv /\ handled' = handled /\ done' = done
    BY <1>8, Zenon DEF LoopClose
  <2>2. \A k \in Receivers : ~Waiting(k)
    BY <2>1, Zenon DEF CallInv
  <2> QED
    BY <1>1, <2>1, <2>2, Zenon DEF CallInv, Waiting
<1> QED
  BY <1>3, <1>4, <1>5, <1>6, <1>7, <1>8, Zenon

\* Receive and its return leave the calls alone; a receiver is registered that was
\* called with nothing yet, and a Receive that starts the goroutine finds nobody waiting.
LEMMA ReceiveCalls ==
  ASSUME IInv, CallInv, NEW k \in Receivers,
         Receive(k) \/ ReceiveReturn(k) \/ LoopRegister(k)
  PROVE  CallInv'
<1>1. /\ recvs \in Seq(Receivers) /\ pos \in Nat \ {0} /\ marker \in Nat
      /\ handled \in [Receivers -> Seq(Msgs)]
      /\ recv \in [Receivers -> {"idle", "offer", "registered", "returned"}]
  BY Zenon DEF IInv, TypeOK
<1>2. /\ recv[k] \in {"idle", "offer"} /\ handled' = handled /\ pos' = pos /\ marker' = marker
      /\ \/ recv' = [recv EXCEPT ![k] = "offer"] \/ recv' = [recv EXCEPT ![k] = "returned"]
         \/ recv' = [recv EXCEPT ![k] = "registered"]
      /\ cur' = cur /\ done' = done
  BY Zenon DEF Receive, ReceiveReturn, LoopRegister, loopVars
<1>3. \A x \in Receivers : recv[x] = "registered" => recv'[x] = "registered"
  BY <1>1, <1>2, Zenon
<1>4. \A x \in Receivers : recv'[x] # "registered" => handled'[x] = <<>>
  BY <1>2, <1>3, Zenon DEF CallInv
<1>5. CASE Receive(k) \/ ReceiveReturn(k)
  <2>1. \A x \in Receivers : Waiting(x)' => Waiting(x)
    <3>1. recv' = [recv EXCEPT ![k] = "offer"] \/ recv' = [recv EXCEPT ![k] = "returned"]
      BY <1>5, Zenon DEF Receive, ReceiveReturn
    <3>2. \A x \in Receivers : recv'[x] = "registered" => recv[x] = "registered"
      BY <1>1, <3>1
    <3> QED
      BY <1>2, <3>2, Zenon DEF Waiting
  <2>2. \/ UNCHANGED <<running, loop, recvs>>
        \/ ~running /\ running' = TRUE /\ loop' = "select" /\ recvs' = <<>>
    BY <1>5, Zenon DEF Receive, ReceiveReturn, loopVars
  <2>3. CASE UNCHANGED <<running, loop, recvs>>
    <3>1. Kept' = Kept /\ Calls' = Calls
      BY <1>2, <2>3, Zenon DEF Kept, Calls
    <3>2. loop \in {"call", "kill"} => Kept \in Seq(Receivers) /\ Calls \in Seq(Receivers)
      BY <1>1, Slices, Zenon DEF IInv, MarkInv, Kept, Calls
    <3>3. ASSUME NEW s \in Seq(Receivers), Registered(s)
          PROVE  \A i \in 1..Len(s) : recv'[s[i]] = "registered"
      <4>1. \A i \in 1..Len(s) : s[i] \in Receivers
        OBVIOUS
      <4> QED
        BY <1>3, <3>3, <4>1, Zenon DEF Registered
    <3>4. /\ (~running)' => loop' = "off"
          /\ loop' \in {"off", "closing"} => \A x \in Receivers : ~Waiting(x)'
      BY <2>1, <2>3, Zenon DEF CallInv
    <3>5. loop' = "select" => /\ InOrder(handled', recvs') /\ Registered(recvs)'
                              /\ \A x \in Receivers : Waiting(x)' => In(recvs, x)'
      BY <1>1, <1>2, <2>1, <2>3, <3>3, Zenon DEF CallInv, Registered, In
    <3>6. loop' \in {"call", "kill"} =>
            /\ Amid(handled', Kept', Calls', cur'[2]) /\ Registered(Kept)' /\ Registered(Calls)'
            /\ \A x \in Receivers : Waiting(x)' => In(Kept, x)' \/ In(Calls, x)'
      <4> SUFFICES ASSUME loop \in {"call", "kill"}
                   PROVE  /\ Amid(handled, Kept, Calls, cur[2])
                          /\ Registered(Kept)' /\ Registered(Calls)'
                          /\ \A x \in Receivers : Waiting(x)' => In(Kept, x) \/ In(Calls, x)
        BY <1>2, <2>3, <3>1, Zenon DEF In
      <4>1. /\ Amid(handled, Kept, Calls, cur[2]) /\ Registered(Kept) /\ Registered(Calls)
            /\ \A x \in Receivers : Waiting(x) => In(Kept, x) \/ In(Calls, x)
        BY Zenon DEF CallInv
      <4>2. Registered(Kept)' /\ Registered(Calls)'
        BY <3>1, <3>2, <3>3, <4>1, Zenon DEF Registered
      <4> QED
        BY <2>1, <4>1, <4>2, Zenon
    <3> QED
      BY <1>4, <3>4, <3>5, <3>6, Zenon DEF CallInv
  <2>4. CASE ~running /\ running' = TRUE /\ loop' = "select" /\ recvs' = <<>>
    <3>1. \A x \in Receivers : ~Waiting(x)'
      BY <2>1, <2>4, Zenon DEF CallInv
    <3>2. InOrder(handled', <<>>) /\ Registered(<<>>)'
      BY DEF InOrder, Registered
    <3>3. "select" \notin {"call", "kill", "off", "closing"}
      OBVIOUS
    <3> QED
      BY <1>4, <2>4, <3>1, <3>2, <3>3, Zenon DEF CallInv, Registered
  <2> QED
    BY <2>2, <2>3, <2>4, Zenon
<1>6. CASE LoopRegister(k)
  <2>1. /\ loop = "select" /\ loop' = "select" /\ running' = running
        /\ recvs' = Append(recvs, k) /\ recv' = [recv EXCEPT ![k] = "registered"]
    BY <1>6, Zenon DEF LoopRegister
  <2>2. /\ InOrder(handled, recvs) /\ Registered(recvs) /\ handled[k] = <<>>
        /\ \A x \in Receivers : Waiting(x) => In(recvs, x)
        /\ ~running => loop = "off"
    BY <1>2, <2>1, Zenon DEF CallInv
  <2>3. \A i \in 1..Len(recvs) : recvs[i] # k
    BY <1>2, <2>2, Zenon DEF Registered
  <2>4. InOrder(handled, Append(recvs, k))
    BY <1>1, <2>2, <2>3, WithAnother, Zenon
  <2>5. ASSUME NEW i \in 1..Len(Append(recvs, k)) PROVE recv'[Append(recvs, k)[i]] = "registered"
    <3>1. CASE i = Len(recvs) + 1
      BY <1>1, <2>1, <3>1
    <3>2. CASE i # Len(recvs) + 1
      <4>1. i \in 1..Len(recvs) /\ Append(recvs, k)[i] = recvs[i] /\ recvs[i] \in Receivers
        BY <1>1, <3>2
      <4> QED
        BY <1>3, <2>2, <4>1, Zenon DEF Registered
    <3> QED
      BY <3>1, <3>2, Zenon
  <2>6. ASSUME NEW x \in Receivers, Waiting(x)' PROVE In(Append(recvs, k), x)
    <3>1. x = k \/ Waiting(x)
      BY <1>1, <1>2, <2>1, <2>6, Zenon DEF Waiting
    <3> QED
      BY <1>1, <2>2, <3>1, InLists, Zenon
  <2>7. "select" \notin {"call", "kill", "off", "closing"}
    OBVIOUS
  <2> QED
    BY <1>2, <1>4, <2>1, <2>2, <2>4, <2>5, <2>6, <2>7, Zenon DEF CallInv, Registered
<1> QED
  BY <1>5, <1>6, Zenon

\* Once registered a receiver misses no packet until its context is done (NothingMissed):
\* the receive goroutine compacts its list in place while it ranges over it, and neither
\* skips one, nor calls it twice, nor drops it, nor ends while one waits.
THEOREM NothingMissedHolds == Spec => []NothingMissed
<1>1. Init => CallInv
  <2> SUFFICES ASSUME Init PROVE CallInv
    BY Zenon
  <2>1. /\ \A k \in Receivers : recv[k] = "idle" /\ handled[k] = <<>>
        /\ loop = "off"
    BY Zenon DEF Init
  <2>2. "idle" # "registered" /\ "off" # "select" /\ "off" \notin {"call", "kill"}
    OBVIOUS
  <2> QED
    BY <2>1, <2>2, Zenon DEF CallInv, Waiting
<1>2. IInv /\ CallInv /\ [Next]_vars => CallInv'
  <2> SUFFICES ASSUME IInv, CallInv, [Next]_vars PROVE CallInv'
    BY Zenon
  <2>1. CASE Registry \/ Forwarding \/ UNCHANGED vars \/ \E k \in Receivers : Cancel(k)
    <3>1. UNCHANGED loopVars /\ recv' = recv /\ done \subseteq done'
      BY <2>1, Zenon DEF Registry, BindShared, BindNew, Unbind, Forwarding, Forward, ForwardStop,
                  Cancel, vars
    <3>2. Kept' = Kept /\ Calls' = Calls /\ \A k : Waiting(k)' => Waiting(k)
      BY <3>1, Zenon DEF Kept, Calls, Waiting, loopVars
    <3> QED
      BY <3>1, <3>2, Zenon DEF CallInv, Registered, In, loopVars
  <2> QED
    BY <2>1, LoopCalls, ReceiveCalls, Zenon DEF Next, Receiving, Looping
<1>3. IInv /\ CallInv => NothingMissed
  <2> SUFFICES ASSUME IInv, CallInv, loop = "select" PROVE NothingMissed
    BY Zenon DEF NothingMissed
  <2>1. recvs \in Seq(Receivers) /\ handled \in [Receivers -> Seq(Msgs)]
    BY Zenon DEF IInv, TypeOK
  <2>2. DOMAIN recvs = 1..Len(recvs)
    BY <2>1
  <2>3. ASSUME NEW k \in Receivers \ done, recv[k] = "registered"
        PROVE  \E i \in DOMAIN recvs : recvs[i] = k
    BY <2>2, <2>3, Zenon DEF CallInv, Waiting, In
  <2>4. ASSUME NEW i \in DOMAIN recvs, NEW j \in DOMAIN recvs, i < j
        PROVE  LET a == handled[recvs[i]]
                   b == handled[recvs[j]]
               IN  Len(b) <= Len(a) /\ b = SubSeq(a, Len(a) - Len(b) + 1, Len(a))
    <3> DEFINE a == handled[recvs[i]]
               b == handled[recvs[j]]
    <3>1. a \in Seq(Msgs) /\ b \in Seq(Msgs) /\ i \in 1..Len(recvs) /\ j \in 1..Len(recvs)
      BY <2>1, <2>4
    <3>2. EndsWith(a, b, 0)
      BY <2>4, <3>1, Zenon DEF CallInv, InOrder
    <3> QED
      BY <3>1, <3>2, EndsSuffix, Zenon
  <2> QED
    BY <2>3, <2>4, Zenon DEF NothingMissed
<1> QED
  BY <1>1, <1>2, <1>3, Invariance, PTL DEF Spec
=============================================================================
