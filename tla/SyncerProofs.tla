---------------------------- MODULE SyncerProofs ----------------------------
(* Proofs that Syncer keeps the filter's counts exact, leaves no pending    *)
(* entry behind, and that an answer reaches those who wait for it, for any  *)
(* finite number of calls and any content IDs.                              *)
EXTENDS Syncer, FiniteSetTheorems, TLAPS

Places == {"idle", "allow", "pull", "wait", "cleanup", "wiggle", "done"}

\* Types of the filter's counts, the pending entries and the places of calls.
TypeOK ==
  /\ expecting \in [Contents -> (Nat \ {0}) \cup {NoEntry}]
  /\ pending \in [Contents -> Calls \cup {NoCall}]
  /\ pc \in [Calls -> Places]

IInv == TypeOK /\ AllowedExactly /\ PendingOwned

\* The calls that are counted form a finite set.
LEMMA AllowingFinite ==
  ASSUME NEW c \in Contents
  PROVE  IsFiniteSet(Allowing(c)) /\ Cardinality(Allowing(c)) \in Nat
<1>1. Allowing(c) \in SUBSET Calls
  BY DEF Allowing
<1> QED
  BY <1>1, SyncerConstants, FS_Subset, FS_CardinalityType

\* The second conjunct of AllowedExactly follows from the types: an entry of the
\* filter is never zero.
LEMMA EntryIsCounted ==
  ASSUME TypeOK, NEW c \in Contents
  PROVE  /\ Count(c) \in Nat
         /\ Filter(c) = (Count(c) = 0)
<1>1. NoEntry \notin Int
  BY SyncerConstants
<1>2. expecting[c] \in (Nat \ {0}) \cup {NoEntry}
  BY DEF TypeOK
<1>3. CASE expecting[c] = NoEntry
  BY <1>3 DEF Count, Filter
<1>4. CASE expecting[c] # NoEntry
  BY <1>1, <1>2, <1>4 DEF Count, Filter
<1> QED
  BY <1>3, <1>4

\* The same in the state after a step.
LEMMA EntryIsCountedNext ==
  ASSUME TypeOK', NEW c \in Contents
  PROVE  Filter(c)' = (Count(c)' = 0)
<1>1. NoEntry \notin Int /\ expecting'[c] \in (Nat \ {0}) \cup {NoEntry}
  BY SyncerConstants DEF TypeOK
<1>2. CASE expecting'[c] = NoEntry
  BY <1>2 DEF Count, Filter
<1>3. CASE expecting'[c] # NoEntry
  BY <1>1, <1>3 DEF Count, Filter
<1> QED
  BY <1>2, <1>3

\* A call that moves from one place to another, both counted or both not, leaves
\* the counted calls as they were.
LEMMA AllowingKept ==
  ASSUME TypeOK, NEW k \in Calls, NEW to \in Places, pc' = [pc EXCEPT ![k] = to],
         pc[k] \in {"pull", "wait", "cleanup", "wiggle"}
           <=> to \in {"pull", "wait", "cleanup", "wiggle"}
  PROVE  \A c \in Contents : Allowing(c)' = Allowing(c)
BY DEF TypeOK, Allowing

\* Where the filter and the counted calls stay, the counts stay exact.
LEMMA ExactKept ==
  ASSUME AllowedExactly, expecting' = expecting,
         \A c \in Contents : Allowing(c)' = Allowing(c)
  PROVE  AllowedExactly'
BY DEF AllowedExactly, Count, Filter

\* The steps of a call that change neither the filter nor a pending entry, and leave
\* the call between its look-up and its clean-up.
LEMMA UnderWay ==
  ASSUME IInv, NEW k \in Calls, NEW to \in {"pull", "wait", "cleanup"},
         pc[k] \in {"pull", "wait"}, pc' = [pc EXCEPT ![k] = to],
         expecting' = expecting, pending' = pending
  PROVE  IInv'
<1>1. TypeOK /\ AllowedExactly /\ PendingOwned
  BY DEF IInv
<1>2. TypeOK'
  BY <1>1 DEF TypeOK, Places
<1>3. AllowedExactly'
  <2>1. to \in Places
    BY DEF Places
  <2> QED
    BY <1>1, <2>1, AllowingKept, ExactKept, ZenonT(60)
<1>4. PendingOwned'
  BY <1>1 DEF TypeOK, PendingOwned
<1> QED
  BY <1>2, <1>3, <1>4 DEF IInv

\* Steps that move no call and touch neither the filter nor an entry.
LEMMA Elsewhere ==
  ASSUME IInv, expecting' = expecting, pending' = pending, pc' = pc
  PROVE  IInv'
BY DEF IInv, TypeOK, AllowedExactly, PendingOwned, Allowing, Count, Filter

\* The look-up creates or takes the entry of the call's content ID.
LEMMA LookupStep ==
  ASSUME IInv, NEW k \in Calls, Lookup(k)
  PROVE  IInv'
<1> DEFINE c == ContentOf[k]
           e == IF pending[c] = NoCall THEN k ELSE pending[c]
<1>1. TypeOK /\ AllowedExactly /\ PendingOwned
  BY DEF IInv
<1>2. c \in Contents /\ e \in Calls
  BY <1>1, SyncerConstants DEF TypeOK
<1>3. /\ pc[k] = "idle" /\ pc' = [pc EXCEPT ![k] = "allow"]
      /\ pending' = [pending EXCEPT ![c] = e] /\ expecting' = expecting
  BY DEF Lookup, Go
<1> HIDE DEF c, e
<1>4. TypeOK'
  BY <1>1, <1>2, <1>3 DEF TypeOK, Places
<1>5. AllowedExactly'
  <2>1. "allow" \in Places
    BY DEF Places
  <2> QED
    BY <1>1, <1>3, <2>1, AllowingKept, ExactKept, ZenonT(60)
<1>6. PendingOwned'
  <2> SUFFICES ASSUME NEW d \in Contents, pending'[d] # NoCall
               PROVE  \E j \in Calls : ContentOf[j] = d /\
                        pc'[j] \in {"allow", "pull", "wait", "cleanup"}
    BY DEF PendingOwned
  <2>1. CASE d = c
    BY <1>1, <1>3, <2>1 DEF TypeOK, c
  <2>2. CASE d # c
    BY <1>1, <1>3, <2>2 DEF TypeOK, PendingOwned
  <2> QED
    BY <2>1, <2>2
<1> QED
  BY <1>4, <1>5, <1>6 DEF IInv

\* Allow: the call joins those that are counted.
LEMMA AllowStep ==
  ASSUME IInv, NEW k \in Calls, AllowContent(k)
  PROVE  IInv'
<1> DEFINE c == ContentOf[k]
           to == IF entry[k] = k THEN "pull" ELSE "wait"
<1>1. TypeOK /\ AllowedExactly /\ PendingOwned
  BY DEF IInv
<1>2. c \in Contents /\ to \in {"pull", "wait"}
  BY SyncerConstants
<1>3. /\ pc[k] = "allow" /\ pc' = [pc EXCEPT ![k] = to] /\ pending' = pending
      /\ expecting' = [expecting EXCEPT ![c] = Count(c) + 1]
  BY DEF AllowContent, Go, Allow
<1>4. ContentOf[k] = c
  OBVIOUS
<1> HIDE DEF c, to
<1>5. Count(c) \in Nat /\ NoEntry \notin Int
  BY <1>1, <1>2, EntryIsCounted, SyncerConstants
<1>6. TypeOK'
  <2>1. Count(c) + 1 \in Nat \ {0}
    BY <1>5
  <2> QED
    BY <1>1, <1>2, <1>3, <2>1 DEF TypeOK, Places
<1>7. AllowedExactly'
  <2> SUFFICES ASSUME NEW d \in Contents
               PROVE  Count(d)' = Cardinality(Allowing(d)')
    <3>1. \A d \in Contents : Filter(d)' = (Count(d)' = 0)
      BY <1>6, EntryIsCountedNext
    <3> QED
      BY <3>1 DEF AllowedExactly
  <2>1. Count(d) = Cardinality(Allowing(d))
    BY <1>1 DEF AllowedExactly
  <2>2. CASE d = c
    <3>1. Count(d)' = Count(d) + 1
      BY <1>1, <1>2, <1>3, <1>5, <2>2 DEF TypeOK, Count
    <3>2. Allowing(d)' = Allowing(d) \cup {k} /\ k \notin Allowing(d)
      BY <1>1, <1>2, <1>3, <1>4, <2>2 DEF TypeOK, Allowing
    <3> QED
      BY <2>1, <3>1, <3>2, AllowingFinite, FS_AddElement, ZenonT(60)
  <2>3. CASE d # c
    <3>1. Count(d)' = Count(d)
      BY <1>1, <1>3, <2>3 DEF TypeOK, Count
    <3>2. Allowing(d)' = Allowing(d)
      BY <1>1, <1>3, <1>4, <2>3 DEF TypeOK, Allowing
    <3> QED
      BY <2>1, <3>1, <3>2
  <2> QED
    BY <2>2, <2>3
<1>8. PendingOwned'
  BY <1>1, <1>2, <1>3 DEF TypeOK, PendingOwned
<1> QED
  BY <1>6, <1>7, <1>8 DEF IInv

\* The clean-up takes away whatever entry its content ID has.
LEMMA CleanupStep ==
  ASSUME IInv, NEW k \in Calls, Cleanup(k)
  PROVE  IInv'
<1>1. TypeOK /\ AllowedExactly /\ PendingOwned
  BY DEF IInv
<1>2. /\ pc[k] = "cleanup" /\ pc' = [pc EXCEPT ![k] = "wiggle"]
      /\ pending' = [pending EXCEPT ![ContentOf[k]] = NoCall] /\ expecting' = expecting
  BY DEF Cleanup, Go
<1>3. TypeOK'
  BY <1>1, <1>2, ZenonT(60) DEF TypeOK, Places
<1>4. AllowedExactly'
  <2>1. "wiggle" \in Places
    BY DEF Places
  <2> QED
    BY <1>1, <1>2, <2>1, AllowingKept, ExactKept, ZenonT(60)
<1>5. PendingOwned'
  BY <1>1, <1>2, SyncerConstants DEF TypeOK, PendingOwned
<1> QED
  BY <1>3, <1>4, <1>5 DEF IInv

\* Deny: the call leaves those that are counted, so there was an entry to count down.
LEMMA DenyStep ==
  ASSUME IInv, NEW k \in Calls, DenyContent(k)
  PROVE  IInv'
<1> DEFINE c == ContentOf[k]
<1>1. TypeOK /\ AllowedExactly /\ PendingOwned
  BY DEF IInv
<1>2. c \in Contents /\ NoEntry \notin Int
  BY SyncerConstants
<1>3. /\ pc[k] = "wiggle" /\ pc' = [pc EXCEPT ![k] = "done"] /\ pending' = pending
      /\ expecting' = [expecting EXCEPT ![c] = IF Count(c) = 1 THEN NoEntry ELSE Count(c) - 1]
  BY DEF DenyContent, Go, Deny
<1>4. ContentOf[k] = c
  OBVIOUS
<1> HIDE DEF c
<1>5. Count(c) \in Nat /\ Count(c) > 0
  <2>1. k \in Allowing(c)
    BY <1>3, <1>4 DEF Allowing
  <2>2. Cardinality(Allowing(c)) # 0
    BY <1>2, <2>1, AllowingFinite, FS_EmptySet
  <2> QED
    BY <1>1, <1>2, <2>2, EntryIsCounted DEF AllowedExactly
<1>6. TypeOK'
  <2>1. (IF Count(c) = 1 THEN NoEntry ELSE Count(c) - 1) \in (Nat \ {0}) \cup {NoEntry}
    BY <1>5
  <2> QED
    BY <1>1, <1>2, <1>3, <2>1 DEF TypeOK, Places
<1>7. AllowedExactly'
  <2> SUFFICES ASSUME NEW d \in Contents
               PROVE  Count(d)' = Cardinality(Allowing(d)')
    <3>1. \A d \in Contents : Filter(d)' = (Count(d)' = 0)
      BY <1>6, EntryIsCountedNext
    <3> QED
      BY <3>1 DEF AllowedExactly
  <2>1. Count(d) = Cardinality(Allowing(d))
    BY <1>1 DEF AllowedExactly
  <2>2. CASE d = c
    <3>1. Count(d)' = Count(d) - 1
      BY <1>1, <1>2, <1>3, <1>5, <2>2 DEF TypeOK, Count
    <3>2. Allowing(d)' = Allowing(d) \ {k} /\ k \in Allowing(d)
      BY <1>1, <1>2, <1>3, <1>4, <2>2 DEF TypeOK, Allowing
    <3> QED
      BY <2>1, <3>1, <3>2, AllowingFinite, FS_RemoveElement
  <2>3. CASE d # c
    <3>1. Count(d)' = Count(d)
      BY <1>1, <1>3, <2>3 DEF TypeOK, Count
    <3>2. Allowing(d)' = Allowing(d)
      BY <1>1, <1>3, <1>4, <2>3 DEF TypeOK, Allowing
    <3> QED
      BY <2>1, <3>1, <3>2
  <2> QED
    BY <2>2, <2>3
<1>8. PendingOwned'
  BY <1>1, <1>3 DEF TypeOK, PendingOwned
<1> QED
  BY <1>6, <1>7, <1>8 DEF IInv

\* At first nothing is expected, pending or under way.
LEMMA Initially == Init => IInv
<1> SUFFICES ASSUME Init PROVE IInv
  OBVIOUS
<1>1. TypeOK
  BY DEF Init, FilterInit, TypeOK, Places
<1>2. AllowedExactly
  <2> SUFFICES ASSUME NEW c \in Contents
               PROVE  Count(c) = Cardinality(Allowing(c)) /\ Filter(c) = (Count(c) = 0)
    BY ZenonT(60) DEF AllowedExactly
  <2>1. Allowing(c) = {}
    BY DEF Init, Allowing
  <2>2. Count(c) = 0
    BY DEF Init, FilterInit, Count
  <2> QED
    BY <1>1, <2>1, <2>2, EntryIsCounted, FS_EmptySet
<1>3. PendingOwned
  BY DEF Init, PendingOwned
<1> QED
  BY <1>1, <1>2, <1>3 DEF IInv

\* Every step keeps the invariant.
LEMMA Step == IInv /\ [Next]_vars => IInv'
<1> SUFFICES ASSUME IInv, [Next]_vars PROVE IInv'
  OBVIOUS
<1>1. ASSUME NEW k \in Calls, CallStep(k) PROVE IInv'
  <2>1. CASE Lookup(k)
    BY <2>1, LookupStep
  <2>2. CASE AllowContent(k)
    BY <2>2, AllowStep
  <2>3. CASE Pull(k) \/ WaiterWake(k)
    BY <2>3, Elsewhere DEF Pull, WaiterWake
  <2>4. CASE Wait(k)
    BY <2>4, UnderWay, ZenonT(60) DEF Wait, Go
  <2>5. CASE ReturnContent(k)
    BY <2>5, UnderWay, ZenonT(60) DEF ReturnContent, Go
  <2>6. CASE ReturnCancelled(k)
    BY <2>6, UnderWay, ZenonT(60) DEF ReturnCancelled
  <2>7. CASE Cleanup(k)
    BY <2>7, CleanupStep
  <2>8. CASE DenyContent(k)
    BY <2>8, DenyStep
  <2> QED
    BY <1>1, <2>1, <2>2, <2>3, <2>4, <2>5, <2>6, <2>7, <2>8 DEF CallStep
<1>2. ASSUME NEW k \in Calls, Cancel(k) PROVE IInv'
  BY <1>2, Elsewhere DEF Cancel, callVars
<1>3. ASSUME NEW c \in Contents, Receive(c) \/ Signal(c) PROVE IInv'
  BY <1>3, Elsewhere DEF Receive, Signal, callVars
<1>4. CASE UNCHANGED vars
  BY <1>4, Elsewhere DEF vars
<1> QED
  BY <1>1, <1>2, <1>3, <1>4 DEF Next

\* Counts in the filter are positive, and entries are named after calls of Sync.
THEOREM TypeCorrect == Spec => []TypeOK
<1>1. IInv => TypeOK
  BY DEF IInv
<1> QED
  BY <1>1, Initially, Step, PTL DEF Spec

\* SyncFilter expects a content ID exactly as often as calls of Sync have allowed it
\* and not yet denied it, whatever their number and whichever end early.
THEOREM AllowedExactlyHolds == Spec => []AllowedExactly
<1>1. IInv => AllowedExactly
  BY DEF IInv
<1> QED
  BY <1>1, Initially, Step, PTL DEF Spec

\* Sync leaves no pending entry behind: each belongs to a content ID that some call
\* under way is for, though calls clean up entries that are not their own.
THEOREM PendingOwnedHolds == Spec => []PendingOwned
<1>1. IInv => PendingOwned
  BY DEF IInv
<1> QED
  BY <1>1, Initially, Step, PTL DEF Spec
-----------------------------------------------------------------------------
(* Answers reach those that wait.                                          *)

\* A call holds an entry from its look-up on.  It has the content of that entry, or its
\* context has ended, when it cleans up.
Holds(k) ==
  /\ pc[k] # "idle" => entry[k] # NoCall
  /\ pc[k] = "idle" => waiter[k] = "off"
  /\ waiter[k] = "sent" => entry[k] \in content
  /\ pc[k] = "cleanup" => k \in ctxDone \/ entry[k] \in content

HoldInv ==
  /\ entry \in [Calls -> Calls \cup {NoCall}] /\ waiter \in [Calls -> {"off", "blocked", "sent"}]
  /\ \A k \in Calls : Holds(k)

\* An answer that is applied now reaches the call.
Reached(k) ==
  pc[k] \in {"allow", "pull", "wait"} => entry[k] = pending[ContentOf[k]] \/ entry[k] \in content

InReach(c) == \A k \in Calls : ContentOf[k] = c => Reached(k)

\* A step of one call that leaves the entries alone.
LEMMA OneHolds ==
  ASSUME TypeOK, HoldInv, NEW k \in Calls, NEW to \in Places,
         NEW w \in {"off", "blocked", "sent"}, to # "idle",
         pc' = [pc EXCEPT ![k] = to], waiter' = [waiter EXCEPT ![k] = w],
         entry' = entry, content' = content, ctxDone' = ctxDone, pc[k] # "idle",
         w = "sent" => entry[k] \in content,
         to = "cleanup" => k \in ctxDone \/ entry[k] \in content
  PROVE  HoldInv'
<1>1. pc \in [Calls -> Places] /\ waiter \in [Calls -> {"off", "blocked", "sent"}]
  BY Zenon DEF TypeOK, HoldInv
<1>2. pc'[k] = to /\ waiter'[k] = w
  BY <1>1, Zenon
<1>3. ASSUME NEW j \in Calls PROVE Holds(j)'
  <2>1. Holds(j)
    BY Zenon DEF HoldInv
  <2>2. CASE j = k
    BY <1>2, <2>1, <2>2, Zenon DEF Holds
  <2>3. CASE j # k
    <3>1. pc'[j] = pc[j] /\ waiter'[j] = waiter[j]
      BY <1>1, <2>3, Zenon
    <3> QED
      BY <2>1, <3>1, Zenon DEF Holds
  <2> QED
    BY <2>2, <2>3, Zenon
<1>4. entry' \in [Calls -> Calls \cup {NoCall}] /\ waiter' \in [Calls -> {"off", "blocked", "sent"}]
  BY <1>1, Zenon DEF HoldInv
<1> QED
  BY <1>3, <1>4, Zenon DEF HoldInv

\* A step that moves no call.
LEMMA NoneMoves ==
  ASSUME HoldInv, pc' = pc, waiter' = waiter, entry' = entry,
         content \subseteq content', ctxDone \subseteq ctxDone'
  PROVE  HoldInv'
BY Zenon DEF HoldInv, Holds

\* Every step keeps what calls hold.
LEMMA HoldStep == TypeOK /\ HoldInv /\ [Next]_vars => HoldInv'
<1> SUFFICES ASSUME TypeOK, HoldInv, [Next]_vars PROVE HoldInv'
  BY Zenon
<1>1. ASSUME NEW k \in Calls, CallStep(k) PROVE HoldInv'
  <2>0. /\ Holds(k) /\ pc[k] \in Places /\ waiter[k] \in {"off", "blocked", "sent"}
        /\ pc = [pc EXCEPT ![k] = pc[k]] /\ waiter = [waiter EXCEPT ![k] = waiter[k]]
    BY DEF HoldInv, TypeOK
  <2>1. CASE Lookup(k)
    <3> DEFINE e == IF pending[ContentOf[k]] = NoCall THEN k ELSE pending[ContentOf[k]]
    <3>1. e \in Calls /\ e # NoCall
      BY SyncerConstants DEF TypeOK
    <3>2. /\ pc' = [pc EXCEPT ![k] = "allow"] /\ entry' = [entry EXCEPT ![k] = e] /\ pc[k] = "idle"
          /\ content' = content /\ ctxDone' = ctxDone /\ waiter' = waiter
      BY <2>1, Zenon DEF Lookup, Go
    <3> HIDE DEF e
    <3>3. ASSUME NEW j \in Calls PROVE Holds(j)'
      <4>1. Holds(j)
        BY Zenon DEF HoldInv
      <4>2. CASE j = k
        <5>1. pc'[j] = "allow" /\ entry'[j] = e
          BY <3>2, <4>2, Zenon DEF TypeOK, HoldInv
        <5>2. waiter[j] = "off"
          BY <3>2, <4>1, <4>2, Zenon DEF Holds
        <5> QED
          BY <3>1, <3>2, <5>1, <5>2, Zenon DEF Holds
      <4>3. CASE j # k
        <5>1. pc'[j] = pc[j] /\ entry'[j] = entry[j]
          BY <3>2, <4>3, Zenon DEF TypeOK, HoldInv
        <5> QED
          BY <3>2, <4>1, <5>1 DEF Holds
      <4> QED
        BY <4>2, <4>3, Zenon
    <3>4. entry' \in [Calls -> Calls \cup {NoCall}] /\ waiter' \in [Calls -> {"off", "blocked", "sent"}]
      BY <3>1, <3>2, Zenon DEF HoldInv
    <3> QED
      BY <3>3, <3>4, Zenon DEF HoldInv
  <2>2. CASE AllowContent(k)
    <3>1. /\ pc[k] # "idle" /\ (IF entry[k] = k THEN "pull" ELSE "wait") \in Places \ {"idle", "cleanup"}
          /\ (IF entry[k] = k THEN "off" ELSE "blocked") \in {"off", "blocked"}
      BY <2>2 DEF AllowContent, Go, Places
    <3>2. /\ pc' = [pc EXCEPT ![k] = IF entry[k] = k THEN "pull" ELSE "wait"]
          /\ waiter' = [waiter EXCEPT ![k] = IF entry[k] = k THEN "off" ELSE "blocked"]
          /\ entry' = entry /\ content' = content /\ ctxDone' = ctxDone
      BY <2>2, Zenon DEF AllowContent, Go
    <3> QED
      BY <3>1, <3>2, OneHolds, Zenon
  <2>3. CASE Pull(k)
    BY <2>3, NoneMoves, Zenon DEF Pull
  <2>4. CASE Wait(k)
    <3>1. /\ pc[k] # "idle" /\ pc' = [pc EXCEPT ![k] = "wait"] /\ "wait" \in Places
          /\ waiter' = [waiter EXCEPT ![k] = "blocked"]
          /\ entry' = entry /\ content' = content /\ ctxDone' = ctxDone
      BY <2>4 DEF Wait, Go, Places
    <3> QED
      BY <3>1, OneHolds, Zenon
  <2>5. CASE WaiterWake(k)
    <3>1. /\ pc' = [pc EXCEPT ![k] = pc[k]] /\ waiter' = [waiter EXCEPT ![k] = "sent"]
          /\ entry' = entry /\ content' = content /\ ctxDone' = ctxDone
          /\ waiter[k] # "off" /\ entry[k] \in content
      BY <2>0, <2>5 DEF WaiterWake
    <3> QED
      BY <2>0, <3>1, OneHolds, Zenon DEF Holds
  <2>6. CASE ReturnContent(k)
    <3>1. /\ pc[k] # "idle" /\ pc' = [pc EXCEPT ![k] = "cleanup"] /\ "cleanup" \in Places
          /\ waiter' = [waiter EXCEPT ![k] = waiter[k]] /\ waiter[k] = "sent"
          /\ entry' = entry /\ content' = content /\ ctxDone' = ctxDone
      BY <2>0, <2>6 DEF ReturnContent, Go, Places
    <3> QED
      BY <2>0, <3>1, OneHolds, Zenon DEF Holds
  <2>7. CASE ReturnCancelled(k)
    <3>1. /\ pc[k] # "idle" /\ pc' = [pc EXCEPT ![k] = "cleanup"] /\ "cleanup" \in Places
          /\ waiter' = [waiter EXCEPT ![k] = waiter[k]] /\ k \in ctxDone
          /\ entry' = entry /\ content' = content /\ ctxDone' = ctxDone
      BY <2>0, <2>7 DEF ReturnCancelled, Places
    <3> QED
      BY <2>0, <3>1, OneHolds, Zenon DEF Holds
  <2>8. CASE Cleanup(k) \/ DenyContent(k)
    <3>1. PICK to \in {"wiggle", "done"} : pc' = [pc EXCEPT ![k] = to]
      BY <2>8, Zenon DEF Cleanup, DenyContent, Go
    <3>2. /\ pc[k] # "idle" /\ to \in Places /\ waiter' = [waiter EXCEPT ![k] = waiter[k]]
          /\ entry' = entry /\ content' = content /\ ctxDone' = ctxDone
      BY <2>0, <2>8 DEF Cleanup, DenyContent, Go, Places
    <3> QED
      BY <2>0, <3>1, <3>2, OneHolds, Zenon DEF Holds
  <2> QED
    BY <1>1, <2>1, <2>2, <2>3, <2>4, <2>5, <2>6, <2>7, <2>8, Zenon DEF CallStep
<1>2. ASSUME NEW k \in Calls, Cancel(k) PROVE HoldInv'
  BY <1>2, NoneMoves, Zenon DEF Cancel, callVars
<1>3. ASSUME NEW c \in Contents, Receive(c) \/ Signal(c) PROVE HoldInv'
  BY <1>3, NoneMoves, Zenon DEF Receive, Signal, callVars
<1>4. CASE UNCHANGED vars
  BY <1>4, NoneMoves, Zenon DEF vars
<1> QED
  BY <1>1, <1>2, <1>3, <1>4, Zenon DEF Next

\* In an orderly state, every step leaves the calls for a content ID within reach of the
\* next answer.
LEMMA ReachStep ==
  ASSUME NEW c \in Contents
  PROVE  TypeOK /\ HoldInv /\ Orderly(c) /\ InReach(c) /\ [Next]_vars => InReach(c)'
<1> SUFFICES ASSUME TypeOK, HoldInv, Orderly(c), InReach(c), [Next]_vars,
                    NEW j \in Calls, ContentOf[j] = c
             PROVE  Reached(j)'
  BY Zenon DEF InReach
<1>0. /\ Holds(j) /\ Reached(j) /\ pc \in [Calls -> Places] /\ pending \in [Contents -> Calls \cup {NoCall}]
      /\ entry \in [Calls -> Calls \cup {NoCall}] /\ ContentOf \in [Calls -> Contents]
  BY SyncerConstants, Zenon DEF HoldInv, InReach, TypeOK
\* The entries and the pending one stay, and only calls that are within reach move.
<1>1. ASSUME entry' = entry, pending' = pending, content \subseteq content',
             pc'[j] \in {"allow", "pull", "wait"} => pc[j] \in {"allow", "pull", "wait"}
      PROVE  Reached(j)'
  BY <1>0, <1>1, Zenon DEF Reached
<1>2. ASSUME NEW k \in Calls, CallStep(k) PROVE Reached(j)'
  <2>1. CASE Lookup(k)
    <3> DEFINE d == ContentOf[k]
               e == IF pending[d] = NoCall THEN k ELSE pending[d]
    <3>1. /\ pc' = [pc EXCEPT ![k] = "allow"] /\ entry' = [entry EXCEPT ![k] = e]
          /\ pending' = [pending EXCEPT ![d] = e] /\ content' = content /\ d \in Contents
      BY <1>0, <2>1, Zenon DEF Lookup, Go
    <3>2. pending[d] # NoCall => e = pending[d]
      BY Zenon
    <3> HIDE DEF e
    <3>3. CASE j = k
      BY <1>0, <3>1, <3>3, Zenon DEF Reached
    <3>4. CASE j # k
      <4>1. entry'[j] = entry[j] /\ pc'[j] = pc[j]
        BY <1>0, <3>1, <3>4, Zenon
      <4>2. CASE pc[j] \in {"allow", "pull", "wait"} /\ entry[j] = pending[c]
        <5>1. pending[c] # NoCall
          BY <1>0, <4>2 DEF Holds
        <5>2. pending'[c] = pending[c]
          BY <1>0, <3>1, <3>2, <5>1
        <5> QED
          BY <4>1, <4>2, <5>2, Zenon DEF Reached
      <4> QED
        BY <1>0, <3>1, <4>1, <4>2, Zenon DEF Reached
    <3> QED
      BY <3>3, <3>4, Zenon
  <2>2. CASE Cleanup(k)
    <3>1. /\ pc[k] = "cleanup" /\ pc' = [pc EXCEPT ![k] = "wiggle"] /\ content' = content
          /\ entry' = entry /\ pending' = [pending EXCEPT ![ContentOf[k]] = NoCall]
      BY <2>2, Zenon DEF Cleanup, Go
    <3>2. CASE j = k
      BY <1>0, <3>1, <3>2 DEF Reached
    <3>3. CASE j # k /\ ContentOf[k] # c
      BY <1>0, <3>1, <3>3 DEF Reached
    <3>4. CASE j # k /\ ContentOf[k] = c
      <4>1. pc'[j] = pc[j]
        BY <1>0, <3>1, <3>4, Zenon
      <4>2. k \notin ctxDone /\ pending[c] \in {entry[k], NoCall}
        BY <3>1, <3>4, Zenon DEF Orderly
      <4>3. entry[k] \in content
        BY <3>1, <4>2, Zenon DEF HoldInv, Holds
      <4>4. ASSUME pc[j] \in {"allow", "pull", "wait"} PROVE entry[j] \in content
        BY <1>0, <4>2, <4>3, <4>4 DEF Reached, Holds
      <4> QED
        BY <3>1, <4>1, <4>4, Zenon DEF Reached
    <3> QED
      BY <3>2, <3>3, <3>4, Zenon
  <2>3. CASE AllowContent(k) \/ Wait(k) \/ ReturnContent(k) \/ ReturnCancelled(k) \/ DenyContent(k)
    <3>1. PICK to \in Places :
            /\ pc' = [pc EXCEPT ![k] = to]
            /\ to \in {"allow", "pull", "wait"} => pc[k] \in {"allow", "pull", "wait"}
      <4>1. CASE AllowContent(k)
        BY <4>1, Zenon DEF AllowContent, Go, Places
      <4>2. CASE Wait(k) \/ ReturnContent(k)
        BY <4>2 DEF Wait, ReturnContent, Go, Places
      <4>3. CASE ReturnCancelled(k) \/ DenyContent(k)
        BY <4>3 DEF ReturnCancelled, DenyContent, Go, Places
      <4> QED
        BY <2>3, <4>1, <4>2, <4>3, Zenon
    <3>2. entry' = entry /\ pending' = pending /\ content' = content
      BY <2>3, Zenon DEF AllowContent, Wait, ReturnContent, ReturnCancelled, DenyContent
    <3>3. pc'[j] \in {"allow", "pull", "wait"} => pc[j] \in {"allow", "pull", "wait"}
      <4>1. pc'[j] = IF j = k THEN to ELSE pc[j]
        BY <1>0, <3>1
      <4> QED
        BY <3>1, <4>1
    <3> QED
      BY <1>1, <3>2, <3>3, Zenon
  <2>4. CASE Pull(k) \/ WaiterWake(k)
    BY <1>1, <2>4, Zenon DEF Pull, WaiterWake
  <2> QED
    BY <1>2, <2>1, <2>2, <2>3, <2>4, Zenon DEF CallStep
<1>3. ASSUME NEW k \in Calls, Cancel(k) PROVE Reached(j)'
  BY <1>1, <1>3, Zenon DEF Cancel, callVars
<1>4. ASSUME NEW d \in Contents, Receive(d) \/ Signal(d) PROVE Reached(j)'
  BY <1>1, <1>4, Zenon DEF Receive, Signal, callVars
<1>5. CASE UNCHANGED vars
  BY <1>1, <1>5, Zenon DEF vars
<1> QED
  BY <1>2, <1>3, <1>4, <1>5, Zenon DEF Next

\* signal (peer/sync.go): as long as no call for a content ID ends early and none deletes
\* the entry of a later one, an answer that is applied awakens every call that waits for
\* it, however many have shared entries before.
THEOREM AwakensInOrder ==
  ASSUME NEW c \in Contents
  PROVE  Spec /\ []Orderly(c) => [][Awakens(c)]_vars
<1>1. Init => TypeOK /\ HoldInv /\ InReach(c)
  <2> SUFFICES ASSUME Init PROVE TypeOK /\ HoldInv /\ InReach(c)
    BY Zenon
  <2>1. TypeOK
    BY Initially, Zenon DEF IInv
  <2>2. \A k \in Calls : pc[k] = "idle" /\ waiter[k] = "off"
    BY DEF Init
  <2>3. HoldInv
    <3>1. entry \in [Calls -> Calls \cup {NoCall}] /\ waiter \in [Calls -> {"off", "blocked", "sent"}]
      BY DEF Init
    <3> QED
      BY <2>2, <3>1 DEF HoldInv, Holds
  <2>4. InReach(c)
    BY <2>2 DEF InReach, Reached
  <2> QED
    BY <2>1, <2>3, <2>4, Zenon
<1>2. TypeOK /\ HoldInv /\ InReach(c) /\ [Next]_vars => [Awakens(c)]_vars
  <2> SUFFICES ASSUME HoldInv, InReach(c), [Next]_vars, handler = c, handler' = NoContent,
                      NEW k \in Calls, ContentOf[k] = c, pc[k] = "wait"
               PROVE  entry[k] \in content'
    BY Zenon DEF Awakens
  <2>1. c # NoContent
    BY SyncerConstants, Zenon
  <2>2. entry[k] # NoCall /\ (entry[k] = pending[c] \/ entry[k] \in content)
    BY Zenon DEF HoldInv, Holds, InReach, Reached
  <2>3. CASE \E d \in Contents : Signal(d)
    BY <2>2, <2>3 DEF Signal
  <2>4. handler' # handler
    BY <2>1, Zenon
  <2>5. ASSUME NEW j \in Calls, CallStep(j) \/ Cancel(j) PROVE handler' = handler
    BY <2>5, Zenon DEF CallStep, Lookup, AllowContent, Pull, Wait, WaiterWake, ReturnContent,
                       ReturnCancelled, Cleanup, DenyContent, Cancel
  <2>6. ASSUME NEW d \in Contents, Receive(d) PROVE FALSE
    BY <2>1, <2>6, Zenon DEF Receive
  <2>7. CASE UNCHANGED vars
    BY <2>4, <2>7, Zenon DEF vars
  <2> QED
    BY <2>3, <2>4, <2>5, <2>6, <2>7, Zenon DEF Next
<1>3. IInv => TypeOK
  BY Zenon DEF IInv
<1> QED
  BY <1>1, <1>2, <1>3, Initially, Step, HoldStep, ReachStep, PTL DEF Spec
=============================================================================
