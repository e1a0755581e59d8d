--------------------------- MODULE TransportProofs ---------------------------
(* Proofs that Transport counts references and connections exactly, for any *)
(* number of calls of Send, incoming connections, links and added addresses, *)
(* and that the pool of its handshake leaves no connection behind.           *)
EXTENDS Transport, OncePool, FiniteSetTheorems, TLAPS

SendPlaces == {"lookup", "connected", "linked", "bind", "client", "enqueue", "sent", "error"}
Outside ==
  {"off", "attempt", "expire", "retry", "once", "connect", "close", "unbind", "done", "panic"}
Places == HoldsConn \cup Outside

\* Types of the counters and of the goroutines' places.
TypeOK ==
  /\ linked \in BOOLEAN /\ conns \in Nat /\ rc \in Nat /\ bound \subseteq Handlers
  /\ send \in [Sends -> SendPlaces] /\ at \in [Handlers -> Places]

\* A handler holds a reference only while it runs, and no handler runs under the name
\* of a Send that has yet to start its dial.
Owned ==
  /\ \A h \in bound : at[h] \notin {"off", "done"}
  /\ \A s \in Sends : send[s] \in {"connected", "linked", "bind"} => at[s] = "off"

IInv == TypeOK /\ Owned /\ RefsExact /\ ConnsExact

\* The sets that are counted are finite.
LEMMA Finite ==
  ASSUME TypeOK
  PROVE  /\ IsFiniteSet(bound) /\ Cardinality(bound) \in Nat
         /\ IsFiniteSet(Held) /\ Cardinality(Held) \in Nat
<1>1. IsFiniteSet(Handlers)
  BY TransportConstants, FS_Union, ZenonT(60) DEF Handlers
<1>2. bound \in SUBSET Handlers /\ Held \in SUBSET Handlers
  BY Zenon DEF TypeOK, Held
<1> QED
  BY <1>1, <1>2, FS_Subset, FS_CardinalityType, Zenon

\* The number of connections changes as a handler gets hold of one or lets it go.
LEMMA HeldMoves ==
  ASSUME TypeOK, NEW h \in Handlers, NEW to \in Places, at' = [at EXCEPT ![h] = to]
  PROVE  Cardinality(Held') =
           IF to \in HoldsConn
           THEN IF at[h] \in HoldsConn THEN Cardinality(Held) ELSE Cardinality(Held) + 1
           ELSE IF at[h] \in HoldsConn THEN Cardinality(Held) - 1 ELSE Cardinality(Held)
<1>1. Held' = IF to \in HoldsConn THEN Held \cup {h} ELSE Held \ {h}
  BY Zenon DEF TypeOK, Held
<1>2. h \in Held <=> at[h] \in HoldsConn
  BY Zenon DEF Held
<1> QED
  BY <1>1, <1>2, Finite, FS_AddElement, FS_RemoveElement, ZenonT(60)

\* A handler that runs goes on, and conns follows it.
LEMMA HandlerMoves ==
  ASSUME IInv, NEW h \in Handlers, NEW to \in Places \ {"off", "done"}, at[h] # "off",
         at' = [at EXCEPT ![h] = to], send' = send, rc' = rc, bound' = bound, linked' = linked,
         conns' = (IF to \in HoldsConn
                   THEN IF at[h] \in HoldsConn THEN conns ELSE conns + 1
                   ELSE IF at[h] \in HoldsConn THEN conns - 1 ELSE conns)
  PROVE  IInv'
<1>1. TypeOK /\ Owned /\ RefsExact /\ conns = Cardinality(Held)
  BY Zenon DEF IInv, ConnsExact
<1>2. conns' = Cardinality(Held')
  BY <1>1, HeldMoves, ZenonT(60)
<1>3. conns' \in Nat
  <2>1. at[h] \in HoldsConn => conns > 0
    <3>1. at[h] \in HoldsConn => Held # {}
      BY Zenon DEF Held
    <3> QED
      BY <1>1, <3>1, Finite, FS_EmptySet
  <2> QED
    BY <1>1, <2>1 DEF TypeOK
<1>4. TypeOK'
  BY <1>1, <1>3, Zenon DEF TypeOK
<1>5. Owned' /\ RefsExact'
  BY <1>1 DEF TypeOK, Owned, RefsExact
<1> QED
  BY <1>2, <1>4, <1>5, Zenon DEF IInv, ConnsExact

\* The steps of a handler between its start and the end of its work.
LEMMA RunningStep ==
  ASSUME IInv, NEW h \in Handlers,
         \/ DialStep(h) \/ Connect(h) \/ ClientAttach(h) \/ Attach(h)
         \/ Detach(h) \/ Timeout(h) \/ Disconnect(h) \/ Fault(h)
  PROVE  IInv'
<1> USE DEF Places, Outside, HoldsConn
<1>1. /\ send' = send /\ rc' = rc /\ bound' = bound /\ linked' = linked
      /\ conns \in Nat
  BY Zenon DEF IInv, TypeOK, DialStep, DialFail, DialExpire, DialTimeout, DialReject, DialConnect,
         DialOnce, CheckLinked, DialClose, DialGiveUp, DialAgain, Connect, ClientAttach, Attach, Detach,
         Timeout, Disconnect, Fault, Only, Go, sendVars, regVars, linkVars
<1>2. CASE DialFail(h) \/ DialExpire(h) \/ DialClose(h)
  <2>1. PICK to \in {"expire", "retry", "panic", "attempt", "unbind"} :
          at' = [at EXCEPT ![h] = to]
    BY <1>2, Zenon DEF DialFail, DialExpire, DialClose, Go
  <2>2. at[h] \in {"attempt", "expire", "close"} /\ conns' = conns
    BY <1>2, Zenon DEF DialFail, DialExpire, DialClose, Go
  <2> QED
    BY <1>1, <2>1, <2>2, HandlerMoves, ZenonT(60)
<1>3. CASE DialTimeout(h) \/ DialConnect(h) \/ DialReject(h) \/ DialGiveUp(h) \/ DialAgain(h)
  <2>1. PICK to \in {"retry", "once", "close", "unbind", "attempt"} : at' = [at EXCEPT ![h] = to]
    BY <1>3, Zenon DEF DialTimeout, DialConnect, DialReject, DialGiveUp, DialAgain, Only, Go
  <2>2. at[h] \in {"attempt", "once", "retry"} /\ conns' = conns
    BY <1>3, Zenon DEF DialTimeout, DialConnect, DialReject, DialGiveUp, DialAgain, Only, Go
  <2> QED
    BY <1>1, <2>1, <2>2, HandlerMoves, ZenonT(60)
<1>4. CASE DialOnce(h) \/ Connect(h)
  <2>1. PICK to \in {"check", "lookup"} : at' = [at EXCEPT ![h] = to]
    BY <1>4, Zenon DEF DialOnce, Connect, Go
  <2>2. at[h] \in {"once", "connect"} /\ conns' = conns + 1
    BY <1>4, Zenon DEF DialOnce, Connect, Go
  <2> QED
    BY <1>1, <2>1, <2>2, HandlerMoves, ZenonT(60)
<1>5. CASE CheckLinked(h) \/ ClientAttach(h) \/ Attach(h) \/ Detach(h) \/ Timeout(h) \/ Fault(h)
  <2>1. PICK to \in {"lookup", "disconnect", "handed", "attached"} : at' = [at EXCEPT ![h] = to]
    BY <1>5, Zenon DEF CheckLinked, ClientAttach, Attach, Detach, Timeout, Fault, Only, Go
  <2>2. at[h] \in {"check", "lookup", "handed", "attached"} /\ conns' = conns
    BY <1>5, Zenon DEF CheckLinked, ClientAttach, Attach, Detach, Timeout, Fault, Only, Go
  <2> QED
    BY <1>1, <2>1, <2>2, HandlerMoves, ZenonT(60)
<1>6. CASE Disconnect(h)
  <2>1. PICK to \in {"close", "unbind"} : at' = [at EXCEPT ![h] = to]
    BY <1>6, ZenonT(60) DEF Disconnect, Go
  <2>2. at[h] = "disconnect" /\ conns' = IF conns > 0 THEN conns - 1 ELSE conns
    BY <1>6, Zenon DEF Disconnect, Go
  <2>3. conns > 0
    <3>1. h \in Held /\ conns = Cardinality(Held)
      BY <2>2, Zenon DEF IInv, ConnsExact, Held
    <3> QED
      BY <1>1, <3>1, Finite, FS_EmptySet DEF IInv
  <2> QED
    BY <1>1, <2>1, <2>2, <2>3, HandlerMoves, ZenonT(60)
<1> QED
  BY <1>2, <1>3, <1>4, <1>5, <1>6, Zenon DEF DialStep

\* The steps that touch neither the handlers nor what is counted.
LEMMA QuietStep ==
  ASSUME IInv,
         \/ AddPeer \/ Age \/ UNCHANGED vars
         \/ \E s \in Sends : SendLookup(s) \/ SendConnected(s) \/ ClientSend(s) \/ Enqueue(s)
  PROVE  IInv'
<1>1. at' = at /\ conns' = conns /\ rc' = rc /\ bound' = bound /\ linked' = linked
  BY Zenon DEF AddPeer, Age, SendLookup, SendConnected, ClientSend, Enqueue, vars, regVars, linkVars
<1>2. \/ send' = send
      \/ \E s \in Sends, to \in SendPlaces :
           /\ send' = [send EXCEPT ![s] = to]
           /\ to \in {"connected", "linked", "bind"} => at[s] = "off"
  BY Zenon DEF IInv, TypeOK, Owned, AddPeer, Age, SendLookup, SendConnected, ClientSend, Enqueue,
         SendGo, SendPlaces, vars, sendVars
<1>3. TypeOK' /\ Owned'
  BY <1>1, <1>2, Zenon DEF IInv, TypeOK, Owned
<1>4. RefsExact' /\ ConnsExact'
  BY <1>1, Zenon DEF IInv, RefsExact, ConnsExact, Held
<1> QED
  BY <1>3, <1>4, Zenon DEF IInv

\* A handler starts, with a reference of its own or without.
LEMMA StartStep ==
  ASSUME IInv, NEW h \in Handlers, NEW to \in {"attempt", "unbind", "connect"},
         at[h] = "off", at' = [at EXCEPT ![h] = to], conns' = conns, linked' = linked,
         send' \in [Sends -> SendPlaces],
         \A s \in Sends : send'[s] \in {"connected", "linked", "bind"} => s # h /\ send'[s] = send[s],
         \/ rc' = rc /\ bound' = bound
         \/ rc' = rc + 1 /\ bound' = bound \cup {h}
  PROVE  IInv'
<1>1. TypeOK /\ h \notin bound /\ to \in Places \ HoldsConn /\ at[h] \notin HoldsConn
  BY Zenon DEF IInv, Owned, Places, Outside, HoldsConn
<1>2. TypeOK'
  BY <1>1 DEF TypeOK
<1>3. Owned'
  BY <1>1 DEF IInv, TypeOK, Owned
<1>4. RefsExact'
  <2>1. /\ Cardinality(bound) \in Nat
        /\ Cardinality(bound \cup {h}) = Cardinality(bound) + 1
    BY <1>1, Finite, FS_AddElement, ZenonT(60)
  <2>2. rc = Cardinality(bound) + (IF linked THEN 1 ELSE 0)
    BY Zenon DEF IInv, RefsExact
  <2>3. CASE rc' = rc /\ bound' = bound
    BY <2>2, <2>3, Zenon DEF RefsExact
  <2>4. CASE rc' = rc + 1 /\ bound' = bound \cup {h}
    BY <2>1, <2>2, <2>4 DEF RefsExact
  <2> QED
    BY <2>3, <2>4, Zenon
<1>5. ConnsExact'
  BY <1>1, HeldMoves, ZenonT(60) DEF IInv, ConnsExact
<1> QED
  BY <1>2, <1>3, <1>4, <1>5, Zenon DEF IInv

\* Starting, releasing, linking and unlinking.
LEMMA SharedStep ==
  ASSUME IInv,
         \/ Link \/ Unlink
         \/ \E h \in Handlers : Accept(h) \/ Release(h)
         \/ \E s \in Sends : SendLinked(s) \/ SendBind(s)
  PROVE  IInv'
<1>1. CASE Link \/ Unlink
  <2>1. /\ at' = at /\ conns' = conns /\ bound' = bound /\ send' = send
        /\ \/ linked = FALSE /\ linked' = TRUE /\ rc' = rc + 1
           \/ linked = TRUE /\ linked' = FALSE /\ rc' = IF rc > 0 THEN rc - 1 ELSE rc
    BY <1>1, Zenon DEF IInv, TypeOK, Link, Unlink, Bind, Unbind, sendVars
  <2>2. rc' \in Nat /\ linked' \in BOOLEAN
    <3>1. rc \in Nat
      BY Zenon DEF IInv, TypeOK
    <3>2. rc' \in Nat
      BY <2>1, <3>1
    <3> QED
      BY <2>1, <3>2, ZenonT(60)
  <2>3. TypeOK' /\ Owned' /\ ConnsExact'
    BY <2>1, <2>2, Zenon DEF IInv, TypeOK, Owned, ConnsExact, Held
  <2>4. RefsExact'
    BY <2>1, Finite DEF IInv, TypeOK, RefsExact
  <2> QED
    BY <2>3, <2>4, Zenon DEF IInv
<1>2. ASSUME NEW h \in Handlers, Accept(h) PROVE IInv'
  <2>1. \A s \in Sends : send[s] \in {"connected", "linked", "bind"} => s # h
    BY <1>2, Zenon DEF Accept, IsDial
  <2> QED
    BY <1>2, <2>1, StartStep, ZenonT(60) DEF IInv, TypeOK, Accept, Go, Bind, regVars, linkVars, sendVars
<1>3. ASSUME NEW s \in Sends, SendLinked(s) PROVE IInv'
  <2>1. CASE linked
    <3>1. /\ s \in Handlers /\ at[s] = "off" /\ send' = [send EXCEPT ![s] = "client"]
          /\ conns' = conns /\ linked' = linked /\ rc' = rc /\ bound' = bound
      BY <1>3, <2>1, Zenon DEF IInv, Owned, SendLinked, SendGo, Handlers, regVars, linkVars
    <3>2. PICK to \in {"attempt", "unbind"} : at' = [at EXCEPT ![s] = to]
      BY <1>3, <2>1, Zenon DEF SendLinked, DialStart
    <3> QED
      BY <3>1, <3>2, StartStep, ZenonT(60) DEF IInv, TypeOK, SendPlaces
  <2>2. CASE ~linked
    <3>1. /\ at' = at /\ at[s] = "off" /\ send' = [send EXCEPT ![s] = "bind"]
          /\ conns' = conns /\ linked' = linked /\ rc' = rc /\ bound' = bound
      BY <1>3, <2>2, Zenon DEF IInv, Owned, SendLinked, SendGo, regVars, linkVars
    <3>2. TypeOK' /\ Owned'
      BY <3>1, Zenon DEF IInv, TypeOK, Owned, SendPlaces
    <3>3. RefsExact' /\ ConnsExact'
      BY <3>1, Zenon DEF IInv, RefsExact, ConnsExact, Held
    <3> QED
      BY <3>2, <3>3, Zenon DEF IInv
  <2> QED
    BY <2>1, <2>2, Zenon
<1>4. ASSUME NEW s \in Sends, SendBind(s) PROVE IInv'
  <2>1. /\ s \in Handlers /\ at[s] = "off" /\ send' = [send EXCEPT ![s] = "client"]
        /\ conns' = conns /\ linked' = linked /\ rc' = rc + 1 /\ bound' = bound \cup {s}
    BY <1>4, Zenon DEF IInv, Owned, SendBind, SendGo, Bind, Handlers, linkVars
  <2>2. PICK to \in {"attempt", "unbind"} : at' = [at EXCEPT ![s] = to]
    BY <1>4, ZenonT(60) DEF SendBind, DialStart
  <2> QED
    BY <2>1, <2>2, StartStep, ZenonT(60) DEF IInv, TypeOK, SendPlaces
<1>5. ASSUME NEW h \in Handlers, Release(h) PROVE IInv'
  <2>1. /\ TypeOK /\ at[h] = "unbind" /\ at' = [at EXCEPT ![h] = "done"]
        /\ send' = send /\ conns' = conns /\ linked' = linked /\ bound' = bound \ {h}
        /\ rc' = IF h \in bound /\ rc > 0 THEN rc - 1 ELSE rc
    BY <1>5, Zenon DEF IInv, Release, Go, Unbind, regVars, linkVars, sendVars
  <2>2. "done" \in Places \ HoldsConn /\ at[h] \notin HoldsConn
    BY <2>1, Zenon DEF Places, Outside, HoldsConn
  <2>3. TypeOK' /\ Owned'
    BY <2>1, <2>2 DEF IInv, TypeOK, Owned
  <2>4. RefsExact'
    <3>1. /\ Cardinality(bound) \in Nat /\ Cardinality(bound \ {h}) \in Nat
          /\ Cardinality(bound \ {h}) =
               IF h \in bound THEN Cardinality(bound) - 1 ELSE Cardinality(bound)
      BY <2>1, Finite, FS_RemoveElement, FS_CardinalityType, Zenon
    <3>2. rc = Cardinality(bound) + (IF linked THEN 1 ELSE 0)
      BY Zenon DEF IInv, RefsExact
    <3> QED
      BY <2>1, <3>1, <3>2 DEF RefsExact
  <2>5. ConnsExact'
    BY <2>1, <2>2, HeldMoves, ZenonT(60) DEF IInv, ConnsExact
  <2> QED
    BY <2>3, <2>4, <2>5, Zenon DEF IInv
<1> QED
  BY <1>1, <1>2, <1>3, <1>4, <1>5, Zenon

\* The invariant holds at the start.
LEMMA Initially == Init => IInv
<1> SUFFICES ASSUME Init PROVE IInv
  BY Zenon
<1>1. TypeOK /\ Owned
  BY ZenonT(60) DEF Init, TypeOK, Owned, SendPlaces, Places, Outside
<1>2. Held = {}
  BY Zenon DEF Init, Held, HoldsConn
<1>3. RefsExact /\ ConnsExact
  BY <1>2, FS_EmptySet DEF Init, RefsExact, ConnsExact
<1> QED
  BY <1>1, <1>3, Zenon DEF IInv

\* Every step keeps the invariant.
LEMMA Step == IInv /\ [Next]_vars => IInv'
<1>1. \A s \in Sends : s \in Handlers
  BY Zenon DEF Handlers
<1> QED
  BY <1>1, RunningStep, QuietStep, SharedStep, Zenon DEF Next, SendStep, HandlerStep

\* Counters and goroutines keep their types.
THEOREM TypeCorrect == Spec => []TypeOK
<1>1. IInv => TypeOK
  BY Zenon DEF IInv
<1> QED
  BY <1>1, Initially, Step, PTL DEF Spec

\* The references to the Channel are those of Link and of the handlers that hold one.
THEOREM RefsExactHolds == Spec => []RefsExact
<1>1. IInv => RefsExact
  BY Zenon DEF IInv
<1> QED
  BY <1>1, Initially, Step, PTL DEF Spec

\* IsConnected counts the handlers that have a connection.
THEOREM ConnsExactHolds == Spec => []ConnsExact
<1>1. IInv => ConnsExact
  BY Zenon DEF IInv
<1> QED
  BY <1>1, Initially, Step, PTL DEF Spec

\* transport.go: a Channel is left over after Send, dial and accept only where Link holds
\* it, and a peer is taken for connected only while a handler has a connection to it.
THEOREM NoneLeftHolds == Spec => []NoneLeft
<1>1. IInv => NoneLeft
  <2> SUFFICES ASSUME IInv, \A h \in Handlers : at[h] \in {"off", "done"}
               PROVE  conns = 0 /\ rc = (IF linked THEN 1 ELSE 0)
    BY Zenon DEF NoneLeft
  <2>1. bound = {}
    BY DEF IInv, Owned, TypeOK
  <2>2. Held = {}
    BY DEF Held, HoldsConn
  <2>3. Cardinality(bound) = 0 /\ Cardinality(Held) = 0
    BY <2>1, <2>2, FS_EmptySet, Zenon
  <2>4. 0 + 1 = 1 /\ 0 + 0 = 0
    OBVIOUS
  <2> QED
    BY <2>3, <2>4, Zenon DEF IInv, RefsExact, ConnsExact
<1> QED
  BY <1>1, Initially, Step, PTL DEF Spec

-----------------------------------------------------------------------------
(* Expired peers.                                                          *)

\* ExpiredOnce is not inductive: an address in the table, or an expiry, is one more
\* closing to come.
ToCome == IF known \/ expiry # "none" THEN 1 ELSE 0

ExpiryInv ==
  /\ exits \in [Handlers -> Nat] /\ adds \in Nat
  /\ IsFiniteSet(Closings) /\ Cardinality(Closings) + ToCome <= 1 + adds

\* Steps that close no exit and add no address, and start an expiry only of a known peer.
LEMMA NoClosing ==
  ASSUME ExpiryInv, exits' = exits, adds' = adds, known' = known,
         expiry' # "none" => known \/ expiry # "none"
  PROVE  ExpiryInv'
<1>1. Closings' = Closings /\ Cardinality(Closings) \in Nat
  BY FS_CardinalityType, Zenon DEF ExpiryInv, Closings
<1>2. ToCome \in {0, 1} /\ ToCome' \in {0, 1} /\ ToCome' <= ToCome
  BY DEF ToCome
<1> QED
  BY <1>1, <1>2 DEF ExpiryInv

\* handleErr: one closing more, and none to come.
LEMMA ExpireStep ==
  ASSUME ExpiryInv, NEW h \in Handlers, DialExpire(h)
  PROVE  ExpiryInv'
<1>1. CASE expiry = "old"
  <2>1. /\ known' = FALSE /\ expiry' = "none" /\ adds' = adds
        /\ exits' = [exits EXCEPT ![h] = @ + 1] /\ exits[h] \in Nat
    BY <1>1, Zenon DEF ExpiryInv, DialExpire
  <2>2. ToCome = 1 /\ ToCome' = 0
    BY <1>1, <2>1, Zenon DEF ToCome
  <2>3. Closings' = Closings \cup {<<h, exits[h] + 1>>}
    BY <2>1, SMTT(30) DEF ExpiryInv, Closings
  <2>4. <<h, exits[h] + 1>> \notin Closings
    BY <2>1 DEF Closings
  <2>5. IsFiniteSet(Closings') /\ Cardinality(Closings') = Cardinality(Closings) + 1
    BY <2>3, <2>4, FS_AddElement, ZenonT(60) DEF ExpiryInv
  <2>6. Cardinality(Closings) \in Nat
    BY FS_CardinalityType, Zenon DEF ExpiryInv
  <2>7. exits' \in [Handlers -> Nat]
    BY <2>1 DEF ExpiryInv
  <2> QED
    BY <2>1, <2>2, <2>5, <2>6, <2>7 DEF ExpiryInv
<1>2. CASE expiry # "old"
  BY <1>2, NoClosing, Zenon DEF DialExpire
<1> QED
  BY <1>1, <1>2, Zenon

\* An address more is a closing more to come.
LEMMA AddPeerStep ==
  ASSUME ExpiryInv, AddPeer
  PROVE  ExpiryInv'
<1>1. adds' = adds + 1 /\ exits' = exits
  BY Zenon DEF AddPeer, dialVars
<1>2. Closings' = Closings /\ Cardinality(Closings) \in Nat
  BY <1>1, FS_CardinalityType, Zenon DEF ExpiryInv, Closings
<1>3. ToCome \in {0, 1} /\ ToCome' \in {0, 1}
  BY Zenon DEF ToCome
<1> QED
  BY <1>1, <1>2, <1>3 DEF ExpiryInv

\* Every step keeps the closings, with the one to come, within the addresses learnt.
LEMMA ExpiryStep == ExpiryInv /\ [Next]_vars => ExpiryInv'
<1> SUFFICES ASSUME ExpiryInv, [Next]_vars PROVE ExpiryInv'
  BY Zenon
<1> USE DEF tableVars, dialVars
<1>1. ASSUME NEW s \in Sends, SendStep(s) PROVE ExpiryInv'
  BY <1>1, NoClosing, Zenon
     DEF SendStep, SendLookup, SendConnected, SendLinked, SendBind, ClientSend, Enqueue
<1>2. ASSUME NEW s \in Sends, DialStep(s) PROVE ExpiryInv'
  <2>1. s \in Handlers
    BY Zenon DEF Handlers
  <2>2. CASE DialFail(s) \/ DialClose(s)
    BY <2>2, NoClosing, Zenon DEF DialFail, DialClose
  <2>3. CASE DialTimeout(s) \/ DialConnect(s) \/ DialReject(s) \/ DialGiveUp(s) \/ DialAgain(s)
    BY <2>3, NoClosing, Zenon DEF DialTimeout, DialConnect, DialReject, DialGiveUp, DialAgain, Only
  <2>4. CASE DialOnce(s) \/ CheckLinked(s)
    BY <2>4, NoClosing, Zenon DEF DialOnce, CheckLinked
  <2> QED
    BY <1>2, <2>1, <2>2, <2>3, <2>4, ExpireStep, Zenon DEF DialStep
<1>3. ASSUME NEW h \in Handlers, Accept(h) \/ HandlerStep(h) \/ Fault(h) PROVE ExpiryInv'
  <2>1. CASE Accept(h) \/ Connect(h) \/ ClientAttach(h) \/ Disconnect(h) \/ Release(h)
    BY <2>1, NoClosing, Zenon DEF Accept, Connect, ClientAttach, Disconnect, Release
  <2>2. CASE Attach(h) \/ Detach(h) \/ Timeout(h) \/ Fault(h)
    BY <2>2, NoClosing, Zenon DEF Attach, Detach, Timeout, Fault, Only
  <2> QED
    BY <1>3, <2>1, <2>2, Zenon DEF HandlerStep
<1>4. CASE Link \/ Unlink \/ Age
  BY <1>4, NoClosing, Zenon DEF Link, Unlink, Age
<1>5. CASE UNCHANGED vars
  BY <1>5, NoClosing, Zenon DEF vars
<1> QED
  BY <1>1, <1>2, <1>3, <1>4, <1>5, AddPeerStep, Zenon DEF Next

\* HandleExpired is true for one of the dials that race on an expired peer, each time the
\* table has learnt its address: however many dials there are, each address closes at most
\* one exit channel.
THEOREM ExpiredOnceHolds == Spec => []ExpiredOnce
<1>1. Init => ExpiryInv
  <2> SUFFICES ASSUME Init PROVE ExpiryInv
    BY Zenon
  <2>1. Closings = {} /\ ToCome = 1
    BY DEF Init, Closings, ToCome
  <2> QED
    BY <2>1, FS_EmptySet DEF Init, ExpiryInv
<1>2. ExpiryInv => ExpiredOnce
  <2> SUFFICES ASSUME ExpiryInv PROVE ExpiredOnce
    BY Zenon
  <2>1. Cardinality(Closings) \in Nat /\ ToCome \in {0, 1} /\ adds \in Nat
    BY FS_CardinalityType, Zenon DEF ExpiryInv, ToCome
  <2> QED
    BY <2>1 DEF ExpiryInv, ExpiredOnce
<1> QED
  BY <1>1, <1>2, ExpiryStep, PTL DEF Spec

-----------------------------------------------------------------------------
(* The pool of handshake.Once, for any set of connections.                 *)

\* NoOrphan is not inductive: a connection is in the pool of G before Once accepts it.
\* So the invariant speaks of G's connections from the moment they enter the pool.
Pooled ==
  \A c \in Conns :
    g[c] \in {"close", "keep", "ok"} /\ "G" \notin closed[c] =>
      gpool = c \/ \E d \in Conns : g[d] = "close" /\ prev[d] = c

\* L accepts a connection in the step that puts it into the pool.
LPooled == \A c \in Conns : l[c] = "ok" /\ "L" \notin closed[c] => lpool = c

PoolInv == PoolTypeOK /\ Pooled /\ LPooled

\* Once starts with empty pools.
LEMMA PoolInitially == PoolInit => PoolInv
<1> SUFFICES ASSUME PoolInit PROVE PoolInv
  BY Zenon
<1>1. old \in BOOLEAN
  BY ZenonT(60) DEF PoolInit
<1>2. PoolTypeOK
  BY <1>1, OnceConstants DEF PoolInit, PoolTypeOK, States
<1>3. Pooled /\ LPooled
  BY Zenon DEF PoolInit, Pooled, LPooled
<1> QED
  BY <1>2, <1>3, Zenon DEF PoolInv

\* Every step of Once keeps the types, and closes only connections of Conns.
LEMMA PoolTypeStep == PoolTypeOK /\ [PoolNext]_poolVars => PoolTypeOK'
<1> SUFFICES ASSUME PoolTypeOK, [PoolNext]_poolVars PROVE PoolTypeOK'
  BY Zenon
<1> USE OnceConstants DEF PoolTypeOK, States, At, Close, gVars, lVars
<1>1. ASSUME NEW c \in Conns, GPool(c) PROVE PoolTypeOK'
  <2>1. old' \in BOOLEAN
    BY <1>1, ZenonT(60) DEF GPool
  <2>2. CASE gpool = NoConn \/ old
    BY <1>1, <2>1, <2>2 DEF GPool
  <2>3. CASE ~(gpool = NoConn \/ old)
    BY <1>1, <2>1, <2>3 DEF GPool
  <2> QED
    BY <2>2, <2>3, Zenon
<1>2. ASSUME NEW c \in Conns, GKill(c) PROVE PoolTypeOK'
  BY <1>2 DEF GKill
<1>3. ASSUME NEW c \in Conns, GCloseExisting(c) PROVE PoolTypeOK'
  BY <1>3, Zenon DEF GCloseExisting
<1>4. ASSUME NEW c \in Conns, GKeep(c) PROVE PoolTypeOK'
  BY <1>4, Zenon DEF GKeep
<1>5. ASSUME NEW c \in Conns, GKeepFail(c) PROVE PoolTypeOK'
  BY <1>5, Zenon DEF GKeepFail
<1>6. ASSUME NEW c \in Conns, GPanic(c) PROVE PoolTypeOK'
  BY <1>6, Zenon DEF GPanic
<1>7. ASSUME NEW c \in Conns, LRead(c) \/ LReadFail(c) PROVE PoolTypeOK'
  BY <1>7 DEF LRead, LReadFail
<1>8. ASSUME NEW c \in Conns, LPool(c) PROVE PoolTypeOK'
  BY <1>8 DEF LPool
<1>9. ASSUME NEW c \in Conns, NEW who \in {"G", "L"}, HangUp(c, who) PROVE PoolTypeOK'
  BY <1>9, Zenon DEF HangUp
<1>10. ASSUME NEW c \in Conns, Break(c) PROVE PoolTypeOK'
  BY <1>10, Zenon DEF Break
<1>11. CASE GAge
  BY <1>11 DEF GAge
<1>12. CASE UNCHANGED poolVars
  BY <1>12, Zenon DEF poolVars
<1> HIDE DEF PoolTypeOK, States, At, Close, gVars, lVars
<1> QED
  BY <1>1, <1>2, <1>3, <1>4, <1>5, <1>6, <1>7, <1>8, <1>9, <1>10, <1>11, <1>12, Zenon DEF PoolNext, Once

\* G: the step that replaces an entry becomes the one that will close it, and a failed
\* keep-alive closes the entry that it deletes.
LEMMA PooledStep == PoolTypeOK /\ Pooled /\ [PoolNext]_poolVars => Pooled'
<1> SUFFICES ASSUME PoolTypeOK, Pooled, [PoolNext]_poolVars PROVE Pooled'
  BY Zenon
<1> USE OnceConstants DEF PoolTypeOK, States, At, Close, gVars, lVars, Pooled
<1>1. ASSUME NEW c \in Conns, GPool(c) PROVE Pooled'
  BY <1>1 DEF GPool
<1>2. ASSUME NEW c \in Conns, GKill(c) PROVE Pooled'
  BY <1>2 DEF GKill
<1>3. ASSUME NEW c \in Conns, GCloseExisting(c) PROVE Pooled'
  BY <1>3 DEF GCloseExisting
<1>4. ASSUME NEW c \in Conns, GKeep(c) PROVE Pooled'
  BY <1>4 DEF GKeep
<1>5. ASSUME NEW c \in Conns, GKeepFail(c) PROVE Pooled'
  BY <1>5 DEF GKeepFail
<1>6. ASSUME NEW c \in Conns, GPanic(c) PROVE Pooled'
  BY <1>6 DEF GPanic
<1>7. ASSUME NEW c \in Conns, LRead(c) \/ LReadFail(c) PROVE Pooled'
  BY <1>7, Zenon DEF LRead, LReadFail
<1>8. ASSUME NEW c \in Conns, LPool(c) PROVE Pooled'
  BY <1>8 DEF LPool
<1>9. ASSUME NEW c \in Conns, NEW who \in {"G", "L"}, HangUp(c, who) PROVE Pooled'
  BY <1>9 DEF HangUp
<1>10. ASSUME NEW c \in Conns, Break(c) PROVE Pooled'
  BY <1>10, Zenon DEF Break
<1>11. CASE GAge
  BY <1>11, Zenon DEF GAge
<1>12. CASE UNCHANGED poolVars
  BY <1>12, Zenon DEF poolVars
<1> HIDE DEF PoolTypeOK, States, At, Close, gVars, lVars, Pooled
<1> QED
  BY <1>1, <1>2, <1>3, <1>4, <1>5, <1>6, <1>7, <1>8, <1>9, <1>10, <1>11, <1>12, Zenon DEF PoolNext, Once

\* L: a new entry closes the one whose place it takes.
LEMMA LPooledStep == PoolTypeOK /\ LPooled /\ [PoolNext]_poolVars => LPooled'
<1> SUFFICES ASSUME PoolTypeOK, LPooled, [PoolNext]_poolVars PROVE LPooled'
  BY Zenon
<1> USE OnceConstants DEF PoolTypeOK, States, Close, gVars, lVars, LPooled
<1>1. ASSUME NEW c \in Conns, GPool(c) \/ GKeep(c) \/ GPanic(c) PROVE LPooled'
  BY <1>1, Zenon DEF GPool, GKeep, GPanic
<1>2. ASSUME NEW c \in Conns, GKill(c) PROVE LPooled'
  BY <1>2, Zenon DEF GKill
<1>3. ASSUME NEW c \in Conns, GCloseExisting(c) PROVE LPooled'
  BY <1>3, Zenon DEF GCloseExisting, At
<1>4. ASSUME NEW c \in Conns, GKeepFail(c) PROVE LPooled'
  BY <1>4, Zenon DEF GKeepFail
<1>5. ASSUME NEW c \in Conns, LRead(c) \/ LReadFail(c) PROVE LPooled'
  BY <1>5 DEF LRead, LReadFail
<1>6. ASSUME NEW c \in Conns, LPool(c) PROVE LPooled'
  BY <1>6 DEF LPool
<1>7. ASSUME NEW c \in Conns, NEW who \in {"G", "L"}, HangUp(c, who) PROVE LPooled'
  BY <1>7, Zenon DEF HangUp
<1>8. ASSUME NEW c \in Conns, Break(c) PROVE LPooled'
  BY <1>8, Zenon DEF Break
<1>9. CASE GAge
  BY <1>9, Zenon DEF GAge
<1>10. CASE UNCHANGED poolVars
  BY <1>10, Zenon DEF poolVars
<1> HIDE DEF PoolTypeOK, States, Close, gVars, lVars, LPooled
<1> QED
  BY <1>1, <1>2, <1>3, <1>4, <1>5, <1>6, <1>7, <1>8, <1>9, <1>10, Zenon DEF PoolNext, Once

\* The inductive invariant holds of every behaviour of Once at both ends.
THEOREM PoolInvariance == PoolSpec => []PoolInv
<1>1. PoolInv /\ [PoolNext]_poolVars => PoolInv'
  BY PoolTypeStep, PooledStep, LPooledStep, Zenon DEF PoolInv
<1> QED
  BY <1>1, PoolInitially, PTL DEF PoolSpec

\* Once keeps the types; in particular, it closes an existing connection only where
\* there is one.
THEOREM PoolTypeCorrect == PoolSpec => []PoolTypeOK
<1>1. PoolInv => PoolTypeOK
  BY Zenon DEF PoolInv
<1> QED
  BY <1>1, PoolInvariance, PTL

\* However many connections two peers make to each other, and however their
\* handshakes interleave, break and expire, no accepted connection stays up outside
\* the pools.
THEOREM NoOrphanHolds == PoolSpec => []NoOrphan
<1>1. PoolInv => NoOrphan
  BY Zenon DEF PoolInv, Pooled, LPooled, NoOrphan
<1> QED
  BY <1>1, PoolInvariance, PTL

\* While all is calm, the first connection that enters the pool of G stays: G keeps it,
\* and L takes it once G has said so.
Chosen(c) ==
  /\ g[c] \in {"keep", "ok"} /\ closed[c] = {} /\ byte[c] = (IF g[c] = "ok" THEN "keep" ELSE "none")
  /\ l[c] \in {"read", "pool", "ok"} /\ (l[c] # "read" => g[c] = "ok") /\ (l[c] = "ok" <=> lpool = c)

\* No other connection is kept by G, nor told so, nor accepted by L.
Refused(c) ==
  /\ g[c] \in {"pool", "kill", "failed"} /\ byte[c] # "keep" /\ l[c] \in {"read", "failed"}
  /\ g[c] # "failed" => byte[c] = "none" /\ closed[c] = {} /\ l[c] = "read"
  /\ gpool = NoConn => g[c] = "pool"

Calmly ==
  /\ ~old /\ lpool \in {NoConn, gpool}
  /\ \A c \in Conns : IF c = gpool THEN Chosen(c) ELSE Refused(c)

\* A calm step leaves the choice of G alone, and G makes it once.
LEMMA CalmStep == PoolTypeOK /\ (Calm => Calmly) /\ [PoolNext]_poolVars => (Calm => Calmly)'
<1> SUFFICES ASSUME PoolTypeOK, Calm => Calmly, [PoolNext]_poolVars, Calm' PROVE Calmly'
  BY Zenon
<1>0. Calm
  <2>1. broken \subseteq broken' /\ dropped \subseteq dropped' /\ ages' \in {ages, ages + 1}
    BY Zenon DEF PoolNext, Once, GPool, GKill, GCloseExisting, GKeep, GKeepFail, GPanic, LRead,
                 LReadFail, LPool, HangUp, Break, GAge, gVars, poolVars
  <2> QED
    BY <2>1 DEF Calm, PoolTypeOK
<1>00. Calmly /\ broken = {}
  BY <1>0, Zenon DEF Calm
<1>01. \A c \in Conns : g[c] \notin {"close", "panicked"}
  BY <1>00 DEF Calmly, Chosen, Refused
<1>02. NoPanic
  BY <1>01, Zenon DEF NoPanic
<1> USE <1>00, OnceConstants DEF PoolTypeOK, States, At, Close, gVars, lVars, Calmly, Chosen, Refused
<1>1. ASSUME NEW c \in Conns, GPool(c) PROVE Calmly'
  BY <1>1 DEF GPool
<1>2. ASSUME NEW c \in Conns, GKill(c) PROVE Calmly'
  BY <1>2 DEF GKill
<1>3. ASSUME NEW c \in Conns, GCloseExisting(c) PROVE Calmly'
  BY <1>01, <1>3 DEF GCloseExisting
<1>4. ASSUME NEW c \in Conns, GKeep(c) PROVE Calmly'
  BY <1>4 DEF GKeep
<1>5. ASSUME NEW c \in Conns, GKeepFail(c) \/ GPanic(c) PROVE Calmly'
  BY <1>5 DEF GKeepFail, GPanic, MayFail
<1>6. ASSUME NEW c \in Conns, LRead(c) PROVE Calmly'
  BY <1>6 DEF LRead
<1>7. ASSUME NEW c \in Conns, LReadFail(c) PROVE Calmly'
  BY <1>7 DEF LReadFail, MayFail
<1>8. ASSUME NEW c \in Conns, LPool(c) PROVE Calmly'
  BY <1>8 DEF LPool
<1>9. ASSUME NEW c \in Conns, NEW who \in {"G", "L"}, HangUp(c, who) PROVE Calmly'
  BY <1>02, <1>9 DEF HangUp, Calm
<1>10. ASSUME NEW c \in Conns, Break(c) PROVE Calmly'
  BY <1>10 DEF Break, Calm
<1>11. CASE GAge
  BY <1>0, <1>11 DEF GAge, Calm
<1>12. CASE UNCHANGED poolVars
  BY <1>12 DEF poolVars
<1> HIDE DEF PoolTypeOK, States, At, Close, gVars, lVars, Calmly, Chosen, Refused
<1> QED
  BY <1>1, <1>2, <1>3, <1>4, <1>5, <1>6, <1>7, <1>8, <1>9, <1>10, <1>11, <1>12, Zenon DEF PoolNext, Once

\* Once, with any number of connections made at the same time from both sides: where
\* nothing breaks, expires or is dropped, the handshakes can come to rest only with one
\* connection, which both ends have accepted and pooled, and all others closed.
THEOREM SettlesOnOneHolds == PoolSpec => []SettlesOnOne
<1>1. PoolInit => (Calm => Calmly)
  BY OnceConstants DEF PoolInit, Calmly, Refused
<1>2. PoolTypeOK /\ (Calm => Calmly) => SettlesOnOne
  <2> SUFFICES ASSUME PoolTypeOK, Calmly, Settled, NEW b \in Conns PROVE \E c \in Conns : OneUp(c)
    BY Zenon DEF SettlesOnOne
  <2>1. gpool \in Conns
    BY DEF PoolTypeOK, Calmly, Refused, Settled
  <2>2. Chosen(gpool) /\ \A d \in Conns \ {gpool} : Refused(d)
    BY <2>1, Zenon DEF Calmly
  <2>3. g[gpool] = "ok" /\ l[gpool] = "ok" /\ lpool = gpool /\ closed[gpool] = {}
    BY <2>1, <2>2 DEF Chosen, Settled
  <2>4. ASSUME NEW d \in Conns \ {gpool} PROVE closed[d] = {"G", "L"}
    BY <2>2, <2>4 DEF Refused, Settled, PoolTypeOK
  <2> QED
    BY <2>1, <2>3, <2>4, Zenon DEF OneUp
<1> QED
  BY <1>1, <1>2, CalmStep, PoolTypeCorrect, PTL DEF PoolSpec
=============================================================================
