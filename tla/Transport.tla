----------------------------- MODULE Transport -----------------------------
(* Sending to, dialing, accepting and linking one remote peer              *)
(* (transport/transport.go, with tcp.Dial and the lookups of Client.Send   *)
(* and Client.Attach).  State is kept by remote, so one remote is modelled.*)
(*                                                                         *)
(* A handler is a goroutine that brings a connection to the Channel: one   *)
(* for each accepted connection, and one for each Send that dials; a name  *)
(* in both Sends and Accepts is used for one of the two.  Client           *)
(* and Channel are taken as Client.tla and Channel.tla show them: the      *)
(* Channel in the map has a reference count; an attached connection stays  *)
(* until it faults, is replaced, its context ends or its Channel stops; a  *)
(* connection handed to a Channel whose loops have stopped is not taken.   *)
(* The outbound buffer has its default size, zero.  Local variables are    *)
(* reset where the code is through with them, but exits is kept.           *)
EXTENDS Naturals, FiniteSets

CONSTANTS
  Sends,     \* calls of Send; the dial that a call starts has its name
  Patient,   \* calls whose context never ends
  Silent,    \* calls whose dial may connect to a remote that leaves the handshake hanging
  Accepts,   \* incoming connections that pass the handshake; until they do, they hold
             \* nothing that is modelled here
  MaxTurns,  \* bound on Link, and so on Unlink, together with the times the table
             \* learns the peer's address again
  Reachable  \* dials may succeed

ASSUME TransportConstants ==
  /\ IsFiniteSet(Sends) /\ IsFiniteSet(Accepts) /\ Patient \subseteq Sends
  /\ Silent \subseteq Sends /\ MaxTurns \in Nat /\ Reachable \in BOOLEAN

Handlers == Sends \cup Accepts

VARIABLES
  known,    \* the table has the peer's address
  expiry,   \* its expiry: "none", "young" or "old"
  linked,   \* links[remote]
  links,    \* calls of Link that took effect
  adds,     \* AddPeer calls after the first
  conns,    \* conns[remote]
  rc,       \* references to the Channel in the map; 0: none in the map
  gen,      \* the latest Channel, numbered
  send,     \* where each Send is
  chan,     \* the Channel that each Send found
  at,       \* where each handler is
  bound,    \* handlers that hold a reference of their own
  forever,  \* handlers whose context never ends
  held,     \* the Channel that each handler found
  exits     \* how often each dial has closed its exit channel

regVars == <<rc, gen, bound>>
tableVars == <<known, expiry, adds>>
linkVars == <<linked, links>>
sendVars == <<send, chan>>
dialVars == <<forever, held, exits>>
vars == <<tableVars, linkVars, conns, regVars, sendVars, at, dialVars>>

Init ==
  /\ known = TRUE /\ expiry = "none" /\ linked = FALSE /\ links = 0 /\ adds = 0
  /\ conns = 0 /\ rc = 0 /\ gen = 0
  /\ send = [s \in Sends |-> "lookup"] /\ chan = [s \in Sends |-> 0]
  /\ at = [h \in Handlers |-> "off"]
  /\ bound = {} /\ forever = {} /\ held = [h \in Handlers |-> 0]
  /\ exits = [h \in Handlers |-> 0]

\* No goroutine has panicked, which would end the process.
Up == \A h \in Handlers : at[h] # "panic"

IsConnected == conns > 0
Running(g) == rc > 0 /\ g = gen

\* Client.Bind and Client.Unbind for a handler.
Bind == rc' = rc + 1 /\ gen' = IF rc = 0 THEN gen + 1 ELSE gen
Unbind == rc' = (IF rc > 0 THEN rc - 1 ELSE rc) /\ gen' = gen

-----------------------------------------------------------------------------
(* Send.                                                                   *)

SendGo(s, from, to) == Up /\ send[s] = from /\ send' = [send EXCEPT ![s] = to]

SendLookup(s) ==
  /\ at[s] = "off" /\ SendGo(s, "lookup", IF known THEN "connected" ELSE "error")
  /\ UNCHANGED <<tableVars, linkVars, conns, regVars, chan, at, dialVars>>

SendConnected(s) ==
  /\ SendGo(s, "connected", IF IsConnected THEN "client" ELSE "linked")
  /\ UNCHANGED <<tableVars, linkVars, conns, regVars, chan, at, dialVars>>

\* A dial starts; an address that is not a TCP address is not dialed.
DialStart(s) == \E to \in {"attempt", "unbind"} : at' = [at EXCEPT ![s] = to]

\* A linked peer is dialed without a reference of the dial's own.
SendLinked(s) ==
  /\ SendGo(s, "linked", IF linked THEN "client" ELSE "bind")
  /\ IF linked THEN DialStart(s) ELSE UNCHANGED at
  /\ UNCHANGED <<tableVars, linkVars, conns, regVars, chan, dialVars>>

SendBind(s) ==
  /\ SendGo(s, "bind", "client") /\ Bind /\ bound' = bound \cup {s} /\ DialStart(s)
  /\ UNCHANGED <<tableVars, linkVars, conns, chan, dialVars>>

\* Client.Send looks the Channel up.
ClientSend(s) ==
  /\ SendGo(s, "client", IF rc = 0 THEN "error" ELSE "enqueue")
  /\ chan' = [chan EXCEPT ![s] = IF rc = 0 THEN 0 ELSE gen]
  /\ UNCHANGED <<tableVars, linkVars, conns, regVars, at, dialVars>>

\* The write loop takes messages while it has a writer; or the context ends.
Enqueue(s) ==
  /\ \/ /\ \E h \in Handlers : at[h] = "attached" /\ held[h] = chan[s] /\ Running(chan[s])
        /\ SendGo(s, "enqueue", "sent")
     \/ s \notin Patient /\ SendGo(s, "enqueue", "error")
  /\ chan' = [chan EXCEPT ![s] = 0]
  /\ UNCHANGED <<tableVars, linkVars, conns, regVars, at, dialVars>>

-----------------------------------------------------------------------------
(* dial, around tcp.Dial.                                                  *)

IsDial(h) == h \in Sends /\ send[h] # "lookup"

Go(h, from, to) == Up /\ at[h] = from /\ at' = [at EXCEPT ![h] = to]

\* A step of a handler that reads, at most, the rest of the state.
Only(h, from, to) ==
  /\ Go(h, from, to)
  /\ UNCHANGED <<tableVars, linkVars, conns, regVars, sendVars, dialVars>>

\* An attempt fails: handleErr adds an expiry.
DialFail(h) ==
  /\ Go(h, "attempt", "expire")
  /\ expiry' = IF known /\ expiry = "none" THEN "young" ELSE expiry
  /\ UNCHANGED <<known, adds, linkVars, conns, regVars, sendVars, dialVars>>

\* Bug: the expiry outlives the peer.
DialExpire_Bug(h) ==
  /\ IF expiry = "old"
     THEN /\ known' = FALSE /\ expiry' = expiry
          /\ exits' = [exits EXCEPT ![h] = @ + 1]
          /\ Go(h, "expire", IF exits[h] = 0 THEN "retry" ELSE "panic")
     ELSE Go(h, "expire", "attempt") /\ UNCHANGED <<known, expiry, exits>>
  /\ UNCHANGED <<adds, linkVars, conns, regVars, sendVars, forever, held>>

\* handleErr drops an expired peer, closes exit and cancels dialCtx.  Closing exit
\* a second time panics.
DialExpire(h) ==
  /\ IF expiry = "old"
     THEN /\ known' = FALSE /\ expiry' = "none"
          /\ exits' = [exits EXCEPT ![h] = @ + 1]
          /\ Go(h, "expire", IF exits[h] = 0 THEN "retry" ELSE "panic")
     ELSE Go(h, "expire", "attempt") /\ UNCHANGED <<known, expiry, exits>>
  /\ UNCHANGED <<adds, linkVars, conns, regVars, sendVars, forever, held>>

\* dialCtx ends between attempts: tcp.Dial returns its error.
DialTimeout(h) == Only(h, "attempt", "retry")

\* Connected: the handshake starts.  It reads from the connection without a deadline,
\* and dialCtx does not reach it.
DialConnect(h) == Reachable /\ Only(h, "attempt", "once")

\* Once or the check of the remote fails: the handler returns.
DialReject(h) == Only(h, "once", "close")

\* Through Once, and it is the remote.
DialOnce(h) ==
  /\ Go(h, "once", "check") /\ conns' = conns + 1
  /\ UNCHANGED <<tableVars, linkVars, regVars, sendVars, dialVars>>

\* A dialed connection to a linked peer has no time limit.
CheckLinked(h) ==
  /\ Go(h, "check", "lookup")
  /\ forever' = IF linked THEN forever \cup {h} ELSE forever
  /\ UNCHANGED <<tableVars, linkVars, conns, regVars, sendVars, held, exits>>

\* tcp.Dial returns the result of closing the connection: an error if Once has
\* closed it before.  Otherwise the dial was a success, and the expiry is deleted.
DialClose(h) ==
  /\ \/ Go(h, "close", "unbind") /\ expiry' = "none"
     \/ Go(h, "close", "retry") /\ UNCHANGED expiry
  /\ UNCHANGED <<known, adds, linkVars, conns, regVars, sendVars, dialVars>>

\* After an error, select takes any of its ready cases: exit closed, the context of
\* Send done, or dialCtx done and meanwhile somebody connected.
DialGiveUp(h) ==
  /\ exits[h] > 0 \/ h \notin Patient \/ (h \notin forever /\ IsConnected)
  /\ Only(h, "retry", "unbind")

\* dialCtx done and nobody connected: the loop starts again.  dialCtx was replaced
\* by one that never ends if the peer was linked.
DialAgain(h) == h \notin forever /\ ~IsConnected /\ Only(h, "retry", "attempt")

-----------------------------------------------------------------------------
(* The handler of an accepted connection, and what both handlers do.       *)

\* Unless linked, binds and bounds the time.
Accept(h) ==
  /\ h \in Accepts /\ ~IsDial(h) /\ Go(h, "off", "connect")
  /\ IF linked
     THEN forever' = forever \cup {h} /\ UNCHANGED regVars
     ELSE Bind /\ bound' = bound \cup {h} /\ UNCHANGED forever
  /\ UNCHANGED <<tableVars, linkVars, conns, sendVars, held, exits>>

Connect(h) ==
  /\ Go(h, "connect", "lookup") /\ conns' = conns + 1
  /\ UNCHANGED <<tableVars, linkVars, regVars, sendVars, dialVars>>

\* Bug: without a Channel the handler returns past its deferred disconnect.
ClientAttach_Bug(h) ==
  /\ Go(h, "lookup", IF rc = 0 THEN "unbind" ELSE "handed")
  /\ held' = [held EXCEPT ![h] = gen]
  /\ UNCHANGED <<tableVars, linkVars, conns, regVars, sendVars, forever, exits>>

\* Client.Attach looks the Channel up.
ClientAttach(h) ==
  /\ Go(h, "lookup", IF rc = 0 THEN "disconnect" ELSE "handed")
  /\ held' = [held EXCEPT ![h] = gen]
  /\ UNCHANGED <<tableVars, linkVars, conns, regVars, sendVars, forever, exits>>

\* The loops of the Channel take the connection.
Attach(h) == Running(held[h]) /\ Only(h, "handed", "attached")

\* The connection faults or is replaced.
Fault(h) == Only(h, "attached", "disconnect")

\* The Channel stops, and drops the connection it has.
Detach(h) == ~Running(held[h]) /\ Only(h, "attached", "disconnect")

\* ClientTimeout or ServerTimeout passes.
Timeout(h) ==
  /\ h \notin forever
  /\ Only(h, "handed", "disconnect") \/ Only(h, "attached", "disconnect")

Disconnect(h) ==
  /\ Go(h, "disconnect", IF IsDial(h) THEN "close" ELSE "unbind")
  /\ conns' = (IF conns > 0 THEN conns - 1 ELSE conns) /\ held' = [held EXCEPT ![h] = 0]
  /\ UNCHANGED <<tableVars, linkVars, regVars, sendVars, forever, exits>>

\* Bug: a dial of a linked peer, which holds no reference, unbinds all the same.
Release_Bug(h) ==
  /\ Go(h, "unbind", "done")
  /\ Unbind /\ bound' = bound \ {h}
  /\ forever' = forever \ {h}
  /\ UNCHANGED <<tableVars, linkVars, conns, sendVars, held, exits>>

\* Bug: the deferred Unbind is missing.
ReleaseLeak_Bug(h) ==
  /\ Go(h, "unbind", "done")
  /\ forever' = forever \ {h}
  /\ UNCHANGED <<tableVars, linkVars, conns, regVars, sendVars, held, exits>>

\* The deferred Unbind of those that bound.
Release(h) ==
  /\ Go(h, "unbind", "done")
  /\ IF h \in bound THEN Unbind /\ bound' = bound \ {h} ELSE UNCHANGED regVars
  /\ forever' = forever \ {h}
  /\ UNCHANGED <<tableVars, linkVars, conns, sendVars, held, exits>>

-----------------------------------------------------------------------------
(* Link and Unlink hold linksMu; the table learns addresses again.         *)

Link ==
  /\ Up /\ ~linked /\ links + adds < MaxTurns
  /\ Bind /\ linked' = TRUE /\ links' = links + 1
  /\ UNCHANGED <<tableVars, conns, bound, sendVars, at, dialVars>>

Unlink ==
  /\ Up /\ linked /\ Unbind /\ linked' = FALSE
  /\ UNCHANGED <<tableVars, links, conns, bound, sendVars, at, dialVars>>

AddPeer ==
  /\ Up /\ ~known /\ links + adds < MaxTurns /\ known' = TRUE /\ adds' = adds + 1
  /\ UNCHANGED <<expiry, linkVars, conns, regVars, sendVars, at, dialVars>>

Age ==
  /\ Up /\ expiry = "young" /\ expiry' = "old"
  /\ UNCHANGED <<known, adds, linkVars, conns, regVars, sendVars, at, dialVars>>

-----------------------------------------------------------------------------
SendStep(s) ==
  \/ SendLookup(s) \/ SendConnected(s) \/ SendLinked(s) \/ SendBind(s)
  \/ ClientSend(s) \/ Enqueue(s)

DialStep(h) ==
  \/ DialFail(h) \/ DialExpire(h) \/ DialTimeout(h) \/ DialReject(h)
  \/ DialConnect(h) \/ DialOnce(h) \/ CheckLinked(h) \/ DialClose(h) \/ DialGiveUp(h) \/ DialAgain(h)

HandlerStep(h) ==
  \/ Connect(h) \/ ClientAttach(h) \/ Attach(h)
  \/ Detach(h) \/ Timeout(h) \/ Disconnect(h) \/ Release(h)

Next ==
  \/ \E s \in Sends : SendStep(s) \/ DialStep(s)
  \/ \E h \in Handlers : Accept(h) \/ HandlerStep(h) \/ Fault(h)
  \/ Link \/ Unlink \/ AddPeer \/ Age

Spec == Init /\ [][Next]_vars

\* A dial waits for a remote that may never answer.
Hangs(h) == h \in Silent /\ at[h] = "once"

\* Goroutines run on, time limits and expiries pass, and the select of a dial whose
\* context ends does not ignore a ready case for ever (Go chooses at random).  A handshake
\* comes to an end only if the remote answers or hangs up.
Fairness ==
  /\ \A s \in Sends : WF_vars(SendStep(s))
  /\ \A h \in Handlers : WF_vars((h \in Sends /\ ~Hangs(h) /\ DialStep(h)) \/ HandlerStep(h))
  /\ \A s \in Sends \ Patient : SF_vars(DialTimeout(s)) /\ SF_vars(DialGiveUp(s))
  /\ WF_vars(Age)

FairSpec == Spec /\ Fairness

-----------------------------------------------------------------------------
HoldsConn == {"check", "lookup", "handed", "attached", "disconnect"}
Held == {h \in Handlers : at[h] \in HoldsConn}

\* The references to the Channel are those of Link and of the short-lived handlers
\* that have not finished: no path through Send, dial, accept, Link and Unlink, in any
\* interleaving, drops a reference that it does not hold or keeps one.
RefsExact == rc = Cardinality(bound) + (IF linked THEN 1 ELSE 0)

\* IsConnected counts the handlers that have a connection: it cannot stay positive
\* after the last one, which would keep Send from dialing for ever.
ConnsExact == conns = Cardinality(Held)

\* The closings of exit channels, by dials that go on and by those that have ended: the
\* first, the second... of each.
Closings == UNION {{h} \X (1..exits[h]) : h \in Handlers}

\* Dials that race on an expired peer: HandleExpired is true for one of them only,
\* each time the table has learnt the peer's address.
ExpiredOnce == Cardinality(Closings) <= 1 + adds

\* When the links are gone, nothing outlives its time limit: the handlers come to an end,
\* with their references, and so nothing keeps the Channel.  Exceptions are the dial of a
\* Send whose context never ends; a dial whose remote leaves the handshake hanging; and a
\* connection without a time limit, from the time of a link.  That one stays only as long
\* as somebody else keeps the Channel, or if that has stopped before taking it (see
\* UnlinkReturns).  A second close of exit ends the process.
Drained ==
  []Up /\ <>[]~linked =>
  <>[]\A h \in Handlers :
       \/ at[h] \in {"off", "done"} /\ h \notin bound
       \/ IsDial(h) /\ h \in Patient
       \/ Hangs(h)
       \/ h \in forever /\ at[h] = (IF Running(held[h]) THEN "attached" ELSE "handed")

\* The safety part of Drained, linked or not: when all handlers are through, no connection
\* is counted, and the only reference left is that of a link.
NoneLeft ==
  (\A h \in Handlers : at[h] \in {"off", "done"}) => conns = 0 /\ rc = (IF linked THEN 1 ELSE 0)

\* "Otherwise, the previously defined context will be used, which will eventually timeout."
\* A dial that has connected comes to an end, or becomes that of a linked peer.
DialEnds == \A s \in Sends : (at[s] = "once") ~> at[s] \in {"done", "panic"} \/ s \in forever

\* "Attaching a connection will block until the Channel is unbound (which happens when
\* the Transport is unlinked), the connection is replaced, or the connection faults."
UnlinkReturns ==
  \A h \in Handlers : (at[h] = "handed" /\ ~Running(held[h])) ~> at[h] \notin {"handed", "attached"}

\* Every call of Send returns, even if the Channel it has found goes away.
SendReturns == \A s \in Sends : send[s] # "lookup" ~> send[s] \in {"sent", "error"}
=============================================================================
