------------------------------- MODULE Client -------------------------------
(***************************************************************************)
(* channel.Client: the reference-counted Channels of one peer and the      *)
(* goroutine that hands what they receive to the registered receivers.     *)
(*                                                                         *)
(* Every Bind that finds no Channel for the remote creates a new one; it   *)
(* is named by its number, and 0 stands for "not in the map".  Bind and    *)
(* Unbind are called by Users, which unbind only what they have bound.     *)
(***************************************************************************)
EXTENDS Naturals, Sequences, FiniteSets

CONSTANTS
  Users,      \* parts of the program that hold references
  Remotes,    \* remote peers
  Receivers,  \* calls of Receive, each with its own context
  Msgs,       \* packets that Channels deliver, each once
  Bad,        \* the packets that make a receiver return an error
  Cancels,    \* receivers whose context may be done
  MaxGen,     \* bound: how many Channels are created
  NoRemote, NoMsg

ASSUME ClientConstants ==
  /\ Bad \subseteq Msgs /\ Cancels \subseteq Receivers /\ MaxGen \in Nat
  /\ NoRemote \notin Remotes /\ NoMsg \notin Msgs
  /\ IsFiniteSet(Users) /\ IsFiniteSet(Remotes)

VARIABLES
  bound,     \* the references that users hold (history)
  shared,    \* client.sharedChannels: the current Channel of each remote
  ngen,      \* how many Channels were created
  peer,      \* the remote of each Channel
  rc,        \* the reference count of each Channel
  alive,     \* the Channels whose context is not done
  fwd,       \* the packet each forwarding goroutine offers (NoMsg: none)
  fresh,     \* packets that no Channel has delivered yet
  recv,      \* where each call of Receive is
  done,      \* receivers whose context is done
  running,   \* client.receiversRunning
  loop,      \* where the receive goroutine is
  recvs,     \* its receivers, which it compacts in place amid the calls for a packet
  pos,       \* the next of them to be called
  marker,    \* how many of them it has called and keeps, at the front of the list
  cur,       \* the current packet and the Channel it came from
  handled,   \* the packets each receiver was called with (history)
  lost,      \* packets taken while no receiver was registered (history)
  killed     \* Channels cancelled by the receive goroutine, and for what

regVars  == <<bound, shared, ngen, peer, rc, alive>>
loopVars == <<running, loop, recvs, pos, marker, cur, handled, lost>>
vars == <<regVars, fwd, fresh, recv, done, loopVars, killed>>

Gens == 1..MaxGen

Init ==
  /\ bound = {} /\ shared = [r \in Remotes |-> 0] /\ ngen = 0
  /\ peer = [g \in Gens |-> NoRemote] /\ rc = [g \in Gens |-> 0] /\ alive = {}
  /\ fwd = [g \in Gens |-> NoMsg] /\ fresh = Msgs
  /\ recv = [k \in Receivers |-> "idle"] /\ done = {}
  /\ running = FALSE /\ loop = "off" /\ recvs = <<>> /\ pos = 1 /\ marker = 0
  /\ cur = <<0, NoMsg>> /\ handled = [k \in Receivers |-> <<>>] /\ lost = {}
  /\ killed = {}

-----------------------------------------------------------------------------
(* Bind and Unbind, under sharedChannelsMu.                                *)

BindShared(u, r) ==
  /\ <<u, r>> \notin bound /\ shared[r] # 0
  /\ bound' = bound \cup {<<u, r>>}
  /\ rc' = [rc EXCEPT ![shared[r]] = @ + 1]
  /\ UNCHANGED <<shared, ngen, peer, alive, fwd, fresh, recv, done, loopVars, killed>>

\* Creates the Channel and starts it and its forwarding goroutine.
BindNew(u, r) ==
  /\ <<u, r>> \notin bound /\ shared[r] = 0 /\ ngen < MaxGen
  /\ bound' = bound \cup {<<u, r>>}
  /\ ngen' = ngen + 1
  /\ shared' = [shared EXCEPT ![r] = ngen + 1]
  /\ peer' = [peer EXCEPT ![ngen + 1] = r]
  /\ rc' = [rc EXCEPT ![ngen + 1] = 1]
  /\ alive' = alive \cup {ngen + 1}
  /\ UNCHANGED <<fwd, fresh, recv, done, loopVars, killed>>

\* Bug: the Channel is removed from the map but left running.
Unbind_Bug(u, r) ==
  /\ <<u, r>> \in bound
  /\ bound' = bound \ {<<u, r>>}
  /\ rc' = [rc EXCEPT ![shared[r]] = @ - 1]
  /\ shared' = IF rc[shared[r]] = 1 THEN [shared EXCEPT ![r] = 0] ELSE shared
  /\ UNCHANGED <<ngen, peer, alive, fwd, fresh, recv, done, loopVars, killed>>

\* Bug: the first Unbind drops the Channel, whoever else refers to it.
UnbindEarly_Bug(u, r) ==
  /\ <<u, r>> \in bound
  /\ bound' = bound \ {<<u, r>>}
  /\ IF shared[r] = 0 THEN UNCHANGED <<shared, rc, alive>>
     ELSE /\ rc' = [rc EXCEPT ![shared[r]] = 0]
          /\ alive' = alive \ {shared[r]} /\ shared' = [shared EXCEPT ![r] = 0]
  /\ UNCHANGED <<ngen, peer, fwd, fresh, recv, done, loopVars, killed>>

Unbind(u, r) ==
  /\ <<u, r>> \in bound
  /\ bound' = bound \ {<<u, r>>}
  /\ LET g == shared[r] IN
     IF g = 0 THEN UNCHANGED <<shared, rc, alive>>
     ELSE /\ rc' = [rc EXCEPT ![g] = @ - 1]
          /\ IF rc[g] = 1
             THEN alive' = alive \ {g} /\ shared' = [shared EXCEPT ![r] = 0]
             ELSE UNCHANGED <<alive, shared>>
  /\ UNCHANGED <<ngen, peer, fwd, fresh, recv, done, loopVars, killed>>

-----------------------------------------------------------------------------
(* The forwarding goroutine of a Channel.                                  *)

\* A packet that the Channel delivered is offered on client.inbound.
Forward(g, msg) ==
  /\ g \in alive /\ fwd[g] = NoMsg /\ msg \in fresh
  /\ fwd' = [fwd EXCEPT ![g] = msg] /\ fresh' = fresh \ {msg}
  /\ UNCHANGED <<regVars, recv, done, loopVars, killed>>

\* The Channel's context is done: the packet is dropped.
ForwardStop(g) ==
  /\ g \notin alive /\ fwd[g] # NoMsg
  /\ fwd' = [fwd EXCEPT ![g] = NoMsg]
  /\ UNCHANGED <<regVars, fresh, recv, done, loopVars, killed>>

-----------------------------------------------------------------------------
(* Receive and the receive goroutine.                                      *)

\* The first caller starts the goroutine; every caller then offers its receiver.
Receive(k) ==
  /\ recv[k] = "idle"
  /\ recv' = [recv EXCEPT ![k] = "offer"]
  /\ IF running THEN UNCHANGED <<running, loop, recvs>>
     ELSE running' = TRUE /\ loop' = "select" /\ recvs' = <<>>
  /\ UNCHANGED <<regVars, fwd, fresh, done, pos, marker, cur, handled, lost, killed>>

Cancel(k) ==
  /\ k \in Cancels \ done
  /\ done' = done \cup {k}
  /\ UNCHANGED <<regVars, fwd, fresh, recv, loopVars, killed>>

ReceiveReturn(k) ==
  /\ recv[k] = "offer" /\ k \in done
  /\ recv' = [recv EXCEPT ![k] = "returned"]
  /\ UNCHANGED <<regVars, fwd, fresh, done, loopVars, killed>>

LoopRegister(k) ==
  /\ loop = "select" /\ recv[k] = "offer"
  /\ recv' = [recv EXCEPT ![k] = "registered"] /\ recvs' = Append(recvs, k)
  /\ UNCHANGED <<regVars, fwd, fresh, done, running, loop, pos, marker, cur, handled,
                 lost, killed>>

LoopTake(g) ==
  /\ loop = "select" /\ fwd[g] # NoMsg
  /\ cur' = <<g, fwd[g]>> /\ fwd' = [fwd EXCEPT ![g] = NoMsg]
  /\ pos' = 1 /\ marker' = 0 /\ loop' = "call"
  /\ lost' = IF recvs = <<>> THEN lost \cup {fwd[g]} ELSE lost
  /\ UNCHANGED <<regVars, fresh, recv, done, running, recvs, handled, killed>>

\* Bug: the receivers behind one that is deleted move up, under the range that goes on.
LoopSkip_Bug ==
  /\ loop = "call" /\ pos <= Len(recvs) /\ recvs[pos] \in done
  /\ recvs' = SubSeq(recvs, 1, pos - 1) \o SubSeq(recvs, pos + 1, Len(recvs)) /\ pos' = pos + 1
  /\ UNCHANGED <<regVars, fwd, fresh, recv, done, running, loop, marker, cur,
                 handled, lost, killed>>

\* The context of the receiver is done: it is not called and not kept.
LoopSkip ==
  /\ loop = "call" /\ pos <= Len(recvs) /\ recvs[pos] \in done
  /\ pos' = pos + 1
  /\ UNCHANGED <<regVars, fwd, fresh, recv, done, running, loop, recvs, marker, cur,
                 handled, lost, killed>>

\* The receiver is called, and moved to the front, over one that was called or skipped.
LoopCall ==
  /\ loop = "call" /\ pos <= Len(recvs) /\ recvs[pos] \notin done
  /\ handled' = [handled EXCEPT ![recvs[pos]] = Append(@, cur[2])]
  /\ recvs' = [recvs EXCEPT ![marker + 1] = recvs[pos]]
  /\ marker' = marker + 1 /\ pos' = pos + 1
  /\ loop' = IF cur[2] \in Bad THEN "kill" ELSE "call"
  /\ UNCHANGED <<regVars, fwd, fresh, recv, done, running, cur, lost, killed>>

\* Bug: the goroutine returns after the error of a receiver.
LoopKill_Bug ==
  /\ loop = "kill" /\ loop' = "off"
  /\ LET g == shared[peer[cur[1]]] IN
       /\ alive' = alive \ {g}
       /\ killed' = IF g = 0 THEN killed ELSE killed \cup {<<g, cur[1]>>}
  /\ UNCHANGED <<bound, shared, ngen, peer, rc, fwd, fresh, recv, done, running, recvs,
                 pos, marker, cur, handled, lost>>

\* The receiver returned an error: the Channel that is now in the map for the
\* sender of the packet is cancelled, and stays in the map.
LoopKill ==
  /\ loop = "kill" /\ loop' = "call"
  /\ LET g == shared[peer[cur[1]]] IN
       /\ alive' = alive \ {g}
       /\ killed' = IF g = 0 THEN killed ELSE killed \cup {<<g, cur[1]>>}
  /\ UNCHANGED <<bound, shared, ngen, peer, rc, fwd, fresh, recv, done, running, recvs,
                 pos, marker, cur, handled, lost>>

\* What is behind the marker is deleted.  The goroutine ends when no receiver is left.
LoopEnd ==
  /\ loop = "call" /\ pos > Len(recvs)
  /\ recvs' = SubSeq(recvs, 1, marker) /\ pos' = 1 /\ marker' = 0
  /\ loop' = IF marker = 0 THEN "closing" ELSE "select"
  /\ UNCHANGED <<regVars, fwd, fresh, recv, done, running, cur, handled, lost, killed>>

LoopClose ==
  /\ loop = "closing" /\ loop' = "off" /\ running' = FALSE
  /\ UNCHANGED <<regVars, fwd, fresh, recv, done, recvs, pos, marker, cur, handled,
                 lost, killed>>

-----------------------------------------------------------------------------

Registry == \E u \in Users, r \in Remotes :
              BindShared(u, r) \/ BindNew(u, r) \/ Unbind(u, r)
Forwarding == \E g \in Gens : ForwardStop(g) \/ \E msg \in Msgs : Forward(g, msg)
Receiving == \E k \in Receivers :
               Receive(k) \/ Cancel(k) \/ ReceiveReturn(k) \/ LoopRegister(k)
Looping == \/ \E g \in Gens : LoopTake(g)
           \/ LoopSkip \/ LoopCall \/ LoopKill \/ LoopEnd \/ LoopClose

Next == Registry \/ Forwarding \/ Receiving \/ Looping

Spec == Init /\ [][Next]_vars

\* Goroutines that can run do run; callers, contexts and packets are not forced.
Fairness ==
  /\ WF_vars(LoopSkip \/ LoopCall \/ LoopKill \/ LoopEnd \/ LoopClose)
  /\ \A g \in Gens : WF_vars(LoopTake(g)) /\ WF_vars(ForwardStop(g))
  /\ \A k \in Receivers : WF_vars(LoopRegister(k)) /\ WF_vars(ReceiveReturn(k))

FairSpec == Spec /\ Fairness

-----------------------------------------------------------------------------
(* Properties.                                                             *)

\* Types of the Client's registry, forwarders and receive goroutine.
TypeOK ==
  /\ bound \subseteq Users \X Remotes /\ shared \in [Remotes -> 0..MaxGen]
  /\ ngen \in 0..MaxGen /\ peer \in [Gens -> Remotes \cup {NoRemote}]
  /\ rc \in [Gens -> Nat] /\ alive \subseteq Gens
  /\ fwd \in [Gens -> Msgs \cup {NoMsg}] /\ fresh \subseteq Msgs
  /\ recv \in [Receivers -> {"idle", "offer", "registered", "returned"}] /\ done \subseteq Receivers
  /\ running \in BOOLEAN /\ loop \in {"off", "select", "call", "kill", "closing"}
  /\ recvs \in Seq(Receivers) /\ pos \in Nat \ {0} /\ marker \in Nat
  /\ cur \in (0..MaxGen) \X (Msgs \cup {NoMsg})
  /\ handled \in [Receivers -> Seq(Msgs)] /\ lost \subseteq Msgs
  /\ killed \subseteq Gens \X Gens

\* The references that Bind and Unbind of one remote hold are those of
\* its Channel: the count is exact, and the Channel is in the map exactly as
\* long as somebody refers to it, over any number of Channels that came and went.
RefCounted ==
  \A r \in Remotes :
    LET n == Cardinality({b \in bound : b[2] = r}) IN
      IF shared[r] = 0 THEN n = 0
                       ELSE n > 0 /\ rc[shared[r]] = n /\ peer[shared[r]] = r

\* A Channel that runs is the one in the map: no Channel, with its loops and its
\* forwarding goroutine, is left running after its last reference was unbound.
NoLeak == \A g \in alive : peer[g] \in Remotes /\ shared[peer[g]] = g

\* Once registered a receiver misses nothing until its context is done, although the list
\* is compacted in place while the goroutine ranges over it: it stays in the list, and what
\* a later receiver was called with is a suffix of what an earlier one was called with.
NothingMissed ==
  loop = "select" =>
    /\ \A k \in Receivers \ done : recv[k] = "registered" => \E i \in DOMAIN recvs : recvs[i] = k
    /\ \A i, j \in DOMAIN recvs : i < j =>
         LET a == handled[recvs[i]]
             b == handled[recvs[j]]
         IN  Len(b) <= Len(a) /\ b = SubSeq(a, Len(a) - Len(b) + 1, Len(a))

\* While a receiver stays registered, a packet that a Channel delivered does
\* not stay with the forwarding goroutine.
ForwardedTaken ==
  (\E k \in Receivers : <>[](\E i \in DOMAIN recvs : recvs[i] = k))
  => \A g \in Gens : fwd[g] # NoMsg ~> fwd[g] = NoMsg

\* While no context is done, every packet that was received is handled by some
\* receiver.
NothingLost == done = {} => lost = {}

\* A Channel is killed only for a packet that was received on that Channel.
KillEarned == \A x \in killed : x[1] = x[2]
=============================================================================
