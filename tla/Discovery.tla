----------------------------- MODULE Discovery -----------------------------
(* Peer discovery at one peer (peer/peerdiscovery.go), over its table.     *)
(* DiscoverPeers pings the closest peers again and again; the goroutine    *)
(* that receives answers each ping with the peers it knows, and adds the   *)
(* peers that the answers to its own pings list.  Each call into the table *)
(* locks anew, so dials that expire peers interleave with the handlers.    *)
(*                                                                         *)
(* The remote peers are the environment.  Each has a fixed list of peers   *)
(* to answer with, and may ping the local peer once.  A ping, the remote's *)
(* handling of it and the answer are one message under way.  Send is taken *)
(* as Transport.tla shows it: it fails for a peer that is not in the table,*)
(* and while the peer cannot be reached it blocks until its context ends.  *)
EXTENDS Table

CONSTANTS
  Bootstrap,         \* peers in the table at the start
  Knows,             \* what each peer lists in its answers, closest first
  Pingers,           \* peers that ping the local peer
  Alpha,             \* opts.Alpha
  MaxExpectedPeers,  \* opts.MaxExpectedPeers
  MaxFaults          \* bound on lost or bad messages, lost peers, AppDeletes and the end
                     \* of the context

ASSUME DiscoveryConstants ==
  /\ Bootstrap \subseteq Peers /\ Pingers \subseteq Peers
  /\ \A p \in Peers : Knows[p] \in Seq(Peers \cup {Self})
  /\ Alpha \in Nat \ {0} /\ MaxExpectedPeers \in Nat /\ MaxFaults \in Nat

VARIABLES
  rx,       \* where the receive goroutine is in didReceivePing or didReceivePingAck
  from,     \* the sender of the message it handles
  todo,     \* the peers it still has to look up, or to add
  inbox,    \* messages on their way to the local peer: <<type, sender>>
  round,    \* the peers that DiscoverPeers still has to ping in this round
  loop,     \* where DiscoverPeers is: "on" or "done"
  running,  \* its context has not ended
  greeted,  \* remote peers that have sent their ping
  gone,     \* remote peers that cannot be reached any more
  faults    \* faults so far

rxVars == <<rx, from, todo>>
loopVars == <<round, loop, running>>
netVars == <<inbox, greeted, gone, faults>>
dvars == <<tableVars, rxVars, loopVars, netVars>>

DiscoveryInit ==
  /\ TableInit /\ rx = "idle" /\ from = Self /\ todo = <<>>
  /\ round = <<>> /\ loop = "on" /\ running = TRUE
  /\ inbox = {} /\ greeted = {} /\ gone = {} /\ faults = 0

-----------------------------------------------------------------------------
(* DiscoverPeers.                                                          *)

\* The application adds its bootstrap peers.
AddBootstrap(p) ==
  /\ p \in Bootstrap /\ addrs[p] = NoAddr /\ \E a \in Nonces : AddPeer(p, a)
  /\ UNCHANGED <<rxVars, loopVars, netVars>>

Reachable(p) == addrs[p] # NoAddr /\ p \notin gone

\* A ping is sent, or fails, or is lost: an error is only logged.  (Those of a context
\* come wrapped from Client.Send, and never compare equal to the context's.)  If the
\* ticker has fired meanwhile, for sends that took more than their share of the
\* period, the round is given up for a new one.  Any round may be.
Ping ==
  /\ loop = "on" /\ round # <<>> /\ round' \in {Tail(round), PeersOf(Alpha)}
  /\ \/ /\ Reachable(Head(round)) /\ faults' = faults
        /\ inbox' = inbox \cup {<<"PingAck", Head(round)>>}
     \/ (~Reachable(Head(round)) \/ ~running) /\ inbox' = inbox /\ faults' = faults
     \/ faults < MaxFaults /\ faults' = faults + 1 /\ inbox' = inbox
  /\ UNCHANGED <<tableVars, rxVars, loop, running, greeted, gone>>

\* At the end of a round DiscoverPeers waits for the ticker, and lists the peers anew.
Tick ==
  /\ loop = "on" /\ round = <<>> /\ round' = PeersOf(Alpha)
  /\ UNCHANGED <<tableVars, rxVars, loop, running, netVars>>

Return ==
  /\ loop = "on" /\ round = <<>> /\ ~running /\ loop' = "done"
  /\ UNCHANGED <<tableVars, rxVars, round, running, netVars>>

Cancel ==
  /\ running /\ running' = FALSE /\ faults < MaxFaults /\ faults' = faults + 1
  /\ UNCHANGED <<tableVars, rxVars, round, loop, inbox, greeted, gone>>

-----------------------------------------------------------------------------
(* The receive goroutine.                                                  *)

\* Data that does not parse makes the handler return an error, for which the Channel
\* is killed: the sender is cut off, until the Channel is bound anew or for ever.
ReceiveBad(m) ==
  /\ rx = "idle" /\ m \in inbox /\ faults < MaxFaults /\ faults' = faults + 1
  /\ inbox' = inbox \ {m} /\ gone' \in {gone, gone \cup {m[2]}}
  /\ UNCHANGED <<tableVars, rxVars, loopVars, greeted>>

\* didReceivePing adds the sender under the address the ping came from,
didReceivePing(m) ==
  /\ rx = "idle" /\ m \in inbox /\ m[1] = "Ping"
  /\ inbox' = inbox \ {m} /\ rx' = "list" /\ from' = m[2]
  /\ \E a \in Nonces : AddPeer(m[2], a)
  /\ UNCHANGED <<todo, loopVars, greeted, gone, faults>>

\* lists the closest peers,
AckList ==
  /\ rx = "list" /\ rx' = "lookup" /\ todo' = PeersOf(MaxExpectedPeers)
  /\ UNCHANGED <<tableVars, from, loopVars, netVars>>

\* looks up their addresses one by one, leaving out those that have none,
AckAddress ==
  /\ rx = "lookup" /\ todo # <<>> /\ todo' = Tail(todo) /\ rx' = rx
  /\ UNCHANGED <<tableVars, from, loopVars, netVars>>

\* and sends the answer.  Send looks up the sender,
AckLookup ==
  /\ rx = "lookup" /\ todo = <<>>
  /\ rx' = (IF addrs[from] = NoAddr THEN "idle" ELSE "send")
  /\ from' = (IF addrs[from] = NoAddr THEN Self ELSE from)
  /\ UNCHANGED <<tableVars, todo, loopVars, netVars>>

\* and has no time limit.
AckSend ==
  /\ rx = "send" /\ from \notin gone /\ rx' = "idle" /\ from' = Self
  /\ UNCHANGED <<tableVars, todo, loopVars, netVars>>

didReceivePingAck(m) ==
  /\ rx = "idle" /\ m \in inbox /\ m[1] = "PingAck"
  /\ inbox' = inbox \ {m} /\ rx' = "add" /\ from' = m[2] /\ todo' = Knows[m[2]]
  /\ UNCHANGED <<tableVars, loopVars, greeted, gone, faults>>

\* Bug: stops at the first peer that it has already.
AddListed_Bug ==
  /\ rx = "add" /\ todo # <<>>
  /\ todo' = (IF Head(todo) = Self \/ addrs[Head(todo)] = NoAddr THEN Tail(todo) ELSE <<>>)
  /\ \E a \in Nonces : AddPeer(Head(todo), a)
  /\ UNCHANGED <<rx, from, loopVars, netVars>>

\* Each address is taken, whatever its nonce.
AddListed ==
  /\ rx = "add" /\ todo # <<>> /\ todo' = Tail(todo)
  /\ \E a \in Nonces : AddPeer(Head(todo), a)
  /\ UNCHANGED <<rx, from, loopVars, netVars>>

AddDone ==
  /\ rx = "add" /\ todo = <<>> /\ rx' = "idle" /\ from' = Self
  /\ UNCHANGED <<tableVars, todo, loopVars, netVars>>

Receiving ==
  \/ \E m \in inbox : ReceiveBad(m) \/ didReceivePing(m) \/ didReceivePingAck(m)
  \/ AckList \/ AckAddress \/ AckLookup \/ AckSend \/ AddListed \/ AddDone

-----------------------------------------------------------------------------
(* The environment: remote peers, the network, and the rest of the table.  *)

RemotePing(p) ==
  /\ p \in Pingers /\ p \notin greeted \cup gone /\ greeted' = greeted \cup {p}
  /\ inbox' = inbox \cup {<<"Ping", p>>}
  /\ UNCHANGED <<tableVars, rxVars, loopVars, gone, faults>>

Vanish(p) ==
  /\ faults < MaxFaults /\ faults' = faults + 1 /\ p \notin gone /\ gone' = gone \cup {p}
  /\ UNCHANGED <<tableVars, rxVars, loopVars, inbox, greeted>>

AppDelete(p) ==
  /\ p \in AppDeletes /\ faults < MaxFaults /\ faults' = faults + 1 /\ DeletePeer(p)
  /\ UNCHANGED <<rxVars, loopVars, inbox, greeted, gone>>

TableStep ==
  /\ \/ \E d \in Dialers : Dialing(d)
     \/ \E p \in Peers : Age(p)
  /\ UNCHANGED <<rxVars, loopVars, netVars>>

DiscoverPeers == Ping \/ Tick \/ Return

DiscoveryNext ==
  \/ DiscoverPeers \/ Cancel \/ Receiving \/ TableStep
  \/ \E p \in Peers : AddBootstrap(p) \/ AppDelete(p) \/ RemotePing(p) \/ Vanish(p)

\* Goroutines run on, the ticker ticks, a ready select case is not passed over for
\* ever, and messages arrive.  Nothing makes the application delete or a dial end.
DiscoverySpec ==
  /\ DiscoveryInit /\ [][DiscoveryNext]_dvars
  /\ WF_dvars(DiscoverPeers) /\ WF_dvars(Receiving)
  /\ \A p \in Bootstrap : WF_dvars(AddBootstrap(p))
  /\ \A p \in Peers : SF_dvars(didReceivePingAck(<<"PingAck", p>>))

-----------------------------------------------------------------------------
\* The peers that can be learnt of from the bootstrap peers, in n rounds.
LearntIn[n \in Nat] ==
  IF n = 0 THEN Bootstrap
  ELSE LearntIn[n - 1] \cup UNION {Range(Knows[p]) \ {Self} : p \in LearntIn[n - 1]}

Learnable == LearntIn[Cardinality(Peers)]

Calm ==
  /\ gone = {} /\ running /\ ~absent /\ \A d \in Dialers : pc[d] # "delete"
  /\ Alpha >= Cardinality(Peers)

\* "should successfully find all peers": if a round pings all peers of the table, rounds
\* are ended again and again, however many are given up between, and unless a peer is cut
\* off or expires, every peer that the peers known to the table lead to is found, however
\* messages interleave with dials, and found again if the application deletes it.
Learns ==
  []Calm /\ []<>(round = <<>>) => []<>(\A p \in Learnable : addrs[p] # NoAddr)

\* The same, if every round may be given up.
LearnsLate == []Calm => []<>(\A p \in Learnable : addrs[p] # NoAddr)

\* didReceivePing asserts that a peer it has listed is in the table ("acking ping":
\* "does not exist in table").
ListedInTable == rx = "lookup" /\ todo # <<>> => addrs[Head(todo)] # NoAddr

\* The receive goroutine gets through every message.
ReceiverReturns == rx # "idle" ~> rx = "idle"

\* An address in the table is replaced only by one whose nonce is not lower.
NewerKept ==
  [][\A p \in Peers :
       addrs[p] # NoAddr /\ addrs'[p] # NoAddr => addrs'[p] >= addrs[p]]_addrs
=============================================================================
