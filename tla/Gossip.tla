------------------------------- MODULE Gossip -------------------------------
(* Gossip of content in a network of peers (peer/gossip.go): a peer pushes *)
(* a content ID to some of its peers, these pull the content, and push it  *)
(* on in the same subnet.  Each peer expects an answer for the time of a   *)
(* window, in its map of subnets and in the filter it shares with Syncer.  *)
(*                                                                         *)
(* A handler runs in the one receive goroutine of its peer, and the other  *)
(* goroutines that touch the same state (the ends of windows, Syncer) take *)
(* a lock once each: a handler is one step.  Messages arrive in any order  *)
(* and at any later time, or, but for the liveness property, never: that   *)
(* covers the time for which a Send may block its handler, and its error.  *)
(* Contents in a resolver stay there.                                      *)
EXTENDS Integers, FiniteSets

CONSTANTS
  Nodes, Contents, Subnets,
  DefaultSubnet,  \* stands for all peers of the table
  EmptyID,        \* the content ID of no bytes
  Members,        \* the signatories of each subnet
  Table,          \* the peers that the table of each node holds
  Dist,           \* XOR distance between two signatories
  Alpha,          \* opts.Alpha
  Resolvers,      \* nodes for which Resolve was called
  Origins,        \* calls of Gossip by the application: [node, id, subnet]
  Syncs,          \* calls of Sync: <<node, id>>
  Leaves,         \* calls of DeleteSubnet and AddSubnet: <<node, subnet>>
  NoSubnet, NoEntry

ASSUME GossipConstants ==
  /\ DefaultSubnet \notin Subnets /\ NoSubnet \notin Subnets \cup {DefaultSubnet}
  /\ Members \in [Subnets -> SUBSET Nodes] /\ NoEntry \notin Int
  /\ Table \in [Nodes -> SUBSET Nodes] /\ \A n \in Nodes : n \notin Table[n]
  /\ Origins \subseteq [node : Nodes, id : Contents, subnet : Subnets \cup {DefaultSubnet}]
  /\ Syncs \subseteq Nodes \X Contents /\ Leaves \subseteq Nodes \X Subnets
  /\ Resolvers \subseteq Nodes /\ Alpha \in Nat

VARIABLES
  has,        \* the content IDs in the resolver of each node
  subnets,    \* the map of each Gossiper
  open,       \* windows whose time has not passed, by node and content ID
  closing,    \* windows that have left the map and not yet the filter
  expecting,  \* the filters, by node and content ID
  known,      \* the subnets in the table of each node
  msgs,       \* messages in flight
  called,     \* Origins that have called Gossip
  syncing,    \* where each call of Sync is: "idle", "on" or "off"
  late        \* history: content came outside a window, or a subnet was deleted

vars == <<has, subnets, open, closing, expecting, known, msgs, called, syncing, late>>
windowVars == <<subnets, open, closing>>

Keys == Nodes \X Contents

F == INSTANCE SyncFilter WITH Contents <- Keys

Init ==
  /\ has = [n \in Nodes |-> {o.id : o \in {p \in Origins : p.node = n /\ n \in Resolvers}}]
  /\ subnets = [k \in Keys |-> NoSubnet] /\ F!FilterInit
  /\ open = [k \in Keys |-> 0] /\ closing = [k \in Keys |-> 0]
  /\ known = [n \in Nodes |-> Subnets]
  /\ msgs = {} /\ called = {} /\ syncing = [k \in Syncs |-> "idle"] /\ late = FALSE

-----------------------------------------------------------------------------
(* Who is sent a push.                                                     *)

\* The first k signatories of a list that is sorted by distance from n.
Closest(n, S, k) == {m \in S : Cardinality({q \in S : Dist[n][q] < Dist[n][m]}) < k}

\* Bug: a subnet that the table does not have is taken for all peers.
Recipients_Bug(n, s) ==
  IF s \in known[n] THEN Closest(n, Members[s], Alpha) ELSE Closest(n, Table[n], Alpha)

\* The list of a subnet may hold the local peer, at distance zero.
Recipients(n, s) ==
  IF s = DefaultSubnet THEN Closest(n, Table[n], Alpha)
  ELSE IF s \in known[n] THEN Closest(n, Members[s], Alpha)
  ELSE {}

\* Transport.Send fails for a recipient that is not in the table.
Send(type, n, recipients, c, s) ==
  {[type |-> type, from |-> n, to |-> m, id |-> c, subnet |-> s] : m \in recipients \cap Table[n]}

Pushes(n, c, s) == Send("Push", n, Recipients(n, s), c, s)

-----------------------------------------------------------------------------
(* Calls of the application.                                               *)

Gossip(o) ==
  /\ o \notin called /\ called' = called \cup {o}
  /\ msgs' = msgs \cup Pushes(o.node, o.id, o.subnet)
  /\ UNCHANGED <<has, windowVars, expecting, known, syncing, late>>

\* Sync allows the content ID and pulls it from some peers (Syncer.tla).
Sync(k) ==
  /\ syncing[k] = "idle" /\ syncing' = [syncing EXCEPT ![k] = "on"]
  /\ F!Allow(k)
  /\ \E ps \in SUBSET Table[k[1]] :
       msgs' = msgs \cup Send("Pull", k[1], ps, k[2], NoSubnet)
  /\ UNCHANGED <<has, windowVars, known, called, late>>

\* WiggleTimeout after the call has returned.
SyncDeny(k) ==
  /\ syncing[k] = "on" /\ syncing' = [syncing EXCEPT ![k] = "off"]
  /\ F!Deny(k)
  /\ UNCHANGED <<has, windowVars, known, msgs, called, late>>

DeleteSubnet(n, s) ==
  /\ s \in known[n] /\ known' = [known EXCEPT ![n] = @ \ {s}] /\ late' = TRUE
  /\ UNCHANGED <<has, windowVars, expecting, msgs, called, syncing>>

AddSubnet(n, s) ==
  /\ s \notin known[n] /\ known' = [known EXCEPT ![n] = @ \cup {s}]
  /\ UNCHANGED <<has, windowVars, expecting, msgs, called, syncing, late>>

-----------------------------------------------------------------------------
(* DidReceiveMessage.                                                      *)

\* A message that asks for nothing: of no ID, to a node with no resolver, or about content it has.
Unwanted(m) == m.id = EmptyID \/ m.to \notin Resolvers \/ m.id \in has[m.to]

didReceivePush(m) ==
  LET k == <<m.to, m.id>> IN
  /\ m.type = "Push"
  /\ IF Unwanted(m)
     THEN msgs' = msgs \ {m} /\ UNCHANGED <<subnets, open, expecting>>
     ELSE /\ subnets' = [subnets EXCEPT ![k] = m.subnet]
          /\ F!Allow(k) /\ open' = [open EXCEPT ![k] = @ + 1]
          /\ msgs' = (msgs \ {m}) \cup Send("Pull", m.to, {m.from}, m.id, NoSubnet)
  /\ UNCHANGED <<has, closing, known, called, syncing, late>>

didReceivePull(m) ==
  /\ m.type = "Pull"
  /\ msgs' = (msgs \ {m}) \cup
       (IF m.id # EmptyID /\ m.to \in Resolvers /\ m.id \in has[m.to]
        THEN Send("Sync", m.to, {m.from}, m.id, NoSubnet) ELSE {})
  /\ UNCHANGED <<has, windowVars, expecting, known, called, syncing, late>>

\* Bug: content is pushed on only if its window has ended.
didReceiveSync_Bug(m) ==
  LET u == subnets[<<m.to, m.id>>] IN
  /\ m.type = "Sync" /\ msgs' = msgs \ {m}
  /\ has' = IF F!Filter(<<m.to, m.id>>) \/ Unwanted(m) THEN has
            ELSE [has EXCEPT ![m.to] = @ \cup {m.id}]
  /\ late' = (late \/ (u = NoSubnet /\ ~Unwanted(m)))
  /\ UNCHANGED <<windowVars, expecting, known, called, syncing>>

\* Content that arrives for the first time is pushed on in the subnet of the push
\* that announced it, if its window is still open.
didReceiveSync(m) ==
  LET u == subnets[<<m.to, m.id>>] IN
  /\ m.type = "Sync"
  /\ IF F!Filter(<<m.to, m.id>>) \/ Unwanted(m)
     THEN msgs' = msgs \ {m} /\ UNCHANGED has
     ELSE /\ has' = [has EXCEPT ![m.to] = @ \cup {m.id}]
          /\ msgs' = (msgs \ {m}) \cup (IF u = NoSubnet THEN {} ELSE Pushes(m.to, m.id, u))
  /\ late' = (late \/ (u = NoSubnet /\ ~Unwanted(m)))
  /\ UNCHANGED <<windowVars, expecting, known, called, syncing>>

DidReceiveMessage(m) == didReceivePush(m) \/ didReceivePull(m) \/ didReceiveSync(m)

-----------------------------------------------------------------------------
(* The goroutine that ends a window after opts.Timeout.                    *)

\* Bug: the subnet is left in the map.
WindowEnd_Bug(k) ==
  /\ open[k] > 0
  /\ open' = [open EXCEPT ![k] = @ - 1] /\ closing' = [closing EXCEPT ![k] = @ + 1]
  /\ UNCHANGED <<has, subnets, expecting, known, msgs, called, syncing, late>>

\* Deletes the subnet, whichever push has stored it.
WindowEnd(k) ==
  /\ open[k] > 0 /\ subnets' = [subnets EXCEPT ![k] = NoSubnet]
  /\ open' = [open EXCEPT ![k] = @ - 1] /\ closing' = [closing EXCEPT ![k] = @ + 1]
  /\ UNCHANGED <<has, expecting, known, msgs, called, syncing, late>>

WindowDeny(k) ==
  /\ closing[k] > 0 /\ closing' = [closing EXCEPT ![k] = @ - 1]
  /\ F!Deny(k)
  /\ UNCHANGED <<has, subnets, open, known, msgs, called, syncing, late>>

-----------------------------------------------------------------------------
Next ==
  \/ \E o \in Origins : Gossip(o)
  \/ \E k \in Syncs : Sync(k) \/ SyncDeny(k)
  \/ \E l \in Leaves : DeleteSubnet(l[1], l[2]) \/ AddSubnet(l[1], l[2])
  \/ \E m \in msgs : DidReceiveMessage(m)
  \/ \E k \in Keys : WindowEnd(k) \/ WindowDeny(k)

Spec == Init /\ [][Next]_vars

\* The application gossips what it has, and receive goroutines run on.  Windows and
\* calls of Sync may last for ever.
Fairness ==
  /\ \A o \in Origins : WF_vars(Gossip(o))
  /\ WF_vars(\E m \in msgs : DidReceiveMessage(m))

FairSpec == Spec /\ Fairness

-----------------------------------------------------------------------------
\* The Syncs of node k[1] that allow content ID k[2] at present.
Allowing(k) == IF k \in Syncs /\ syncing[k] = "on" THEN 1 ELSE 0

\* A filter expects a content ID once for each window and each call of Sync that has
\* allowed it, and a subnet is remembered only during a window: pushes that overlap,
\* with one another and with Sync, neither shut out an answer that another still
\* waits for nor leave anything behind ("This prevents memory leaking in the filter
\* and in the subnets map", gossip.go).
WindowsExact ==
  \A k \in Keys :
    /\ F!Count(k) = open[k] + closing[k] + Allowing(k)
    /\ F!Filter(k) = (F!Count(k) = 0)
    /\ subnets[k] # NoSubnet => open[k] > 0

\* The subnets in which the application has gossiped a content ID.
GossipedIn(c) == {o.subnet : o \in {p \in called : p.id = c}}

InSubnet(n, s) == s = DefaultSubnet \/ n \in Members[s]

\* Gossip keeps to its subnet: a push carries a subnet in which the application has
\* gossiped the content, to a member of it; and a node has only content that it
\* gossips itself, has synchronised, or that was gossiped in a subnet it is in -
\* however the pushes of several subnets overlap, and whatever is lost or late.
Contained ==
  /\ \A m \in msgs : m.type = "Push" => m.subnet \in GossipedIn(m.id) /\ InSubnet(m.to, m.subnet)
  /\ \A n \in Nodes : \A c \in has[n] :
       \/ \E o \in Origins : o.node = n /\ o.id = c
       \/ <<n, c>> \in Syncs /\ syncing[<<n, c>>] # "idle"
       \/ \E s \in GossipedIn(c) : InSubnet(n, s)

\* The nodes with a resolver that a gossip reaches: they know the node that pushes.
Peers(n, u) ==
  LET S == Closest(n, IF u = DefaultSubnet THEN Table[n] ELSE Members[u], Alpha)
  IN  {m \in S \cap Table[n] \cap Resolvers : n \in Table[m]}
Reached ==
  [o \in Origins |->
    {n \in Nodes : \A S \in SUBSET Nodes :
       o.node \in S /\ (\A q \in S : Peers(q, o.subnet) \subseteq S) => n \in S}]

\* Content that its origin can give out, and that is gossiped in one subnet.
Spreadable(o) ==
  o.node \in Resolvers /\ o.id # EmptyID /\ \A p \in Origins : p.id = o.id => p.subnet = o.subnet

\* "should sync content correctly" (gossip_test.go): content that is gossiped in one
\* subnet comes to every node that a chain of recipients leads to, if no message is
\* lost, unless some node gets it outside its windows ("Gossiping cannot continue").
Spreads ==
  \A o \in Origins : Spreadable(o) => <>(late \/ \A n \in Reached[o] : o.id \in has[n])

\* The safety part of Spreads: once every gossip has been called and every message has
\* been received, the content is where it was to come.
SpreadAtRest ==
  called = Origins /\ msgs = {} /\ ~late =>
    \A o \in Origins : Spreadable(o) => \A n \in Reached[o] : o.id \in has[n]

\* "until the timeout passes, we will be accepting synchronisation messages for this
\* content ID" (gossip.go), so as "to propagate the content later": a window that is
\* open has its subnet.
WindowKeepsSubnet == \A k \in Keys : open[k] > 0 => subnets[k] # NoSubnet

\* Content that is gossiped in several subnets comes to the nodes of each.
SpreadsInEach ==
  \A o \in Origins : <>(late \/ \A n \in Reached[o] : o.id \in has[n])
=============================================================================
