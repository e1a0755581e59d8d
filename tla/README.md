# A TLA+ development of airwave

This directory models the concurrent core of the peer-to-peer library in `src/`, checks
the models with TLC and proves their invariants with TLAPS. `PROJECT.json` maps each
definition to the lines it models and lists the runs, mutants, hazards and theorems.

## The system

A *peer* holds a `Transport`, a routing `Table`, and protocols on top of them.

| part | state | operations | interacts with |
|---|---|---|---|
| `channel.Channel` | attached reader and writer, message being written, drain channels | `Run`, `Attach`, read loop, `read` and `drain` goroutines, write loop | `Client` owns it; codecs encode for it |
| `channel.Client` | reference-counted Channels by remote, receivers, receive goroutine | `Bind`, `Unbind`, `Attach`, `Send`, `Receive` | `Transport` binds, protocols receive |
| `channel.SyncFilter` | counts of allowances by content ID | `Allow`, `Deny`, `Filter` | `Syncer`, `Gossiper` |
| `transport.Transport` | links and connection counts by remote | `Send`, `Link`, `Unlink`, `Run`, `dial` | `Client`, `Table`, `tcp`, `Once` |
| `tcp`, `policy` | slots of `Max`, limiters of `RateLimit` | `Listen`, `Dial`, `All`, `Any` | `Transport` handles what they accept or dial |
| `handshake` | pool of `Once`; two goroutines and the channels between them in `ECIES` | handshake of one connection | both peers |
| `dht.InMemTable` | addresses, sorted signatories, expiries, subnets | add, delete, list, sample, expire | dials, discovery, gossip |
| `dht` resolvers | two cache maps, a size, a next resolver | `InsertContent`, `QueryContent` | `Gossiper` |
| `peer.Syncer` | pending entries by content ID | `Sync`, `DidReceiveMessage` | filter, transport |
| `peer.Gossiper` | subnets by content ID | push, pull and sync handlers | filter, resolver, transport |
| `peer.DiscoveryClient` | none of its own | `DiscoverPeers`, ping and acknowledgement handlers | table, transport |
| `codec`, `wire` | nonce counters of a GCM session | encode, decode, marshal | Channel |

What is hard here: connections replace each other while messages are being written and
read; the last reference to a Channel can go while a handler is about to use it; several
callers share an entry and each cleans it up; both ends of several connections decide
which one to keep; time limits race with late successes; errors strike between two
steps of one operation. `PROJECT.json` lists these hazards at the lines where they bite.

## Modules

| module | models | how |
|---|---|---|
| `Outbox` | what a Channel promises its senders | abstract: a queue; a message is written once, in the order sent, or dropped if it does not marshal |
| `Channel` | `channel/channel.go` | a connection and the `Attach` call that offers it share a name; a position per goroutine; wires are sequences of frames, each of which unmarshals or not, the data of Sync messages included |
| `Client` | `channel/client.go` | each new Channel gets a number; forwarding goroutines, calls of `Receive`, the receive goroutine, which overwrites the list of receivers while it iterates over it (`pos`, `marker`) |
| `Table` | `dht/table.go` | dial goroutines step through `AddExpiry` and `HandleExpired`, which hold one lock while they call functions that take others; samples are the sets that the draws can give |
| `Discovery` | `peer/peerdiscovery.go` | extends `Table`: `DiscoverPeers` and the receive goroutine at one peer, one step per call into the table; remote peers are the environment |
| `SyncFilter`, `Syncer` | `channel/filter.go`, `peer/sync.go` | `Syncer` extends the filter; an entry is named after the call that made it |
| `Gossip` | `peer/gossip.go`, subnets of `dht/table.go` | a network: the handlers of every node, the messages between them, a filter per node |
| `Session` | `handshake/ecies.go`, `handshake/filter.go`, `codec/gcm.go`, `codec/length_prefix.go` | both ends of a connection, from the handshake to the frames of the session; a frame is two writes, of the prefix and of the body |
| `OncePool` | `handshake/once.go` | both ends of every connection between two peers |
| `DoubleCache` | `dht/resolver.go` | one step per operation, which holds the lock throughout |
| `Transport` | `transport/transport.go`, `tcp.Dial`, look-ups of `Client` | one remote; a handler per dial and per accepted connection; the handshake of a dial may hang |
| `Listener` | `tcp.ListenWithListener`, `policy/allow.go` | accept loops that share a `Max`, over any `All` or `Any` of `Max`, `RateLimit` and functions of the application |

A lock section is one step. What the code does outside a lock, around a blocking call,
or in two lock sections is two steps. A panic is a state (`"panic"`, `"panicked"`) in
which no goroutine of that process moves. The `MC*` modules only name instances, and the
`*Proofs` modules hold the theorems.

Composition. `Syncer` extends `SyncFilter`. `Discovery` extends `Table`, so that pings and
answers interleave with the dials that expire peers. `Gossip` uses the operators of
`SyncFilter` on the filter of each node, which windows of gossip and calls of `Sync`
share. `Session` joins the handshake to the codecs that it sets up. `Transport` takes from
`Client` and `Channel` what their modules establish: exact reference counts, and that a
connection handed to a Channel whose loops have stopped is never taken over. `Discovery`
takes from `Transport` when a send fails and when it blocks.

Abstractions. Messages and contents are model values; a message of type Sync is two
frames. Marshalling fails for the messages of a constant set, unmarshalling for the frames of
another; a data frame that unmarshals may read as a Sync message itself (`DataMsgs`,
`DataSyncs`). Decoding fails on faults, closing and the drain deadline. Distances are numbers, which order signatories as the
bytewise comparison of their XOR with the local one does. Ages and time limits pass at
any time. A rate limiter is its number of tokens, refilled at any time.
`Channel`'s limiter is a cause of a read failure and counts no bytes. Encryption is
symbolic: what is encrypted for an end, that end alone decrypts; a frame records the key
and the nonce it was sealed with, its length, and its prefix, which is that length modulo
`PrefixMod` (2^32 in the code). In `Gossip` a handler is one step, since
every other goroutine that touches its state takes a lock once. In `Discovery` a ping, the
remote's handling of it and the answer are one message under way.

## Runs

All bounds are constants in the `.cfg` files. Every passing run is exhaustive for its
instance. Deadlock checking is off where a finite number of calls, messages or
connections lets the system come to rest.

| run | instance | shows |
|---|---|---|
| `channel_out` | 2 connections that fault, are cancelled or turn out to be those of another peer, 3 messages (one Sync, one that does not marshal), `Run` may stop | quit channels close once (`QuitOnce`); `Attach` returns nil only after both loops let go (`ReturnedIsReleased`); retries never garble a wire (`WiresWhole`); the write loop implements `Outbox` (`ImplementsOutbox`) |
| `channel_in` | 2 connections that fault, 3 inbound Sync messages (one that unmarshals, one that does not, one that does not but whose data reads as a Sync message), `Run` may stop | each connection delivers what was sent on it, in order, each Sync message with its data, up to a data frame that is taken for a message (`InboundInOrder`) |
| `channel_live` | a connection that faults or stalls, one that works; a message out, two in, of which one is a Sync message that does not unmarshal; fair | `ReplacedReturns`, `OutboundWritten`; what the remote sends is delivered unless the reader quits (`InboundDelivered`) |
| `client` | 2 users, 2 successive Channels, 3 receivers, 2 packets, fair | `RefCounted`, `NoLeak`, `NothingMissed`, `ForwardedTaken` |
| `discovery` | a line of 3 peers found from one end, the far end being pinged last, 2 dials of the far end, the middle peer deleted by the application, one fault, any round given up, fair | `ClosestPeers`, `ExpiryHasPeer`, `ListedHaveAddress` of the table under all of them; samples have the right size and no peer twice (`SamplesExact`); peers are found (`Learns`) |
| `syncer` | 3 calls for a content ID, one of which may end early, fair | `AllowedExactly`, `PendingOwned`, `AnswerReturns` |
| `gossip` | 5 nodes in a star; 2 gossip the same content in a subnet, one calls `Sync` for it, one leaves the subnet, one gossips an empty ID to all peers; fair | `WindowsExact`, `Contained`, `Spreads` |
| `once` | 3 connections, 2 may break, 2 expiries, fair | `NoOrphan`; `OneSurvives` for calm behaviours |
| `cache` | 3 IDs, 3 contents of which one is too large, capacity 3 | `Bounded`, `Retained`, `ReadsLastCached` |
| `transport` | 2 sends, one of them without time limit and replaceable by an incoming connection, the other with a handshake that may hang, one link or one re-added address, fair | `RefsExact`, `ConnsExact`, `ExpiredOnce`, `Drained` |
| `listener` | 2 loops, one of `Any(RateLimit, Max)` and one of `All(Max, ...)` with a function of the application behind it, 2 slots, 4 connections from 2 addresses | `AtMost`, `SlotsReturned`, `RateHeld`, `MapsBounded` |
| `session` | both ends break at any point; messages of 0 to 3 bytes for a buffer of 2 and a tag of 1, and one of 5 for a prefix of at most 3; fair | `Agreement`, `Proven`, `FramesWhole`, `HandshakeEnds` |

Why the bounds are enough. Replacement needs two connections, and a retry a fault of
the first. Order needs two messages. A stale reference needs a second Channel. In-place
compaction goes wrong only with a receiver before and after the one that leaves. With a second
slot, one that is lost does not stop the loops. A race
for a slot or an expiry needs two loops or dials, a rotation two addresses. A stale sample or list
needs a peer that goes while another stays. A call of `Sync` that deletes the entry of
another needs three: two that share an entry and a third that makes the next. Spreading needs a node between the first and
the last, and overlapping windows two pushes to one node. A frame's edge cases are lengths
around the capacity with and without the tag, and one whose prefix is that of a message that
fits. The run `gossip` has one subnet beside that of all peers, since a second one with
content of its own takes TLC too long; `MCGossip_each.cfg` has two for one content, and
`ContainedHolds` any number. For the safety properties the proofs below
cover any instance; the bounds matter for liveness.

Each property of a passing run has a mutant in `PROJECT.json`: an operator named
`*_Bug`, written just before the definition that it would replace, under which TLC finds
the property violated. The mutants are used by nothing else.

## Fairness

Weak fairness of a goroutine's steps: the Go scheduler runs a goroutine that can run.
Nothing forces callers to call, contexts to end, networks to fault, packets to arrive or
peers to answer, unless said otherwise here.

- `Channel`: the loops, `Attach`, the readers, and the drain deadline of a replaced
  reader. A write on a connection that stalls is not forced to end. `OutboundWritten`
  assumes that a working connection stays attached. `InboundDelivered` lets the reader quit
  when it is replaced, its connection ends or a frame is rejected.
- `Client`: the receive goroutine, its choice among senders (`LoopTake` per Channel,
  `LoopRegister` per receiver), and forwarding goroutines. `ForwardedTaken` assumes a
  receiver that stays registered.
- `Syncer`: calls and waiting goroutines after the pulls, and the signal once a message
  has passed the filter. `AnswerReturns` assumes of a content ID that no call for it ends
  early and that none cleans up an entry other than its own (`Orderly`).
- `Discovery`: the receive goroutine, `DiscoverPeers` and its ticker, and the arrival of
  messages that are not lost; a handler that is ready among others is strongly fair.
  Nothing makes a dial end. A ping that takes too long gives up the rest of its round, any
  number of times. `Learns` assumes that no peer is cut off or expires, that rounds come to
  their end again and again, and that a round pings every peer of the table: without the
  second (`LearnsLate`), or with a smaller `Alpha`, a peer that only far peers know of may
  never be found.
- `Gossip`: the application gossips what it has, and receive goroutines handle what has
  arrived. Windows and calls of `Sync` need not end. `Spreads` assumes that no message is
  lost.
- `Session`: both goroutines of both ends. An end that is silent does nothing.
- `OncePool`: both ends, and the callers that close after a failed handshake.
- `Transport`: goroutines run, expiries pass, and time limits end. The end of a `Send`'s
  time limit is strongly fair, since a dial passes the point where it notices it again and
  again; so is the choice to give up among several ready cases of a `select`, since Go
  chooses at random. Neither is assumed of a `Send` whose context never ends. A handshake
  has no deadline: that of a dial in `Silent` is not forced to end, and `Drained` leaves it
  out while it hangs.

## Proofs

Every safety property and action property of the runs, and the refinement of `Outbox`, is
a theorem. `tlapm` checks them for every value of the constants that satisfies the `ASSUME`s
of the modules: constant sets are contained in each other as their comments say, and zero
values are not members. The sets need not be finite, except for users and remotes in
`Client`, calls in `Syncer`, and sends and accepted connections in `Transport`, whose
subsets are counted; elsewhere what is counted is shown to be finite. `Session` has two
ends.

`ChannelProofs`
: `QuitOnceHolds`, `ReturnedIsReleasedHolds`, `OutboxRefinement`, `WiresWholeHolds` and
  `InboundInOrderHolds`. None of the properties is inductive. `IInv` adds `MsgInv` (a
  message that the write loop holds marshals, and in the middle of a write there are a
  writer and a message) and, for each connection, `ReaderInv` and `WriterInv`: how the
  position of the `Attach` call, the buffers, the loops and the number of times its quit
  channels were closed hang together. The refinement maps the queue to the message held, if
  any, followed by the outbound buffer: only the last frame of a message moves it from the
  queue to the output. `WireInv` says that a wire
  whose last message lacks its data is being written to or never will be again, and `MsgsInv`
  that a message completed on some wire is not to be written again. For the inbound side
  they say how what was delivered, what the reader holds and what is left on the wire make up
  what the remote sent, until the data of a Sync message that did not unmarshal is taken for
  a message (`lost`); from there on what was right before stays as it is.

`ClientProofs`
: `RefCountedHolds`, `NoLeakHolds`, `NothingMissedHolds`. `IInv` adds that numbers not used
  yet belong to no Channel (`FreshInv`) and that packets under way come from a Channel of
  some remote (`CurInv`). The references of a remote form a finite set: binding adds one to
  its size, and unbinding takes one away. For the receivers, `MarkInv` says that the place
  that is written to is never ahead of the place that is read, so nobody is overwritten
  before being called. `CallInv` describes the list in the middle of its compaction: of those
  in front of `marker` and those not yet reached, the former were called with the packet, on
  top of all that the latter were called with, and in either part each receiver was called
  with all that those behind it were. The lemmas `Compacted`, `Slices`, `Kept` and `Calls` say
  what a write to the list and the final cut do to the two parts.

`DhtProofs`
: Of the cache, `RetainedHolds`, `ReadsLastCachedHolds` and `BoundedHolds`. `CacheInv` says
  where the content inserted last is (`Located`): in the front; or in the back, since when
  at least as many bytes were offered as the front has by its own count; or nowhere, since
  when more than `Capacity` were. The middle case makes it inductive: a rotation happens
  when the front's count would exceed `Capacity`, so what it drops was offered longer ago
  than that. The bytes in a map are a finite set no larger than that count (`SizeInv`).
: Of the table, under discovery, dials and the application, `ExpiryHasPeerHolds`,
  `ListedHaveAddressHolds`, `ClosestPeersHolds` and `SamplesExactHolds`. `ExpiryInv` adds
  that a dial between two steps of `AddExpiry` or `HandleExpired` holds the lock (`Locked`),
  and that what `AddExpiry` has looked up is still so when it sets the expiry (`LookedUp`).
  `ListInv` has the sorted list in strict order and, until an absent peer is deleted,
  complete; insertion and removal are shown to keep the order at the place that the binary
  search finds. Floyd's algorithm is shown to draw one more peer in each round.

`GossipProofs`
: `WindowsExactHolds`, `ContainedHolds`, and `SpreadAtRestHolds`, the safety part of
  `Spreads`. `WindowInv` counts windows and calls of `Sync` per node and content ID.
  `SubnetInv` says that whatever a node remembers of a push it remembers of content that was
  gossiped in a subnet it is in. `HandedOn` says that between a node that has content and
  one that it pushes to, the next message of their exchange is always under way until both
  have the content. It is inductive since an answer that finds its window closed is the
  only one not taken, and makes the gossip late.

`ListenerProofs`
: `AtMostHolds`; `SlotsReturnedHolds`, for any combination of policies, and from it
  `FilteredReturnedHolds`, that no slot is lost where no `All` calls a policy after `Max`
  (otherwise slots are lost, see below); `RateHeldHolds`; and `MapsBoundedHolds`, for a `Cap`
  of at least 2 (with less, the front map is never found full once it has an entry). `LoopInv`
  ties loops to the connections they check, each its own; `MaxInv` ties the counter of `Max`
  to the clean-ups still to be called; `SlotInv` says that a loop that has taken a slot will
  not reject its connection unless it is one of those (`Leaky`), which then has leaked it. `RateInv` follows an address over a rotation: tokens and passes of
  a limiter come from its burst and from time, and those in the front are among those newer
  than one in the back.

`SessionProofs`
: `ProvenHolds`, `FramesWholeHolds` and `AgreementHolds`, the latter two for two different
  signatories, and `NoDeadlockHolds`, the safety part of `HandshakeEnds`, where neither end
  is silent. `IInv` relates the two ends through the streams between them: what a writer has
  written and the other reader has not read is the head of the stream (`Streamed`); reader
  and writer of an end are no further apart than their channels allow (`InStep`); nonces are
  set once (`Sealed`). `FrameInv` continues this to the frames behind the handshake, of which
  the last may lack its body. A prefix that has wrapped around belongs to a body longer than
  the buffer, since `BufferCap < PrefixMod` is assumed, so it is refused (`Prefixes`). For the
  absence of deadlock, an end whose goroutines both wait is shown to wait for the other's
  next write (`WaitsForPeer`); two such ends would each have to be behind the other.

`SyncerProofs`
: `AllowedExactlyHolds`, `PendingOwnedHolds`, and `AwakensInOrder`, the safety part of
  `AnswerReturns`. The first two are inductive once types are added, of which one matters:
  an entry of the filter is a positive number, so that a content ID is let through exactly
  while it is counted. `Allow` adds a call to the finite set that is counted, and `Deny`
  takes one away, so there is an entry to count down whenever `Deny` is called. A clean-up
  takes the entry of its content ID whoever made it, which is why none is left when the
  last call is through. `AwakensInOrder` shows that, while the calls of a content ID are
  `Orderly`, the entry that a call waits on is the one in the map (`InReach`), so a signal
  reaches them all.

`TransportProofs`
: `RefsExactHolds`, `ConnsExactHolds`, `ExpiredOnceHolds`, and `NoneLeftHolds`, the safety
  part of `Drained`. `IInv` adds `Owned`: a handler holds a reference only while it runs, and
  no handler runs yet under the name of a `Send` that has still to start its dial. Steps are
  grouped by what they move (a running handler, a start, a release, `Link` and `Unlink`), and
  each group has a lemma about the size of the sets that `rc` and `conns` count. An address
  in the table, or an expiry, is one more closing of an `exit` channel to come (`ExpiryInv`).
: Of the pool of `Once`, `NoOrphanHolds` and `SettlesOnOneHolds`, the safety part of
  `OneSurvives`. `PoolInv` extends `NoOrphan` to handshakes of the greater peer that are
  still running (`Pooled`): a connection that was inserted is still in the pool, or another
  handshake is about to close it, or it is closed. If nothing breaks or expires, the first
  connection in the pool stays and the others are refused (`Calmly`).

Only model-checked: the liveness properties `ReplacedReturns`, `OutboundWritten`,
`InboundDelivered`, `ForwardedTaken`, `Learns`, `AnswerReturns`, `Spreads`, `OneSurvives`,
`Drained` and `HandshakeEnds`, as liveness under fairness and `ENABLED` are out of the
prover's reach. For the last five the theorems named above show, for any instance, that the
system cannot come to rest, or take the step in question, with the promise unkept; what
TLC adds is that it gets there. `NoDeadlock`, `SpreadAtRest`, `NoneLeft` and `SettlesOnOne`
also hold on the instances of the runs, as TLC finds, and so do those inductive invariants
of `Channel`, `Client`, `Gossip`, `Listener`, `Session` (`CauseInv`) and `Syncer` that it can
evaluate; others quantify over all numbers or compare values of different kinds. The liveness
properties of the pool and of `Transport`, `Channel` and `Client` hold on larger instances
too (four connections to the pool, two turns of a peer, a second outbound message, a third
packet), which take longer than the runs. The prover cannot apply the library's induction theorems, which take a predicate as
a parameter. Where a proof needs induction (the binary search and the samples of `Table`), it uses
that a non-empty set of natural numbers has a least member (`LeastNatural`), which is
itself proved from the well-foundedness of finite sets. What a node of `Gossip` is to reach
is therefore defined by closed sets and not by rounds.

## Where code and comments disagree

Properties that a comment, a test, an assertion or a caller would lead one to expect and the code
does not have are stated in the modules too. TLC reports each of them violated: with the
configuration named, or, where the name is that of a run, with the configuration of that
run and this property in place of its own.

| configuration or run | property | where | what the code does |
|---|---|---|---|
| `channel_out` | `HalvesAgree` | `channel.go:151` | two overlapping `Attach` calls can leave the Channel reading one connection and writing the other |
| `MCChannel_fault.cfg` | `FaultReturns` | `channel.go:154` | when a connection faults and nothing is written, `Attach` keeps waiting for the writer |
| `MCChannel_stop.cfg` | `StopReturns` | `channel.go:154` | `Attach` hangs if the Channel stops between the offer of a connection and its take-over |
| `MCChannel_stall.cfg` | `AttachedWrites` | `channel.go:151` | a write that blocks keeps the write loop from taking a new connection |
| `MCChannel_mixed.cfg` | `DataIsNoMessage` | `channel.go:271` | a Sync message that does not unmarshal is skipped, but its data is decoded as a message |
| `client` | `NothingLost` | `client_test.go:63` | a packet taken before the first receiver is registered is dropped |
| `client` | `KillEarned` | `client.go:210` | an error about a packet of an old Channel cancels the new Channel of that remote |
| `MCSyncFilter.cfg` | `DeniedByDefault` | `filter.go:52` | `Deny` without `Allow` makes an entry, which allows the content |
| `syncer` | `AllAwaken` | `sync.go:44` | a call that ends, early or not, deletes the entry that others wait on or that a later call has made, and they miss the answer |
| `gossip` | `WindowKeepsSubnet` | `gossip.go:130` | the end of a first window deletes the subnet of a second one that is open |
| `MCGossip_each.cfg` | `SpreadsInEach` | `gossip.go:123` | content gossiped in two subnets goes on in the one pushed last |
| `discovery` | `PeersAreClosest` | `table.go:36` | deleting an absent peer removes another from the sorted list |
| `discovery` | `SamplesReachAll` | `table.go:39` | the last peer of the list is never drawn by Floyd's algorithm (`table.go:219`) |
| `discovery` | `ListedInTable` | `peerdiscovery.go:108` | a peer may expire between its listing and the look-up of its address |
| `discovery` | `ReceiverReturns` | `peerdiscovery.go:90` | the answer to a peer that has gone blocks the receive goroutine, as it has no time limit |
| `discovery` | `LearnsLate` | `peerdiscovery_test.go:97` | if every round is given up before its end, a peer that only a far one knows is never found |
| `MCDiscovery_nonce.cfg` | `NewerKept` | `wire/addr.go:80` | an address is replaced by one with a lower nonce |
| `once` | `RecoversOwn` | `once.go:110` | a failed keep-alive deletes whatever entry the pool has by then; with none, `Close` of nil panics |
| `MCSession_silent.cfg` | `HandshakeEnds` | `ecies.go:103` | an end that connects and says nothing keeps the handshake, which has no deadline |
| `MCSession_self.cfg` | `Agreement` | `gcm.go:73` | two ends with the same signatory choose the same nonces |
| `session` | `FittingAccepted` | `gcm.go:105` | a message that fits the buffer is refused if its tag does not fit as well |
| `session` | `NoncesAdvance` | `gcm.go:22` | the methods that advance a nonce change a copy |
| `cache` | `ReadsLast` | `resolver.go:13` | content too large for the cache leaves an older one of the same ID in it |
| `transport` | `Up` | `transport.go:385` | a dial closes its `exit` channel a second time, and panics, when the peer expires, is added again and expires again |
| `MCTransport_silent.cfg` | `DialEnds` | `transport.go:364` | the handshake of a dial has no deadline, so the time limit of the dial does not end it |
| `MCTransport_unlink.cfg` | `UnlinkReturns` | `transport.go:267` | a connection handed to a Channel that is unlinked first is never let go |
| `MCTransport_stuck.cfg` | `SendReturns` | `transport.go:367` | a `Send` without time limit waits for ever for a Channel that has gone |
| `listener` | `OpenAtMost` | `allow.go:131` | the slot is given back before the connection is closed |
| `MCListener_filtered.cfg` | `FilteredReturned` | `allow.go:24` | with `All(Max, RateLimit)` the slot of a filtered connection is lost, as the accept loop drops its clean-up (`tcp.go:87`) |

`SyncFilter` is run as such for `MCSyncFilter.cfg`; the other configurations use the module
before the underscore.

## Not modelled

- `peer.Peer` delegates to the parts above and has no state of its own. That its `Syncer`
  and `Gossiper` share a filter is in `Gossip`.
- `handshake.Insecure`: writes one signatory and reads another, without goroutines, state
  or checks.
- `policy/timeout.go`: floating-point arithmetic on durations, out of TLC's reach. The time
  limits that it yields pass at any time in `Transport`.
- `wire`: marshalling, signing and printing of messages and addresses, without state. Its
  failures are inputs of `Channel` and `Discovery`.
- Encryption byte by byte, and the padding of keys in the handshake.
- The bytes that `Channel`'s limiter counts: data of a Sync message is not charged to it
  (`channel.go:284`).
- `CallbackContentResolver`, `Client.IsBound`, `FilterFunc` and `ListenerWithAssignedPort`
  change no state. `IsBound` fails for a remote that is not bound.
- Options, loggers, test helpers, examples: no behaviour of their own.

## What could follow

1. Abstract specifications for `Client` (one live Channel per remote with a reference) and
   for `Transport` over it, with the refinement checked and then proved.
2. Safety parts of the liveness properties of `Channel`, `Client` and `Discovery`, as for the
   other modules.
3. Content gossiped in several subnets at once on a network small enough for TLC.
