------------------------------ MODULE Channel ------------------------------
(***************************************************************************)
(* channel.Channel: the abstract connection to one remote peer.  A read    *)
(* loop and a write loop (two goroutines) take over the network            *)
(* connections that concurrent calls of Attach offer them; every reader    *)
(* runs in a goroutine of its own and keeps draining after it has been     *)
(* replaced.  A connection and the Attach call that offers it are named by *)
(* the same element of Conns.                                              *)
(*                                                                         *)
(* A message is an element of OutMsgs or InMsgs.  On the wire it is one    *)
(* frame, or two when it is of type Sync: the message, then its data.      *)
(***************************************************************************)
EXTENDS Naturals, Sequences

CONSTANTS
  Conns,          \* network connections (one Attach call each)
  OutMsgs,        \* messages that local goroutines send, each once
  InMsgs,         \* messages that the remote peer sends, each once
  SyncMsgs,       \* the messages of type wire.MsgTypeSync
  Unmarshalable,  \* outbound messages that Marshal refuses
  Malformed,      \* inbound messages that Unmarshal refuses
  DataMsgs,       \* inbound Sync messages whose data Unmarshal takes for a message
  DataSyncs,      \* those whose data it takes for a message of type Sync
  Strangers,      \* connections whose handshake may give another remote
  Healthy,        \* connections that never fault and never stall
  Stallable,      \* connections whose writes may block for ever
  Cancellable,    \* connections whose Attach context may be done
  CanStop,        \* whether the context given to Run may be done
  NoConn, NoMsg   \* the zero values of a reader/writer and of a message

ASSUME ChannelConstants ==
  /\ NoConn \notin Conns /\ NoMsg \notin OutMsgs \cup InMsgs
  /\ OutMsgs \cap InMsgs = {}  \* each message has a name of its own
  /\ SyncMsgs \subseteq OutMsgs \cup InMsgs
  /\ Unmarshalable \subseteq OutMsgs /\ Malformed \subseteq InMsgs
  /\ DataMsgs \subseteq InMsgs \cap SyncMsgs /\ DataSyncs \subseteq DataMsgs
  /\ Strangers \subseteq Conns /\ Healthy \subseteq Conns
  /\ Stallable \subseteq Conns \ Healthy /\ Cancellable \subseteq Conns
  /\ CanStop \in BOOLEAN

VARIABLES
  ctxDone,    \* the context given to Run is done
  readers,    \* the buffer (of one) of ch.readers
  writers,    \* the buffer (of one) of ch.writers
  attach,     \* where each Attach call is
  rloop,      \* where readLoop is
  cur,        \* the reader that holds readLoop's drain channel
  read,       \* where the read goroutine of each connection is
  got,        \* the packet that goroutine is about to deliver
  draining,   \* readers whose drain channel was written or closed
  wloop,      \* where writeLoop is
  w,          \* writeLoop's writer
  m,          \* writeLoop's message (NoMsg: mOk is false)
  rq, wq,     \* how often the quit channels were closed
  conn,       \* the state of each network connection
  inwire,     \* frames from the remote that have not been decoded
  outwire,    \* frames that were flushed to the remote
  outbound,   \* messages waiting in (or to enter) the outbound channel
  sent,       \* the messages either end ever sent (history)
  written,    \* the messages written in full, in order (history)
  rsent,      \* those the remote sent on each connection that unmarshal, up to
              \* the message on which the connection is lost (history)
  lost,       \* the malformed Sync message, sent on each connection, whose data is
              \* taken for a message (history; NoMsg: none)
  delivered   \* the packets put on inbound, per connection (history)

attachVars == <<readers, writers, attach>>
readVars   == <<rloop, cur, read, got, draining, rq, delivered>>
writeVars  == <<wloop, w, m, wq, outbound, written, outwire>>
netVars    == <<conn, inwire, rsent, lost>>
vars == <<ctxDone, attachVars, readVars, writeVars, netVars, sent>>

AttachPC == {"idle", "reader", "writer", "rq", "wq", "done", "err"}
ReadPC   == {"none", "decode", "data", "deliver", "quit"}
Frames(msgs) == {"msg", "data"} \X msgs
Packets  == (Frames(InMsgs) \cup {NoMsg}) \X (Frames(InMsgs) \cup {NoMsg})

\* The frames a message takes on the wire.
FramesOf(msg) == IF msg \in SyncMsgs THEN <<<<"msg", msg>>, <<"data", msg>>>>
                                     ELSE <<<<"msg", msg>>>>

\* Whether Unmarshal takes a frame for a message, and for one of type Sync.  It
\* meets a data frame when the message before it did not unmarshal.
Unmarshals(f) == IF f[1] = "msg" THEN f[2] \notin Malformed ELSE f[2] \in DataMsgs
IsSync(f)     == IF f[1] = "msg" THEN f[2] \in SyncMsgs ELSE f[2] \in DataSyncs

Init ==
  /\ ctxDone = FALSE /\ readers = NoConn /\ writers = NoConn
  /\ attach = [c \in Conns |-> "idle"]
  /\ rloop = "new" /\ cur = NoConn /\ draining = {}
  /\ read = [c \in Conns |-> "none"] /\ got = [c \in Conns |-> <<NoMsg, NoMsg>>]
  /\ wloop = "new" /\ w = NoConn /\ m = NoMsg
  /\ rq = [c \in Conns |-> 0] /\ wq = [c \in Conns |-> 0]
  /\ conn = [c \in Conns |-> "open"]
  /\ inwire = [c \in Conns |-> <<>>] /\ outwire = [c \in Conns |-> <<>>]
  /\ outbound = <<>> /\ sent = {} /\ written = <<>>
  /\ rsent = [c \in Conns |-> <<>>] /\ delivered = [c \in Conns |-> <<>>]
  /\ lost = [c \in Conns |-> NoMsg]

-----------------------------------------------------------------------------
(* Run and its context.                                                    *)

Run ==
  /\ rloop = "new"
  /\ rloop' = "select" /\ wloop' = "select"
  /\ UNCHANGED <<ctxDone, attachVars, cur, read, got, draining, rq, delivered,
                 w, m, wq, outbound, written, outwire, netVars, sent>>

Stop ==
  /\ CanStop /\ rloop # "new" /\ ~ctxDone
  /\ ctxDone' = TRUE
  /\ UNCHANGED <<attachVars, readVars, writeVars, netVars, sent>>

-----------------------------------------------------------------------------
(* Attach.                                                                 *)

\* The handshake may have given another remote, which Attach refuses.
AttachStart(c) ==
  /\ attach[c] = "idle"
  /\ \/ attach' = [attach EXCEPT ![c] = "reader"]
     \/ c \in Strangers /\ attach' = [attach EXCEPT ![c] = "err"]
  /\ UNCHANGED <<ctxDone, readers, writers, readVars, writeVars, netVars, sent>>

AttachReader(c) ==
  /\ attach[c] = "reader" /\ readers = NoConn
  /\ readers' = c /\ attach' = [attach EXCEPT ![c] = "writer"]
  /\ UNCHANGED <<ctxDone, writers, readVars, writeVars, netVars, sent>>

AttachWriter(c) ==
  /\ attach[c] = "writer" /\ writers = NoConn
  /\ writers' = c /\ attach' = [attach EXCEPT ![c] = "rq"]
  /\ UNCHANGED <<ctxDone, readers, readVars, writeVars, netVars, sent>>

\* Bug: returns without waiting for the writer to be closed.
AttachWaitReader_Bug(c) ==
  /\ attach[c] = "rq" /\ rq[c] > 0
  /\ attach' = [attach EXCEPT ![c] = "done"]
  /\ UNCHANGED <<ctxDone, readers, writers, readVars, writeVars, netVars, sent>>

AttachWaitReader(c) ==
  /\ attach[c] = "rq" /\ rq[c] > 0
  /\ attach' = [attach EXCEPT ![c] = "wq"]
  /\ UNCHANGED <<ctxDone, readers, writers, readVars, writeVars, netVars, sent>>

AttachWaitWriter(c) ==
  /\ attach[c] = "wq" /\ wq[c] > 0
  /\ attach' = [attach EXCEPT ![c] = "done"]
  /\ UNCHANGED <<ctxDone, readers, writers, readVars, writeVars, netVars, sent>>

\* The caller's context is done: any of the four selects may take that branch.
AttachCancel(c) ==
  /\ c \in Cancellable /\ attach[c] \in {"reader", "writer", "rq", "wq"}
  /\ attach' = [attach EXCEPT ![c] = "err"]
  /\ UNCHANGED <<ctxDone, readers, writers, readVars, writeVars, netVars, sent>>

\* tcp.Listen and tcp.Dial close the connection when its handler returns.
\* What was received but not yet decoded may be lost.
CloseConn(c) ==
  /\ attach[c] \in {"done", "err"} /\ conn[c] # "closed"
  /\ conn' = [conn EXCEPT ![c] = "closed"]
  /\ \E k \in 0..Len(inwire[c]) :
       inwire' = [inwire EXCEPT ![c] = SubSeq(@, 1, k)]
  /\ UNCHANGED <<ctxDone, attachVars, readVars, writeVars, rsent, lost, sent>>

-----------------------------------------------------------------------------
(* readLoop and the read goroutines.                                       *)

\* Bug: the replaced reader is not told to drain.
ReadLoopReplace_Bug ==
  /\ rloop = "select" /\ readers # NoConn
  /\ cur' = readers /\ read' = [read EXCEPT ![readers] = "decode"]
  /\ readers' = NoConn
  /\ UNCHANGED <<ctxDone, writers, attach, rloop, got, draining, rq, delivered,
                 writeVars, netVars, sent>>

\* The drain channel of the previous reader is written; its drain goroutine
\* sets the read deadline, after which the Decoder fails.
ReadLoopReplace ==
  /\ rloop = "select" /\ readers # NoConn
  /\ draining' = draining \cup ({cur} \ {NoConn})
  /\ cur' = readers /\ read' = [read EXCEPT ![readers] = "decode"]
  /\ readers' = NoConn
  /\ UNCHANGED <<ctxDone, writers, attach, rloop, got, rq, delivered,
                 writeVars, netVars, sent>>

ReadLoopExit ==
  /\ rloop = "select" /\ ctxDone
  /\ draining' = draining \cup ({cur} \ {NoConn})
  /\ rloop' = "exit"
  /\ UNCHANGED <<ctxDone, attachVars, cur, read, got, rq, delivered,
                 writeVars, netVars, sent>>

\* The read goroutine closes its quit channel and returns.
CloseReader(c) ==
  /\ read' = [read EXCEPT ![c] = "quit"] /\ rq' = [rq EXCEPT ![c] = @ + 1]

\* Bug: data is awaited after every message, whatever its type.
Decode_Bug(c) ==
  /\ read[c] = "decode" /\ inwire[c] # <<>>
  /\ LET f == Head(inwire[c]) IN
       IF ~Unmarshals(f)
       THEN UNCHANGED <<read, got>>
       ELSE /\ got' = [got EXCEPT ![c] = <<f, NoMsg>>]
            /\ read' = [read EXCEPT ![c] = "data"]
  /\ inwire' = [inwire EXCEPT ![c] = Tail(@)]
  /\ UNCHANGED <<ctxDone, attachVars, rloop, cur, draining, rq, delivered,
                 writeVars, conn, rsent, lost, sent>>

\* A frame is decoded within the rate limit.  One that does not unmarshal is
\* skipped, and nothing else with it: when it was a Sync message, its data is the
\* next frame to be taken for a message.  A Sync message is delivered only after
\* its data was decoded.
Decode(c) ==
  /\ read[c] = "decode" /\ inwire[c] # <<>>
  /\ LET f == Head(inwire[c]) IN
       IF ~Unmarshals(f)
       THEN UNCHANGED <<read, got>>
       ELSE /\ got' = [got EXCEPT ![c] = <<f, NoMsg>>]
            /\ read' = [read EXCEPT ![c] = IF IsSync(f) THEN "data" ELSE "deliver"]
  /\ inwire' = [inwire EXCEPT ![c] = Tail(@)]
  /\ UNCHANGED <<ctxDone, attachVars, rloop, cur, draining, rq, delivered,
                 writeVars, conn, rsent, lost, sent>>

\* Bug: the message is delivered although its data is still on the wire.
DecodeData_Bug(c) ==
  /\ read[c] = "data" /\ inwire[c] # <<>>
  /\ read' = [read EXCEPT ![c] = "deliver"]
  /\ UNCHANGED <<ctxDone, attachVars, rloop, cur, got, draining, rq, delivered,
                 inwire, writeVars, conn, rsent, lost, sent>>

DecodeData(c) ==
  /\ read[c] = "data" /\ inwire[c] # <<>>
  /\ got' = [got EXCEPT ![c] = <<@[1], Head(inwire[c])>>]
  /\ read' = [read EXCEPT ![c] = "deliver"]
  /\ inwire' = [inwire EXCEPT ![c] = Tail(@)]
  /\ UNCHANGED <<ctxDone, attachVars, rloop, cur, draining, rq, delivered,
                 writeVars, conn, rsent, lost, sent>>

\* The Decoder rejects a frame, or the frame exceeds the rate limit.
Reject(c) ==
  /\ read[c] \in {"decode", "data"} /\ inwire[c] # <<>>
  /\ CloseReader(c)
  /\ inwire' = [inwire EXCEPT ![c] = Tail(@)]
  /\ UNCHANGED <<ctxDone, attachVars, rloop, cur, got, draining, delivered,
                 writeVars, conn, rsent, lost, sent>>

\* The Decoder fails: end of file, closed connection, or drain deadline.
ReadFail(c) ==
  /\ read[c] \in {"decode", "data"}
  /\ c \in draining \/ (conn[c] \in {"broken", "closed"} /\ inwire[c] = <<>>)
  /\ CloseReader(c)
  /\ UNCHANGED <<ctxDone, attachVars, rloop, cur, got, draining, delivered,
                 writeVars, netVars, sent>>

Deliver(c) ==
  /\ read[c] = "deliver"
  /\ delivered' = [delivered EXCEPT ![c] = Append(@, got[c])]
  /\ got' = [got EXCEPT ![c] = <<NoMsg, NoMsg>>]
  /\ read' = [read EXCEPT ![c] = "decode"]
  /\ UNCHANGED <<ctxDone, attachVars, rloop, cur, draining, rq,
                 writeVars, netVars, sent>>

DeliverAbort(c) ==
  /\ read[c] = "deliver" /\ ctxDone
  /\ CloseReader(c)
  /\ UNCHANGED <<ctxDone, attachVars, rloop, cur, got, draining, delivered,
                 writeVars, netVars, sent>>

-----------------------------------------------------------------------------
(* writeLoop.                                                              *)

\* writeLoop closes the quit channel of the writer it has, if any.
CloseWriter == wq' = IF w = NoConn THEN wq ELSE [wq EXCEPT ![w] = @ + 1]

WriteLoopReplace ==
  /\ wloop = "select" /\ writers # NoConn
  /\ CloseWriter
  /\ w' = writers /\ writers' = NoConn
  /\ UNCHANGED <<ctxDone, readers, attach, readVars, wloop, m, outbound, written,
                 outwire, netVars, sent>>

WriteLoopExit ==
  /\ wloop = "select" /\ ctxDone
  /\ CloseWriter
  /\ wloop' = "exit" /\ w' = NoConn
  /\ UNCHANGED <<ctxDone, attachVars, readVars, m, outbound, written, outwire,
                 netVars, sent>>

\* Takes the message that is to be retried or else the next one of outbound,
\* and marshals it; a message that does not marshal is dropped.
TakeMsg ==
  /\ wloop = "select" /\ w # NoConn
  /\ m # NoMsg \/ outbound # <<>>
  /\ LET msg == IF m # NoMsg THEN m ELSE Head(outbound) IN
       /\ m' = IF msg \in Unmarshalable THEN NoMsg ELSE msg
       /\ wloop' = IF msg \in Unmarshalable THEN "select" ELSE "msg"
  /\ outbound' = IF m # NoMsg THEN outbound ELSE Tail(outbound)
  /\ UNCHANGED <<ctxDone, attachVars, readVars, w, wq, written, outwire, netVars,
                 sent>>

\* Bug: the message is cleared before its data is written.
WriteFrame_Bug ==
  /\ wloop \in {"msg", "data"} /\ conn[w] \in {"open", "broken"}
  /\ outwire' = IF conn[w] = "open"
                THEN [outwire EXCEPT ![w] = Append(@, <<wloop, m>>)] ELSE outwire
  /\ IF wloop = "msg"
     THEN /\ wloop' = IF m \in SyncMsgs THEN "data" ELSE "select"
          /\ m' = NoMsg /\ written' = Append(written, m)
     ELSE wloop' = "select" /\ UNCHANGED <<m, written>>
  /\ UNCHANGED <<ctxDone, attachVars, readVars, w, wq, outbound, netVars, sent>>

\* A frame is encoded and flushed.  On a connection that broke unnoticed it is
\* accepted by the operating system and lost.
WriteFrame ==
  /\ wloop \in {"msg", "data"} /\ conn[w] \in {"open", "broken"}
  /\ outwire' = IF conn[w] = "open"
                THEN [outwire EXCEPT ![w] = Append(@, <<wloop, m>>)] ELSE outwire
  /\ IF wloop = "msg" /\ m \in SyncMsgs
     THEN wloop' = "data" /\ UNCHANGED <<m, written>>
     ELSE wloop' = "select" /\ m' = NoMsg /\ written' = Append(written, m)
  /\ UNCHANGED <<ctxDone, attachVars, readVars, w, wq, outbound, netVars, sent>>

\* Bug: the message is forgotten together with the writer.
WriteFail_Bug ==
  /\ wloop \in {"msg", "data"} /\ conn[w] \in {"broken", "closed"}
  /\ CloseWriter
  /\ w' = NoConn /\ m' = NoMsg /\ wloop' = "select"
  /\ UNCHANGED <<ctxDone, attachVars, readVars, outbound, written, outwire,
                 netVars, sent>>

\* Bug: the writer is kept after its quit channel was closed.
WriteFailKeepsWriter_Bug ==
  /\ wloop \in {"msg", "data"} /\ conn[w] \in {"broken", "closed"}
  /\ CloseWriter
  /\ wloop' = "select"
  /\ UNCHANGED <<ctxDone, attachVars, readVars, w, m, outbound, written, outwire,
                 netVars, sent>>

\* Encoding or flushing a frame fails: the writer is cleared and the message is
\* kept for the next one.
WriteFail ==
  /\ wloop \in {"msg", "data"} /\ conn[w] \in {"broken", "closed"}
  /\ CloseWriter
  /\ w' = NoConn /\ wloop' = "select"
  /\ UNCHANGED <<ctxDone, attachVars, readVars, m, outbound, written, outwire,
                 netVars, sent>>

-----------------------------------------------------------------------------
(* The goroutines that send, the remote peer and the network.              *)

Send(msg) ==
  /\ msg \notin sent
  /\ sent' = sent \cup {msg} /\ outbound' = Append(outbound, msg)
  /\ UNCHANGED <<ctxDone, attachVars, readVars, wloop, w, m, wq, written, outwire,
                 netVars>>

RemoteSend(c, msg) ==
  /\ conn[c] \in {"open", "stalled"} /\ msg \notin sent
  /\ sent' = sent \cup {msg}
  /\ lost' = IF msg \in Malformed \cap DataMsgs /\ lost[c] = NoMsg
             THEN [lost EXCEPT ![c] = msg] ELSE lost
  /\ rsent' = IF msg \in Malformed \/ lost[c] # NoMsg THEN rsent
              ELSE [rsent EXCEPT ![c] = Append(@, msg)]
  /\ inwire' = [inwire EXCEPT ![c] = @ \o FramesOf(msg)]
  /\ UNCHANGED <<ctxDone, attachVars, readVars, writeVars, conn>>

\* The connection breaks; frames that were in flight may be lost.
Fault(c) ==
  /\ c \notin Healthy /\ conn[c] \in {"open", "stalled"}
  /\ conn' = [conn EXCEPT ![c] = "broken"]
  /\ \E k \in 0..Len(inwire[c]) :
       inwire' = [inwire EXCEPT ![c] = SubSeq(@, 1, k)]
  /\ UNCHANGED <<ctxDone, attachVars, readVars, writeVars, rsent, lost, sent>>

\* The remote stops reading: writes block, and no write deadline ends them.
Stall(c) ==
  /\ c \in Stallable /\ conn[c] = "open"
  /\ conn' = [conn EXCEPT ![c] = "stalled"]
  /\ UNCHANGED <<ctxDone, attachVars, readVars, writeVars, inwire, rsent, lost, sent>>

-----------------------------------------------------------------------------

AttachStep(c) == \/ AttachStart(c) \/ AttachReader(c) \/ AttachWriter(c)
                 \/ AttachWaitReader(c) \/ AttachWaitWriter(c) \/ AttachCancel(c)
                 \/ CloseConn(c)
ReadStep(c)   == \/ Decode(c) \/ DecodeData(c) \/ Reject(c) \/ ReadFail(c)
                 \/ Deliver(c) \/ DeliverAbort(c)
ReadLoopStep  == ReadLoopReplace \/ ReadLoopExit
WriteLoopStep == WriteLoopReplace \/ WriteLoopExit \/ TakeMsg \/ WriteFrame \/ WriteFail
NetStep(c)    == Fault(c) \/ Stall(c) \/ \E msg \in InMsgs : RemoteSend(c, msg)

Next ==
  \/ Run \/ Stop \/ ReadLoopStep \/ WriteLoopStep
  \/ \E c \in Conns : AttachStep(c) \/ ReadStep(c) \/ NetStep(c)
  \/ \E msg \in OutMsgs : Send(msg)

Spec == Init /\ [][Next]_vars

\* Goroutines that can run do run, a consumer keeps receiving from inbound, and
\* deadlines pass.  Attach calls, faults, contexts and messages are not forced.
Fairness ==
  /\ WF_vars(Run) /\ WF_vars(ReadLoopReplace) /\ WF_vars(ReadLoopExit)
  /\ WF_vars(WriteLoopReplace) /\ WF_vars(WriteLoopExit)
  /\ WF_vars(TakeMsg) /\ WF_vars(WriteFrame \/ WriteFail)
  /\ \A c \in Conns :
       /\ WF_vars(AttachReader(c)) /\ WF_vars(AttachWriter(c))
       /\ WF_vars(AttachWaitReader(c)) /\ WF_vars(AttachWaitWriter(c))
       /\ WF_vars(CloseConn(c))
       /\ WF_vars(Decode(c) \/ DecodeData(c)) /\ WF_vars(ReadFail(c))
       /\ WF_vars(Deliver(c))

FairSpec == Spec /\ Fairness

-----------------------------------------------------------------------------
(* Properties.                                                             *)

\* Types of the variables of Channel, its two loops and its Attach calls.
TypeOK ==
  /\ ctxDone \in BOOLEAN
  /\ readers \in Conns \cup {NoConn} /\ writers \in Conns \cup {NoConn}
  /\ attach \in [Conns -> AttachPC]
  /\ rloop \in {"new", "select", "exit"} /\ cur \in Conns \cup {NoConn}
  /\ read \in [Conns -> ReadPC] /\ got \in [Conns -> Packets]
  /\ draining \subseteq Conns
  /\ wloop \in {"new", "select", "msg", "data", "exit"}
  /\ w \in Conns \cup {NoConn} /\ m \in OutMsgs \cup {NoMsg}
  /\ rq \in [Conns -> Nat] /\ wq \in [Conns -> Nat]
  /\ conn \in [Conns -> {"open", "stalled", "broken", "closed"}]
  /\ inwire \in [Conns -> Seq(Frames(InMsgs))]
  /\ outwire \in [Conns -> Seq(Frames(OutMsgs))]
  /\ outbound \in Seq(OutMsgs) /\ sent \subseteq OutMsgs \cup InMsgs
  /\ written \in Seq(OutMsgs) /\ rsent \in [Conns -> Seq(InMsgs)]
  /\ delivered \in [Conns -> Seq(Packets)] /\ lost \in [Conns -> InMsgs \cup {NoMsg}]

\* No quit channel is closed twice (Go panics on the second close), although
\* a writer is closed by a failed write, by its replacement and by the end of
\* Run, and a reader by four early returns; and a write that fails has a writer
\* whose quit channel it can close (closing a nil channel panics as well).
QuitOnce ==
  /\ \A c \in Conns : rq[c] <= 1 /\ wq[c] <= 1
  /\ wloop \in {"msg", "data"} => w # NoConn /\ wq[w] = 0

\* When Attach returns nil, both loops have let go of its connection: nothing
\* reads it, writes to it or is about to take it over while the caller closes it.
ReturnedIsReleased ==
  \A c \in Conns : attach[c] = "done" =>
    /\ readers # c /\ writers # c /\ w # c
    /\ read[c] = "quit"

\* What a message that unmarshals is delivered as.
Packet(msg) == <<<<"msg", msg>>, IF msg \in SyncMsgs THEN <<"data", msg>> ELSE NoMsg>>

\* The packets a connection delivers to inbound are those the remote sent on it,
\* in order, without gaps but for the messages that do not unmarshal, and each
\* Sync message carries its own data: also while it drains, after it was
\* replaced, and whatever frames a fault cut off.  A Sync message that does not
\* unmarshal leaves its data behind, which is skipped as well; should the data be
\* taken for a message, the packets before it are still the right ones, and the
\* connection is lost from there on.
InboundInOrder ==
  \A c \in Conns :
    /\ lost[c] = NoMsg => Len(delivered[c]) <= Len(rsent[c])
    /\ \A i \in 1..Len(delivered[c]) :
         i <= Len(rsent[c]) => delivered[c][i] = Packet(rsent[c][i])

\* The frame behind a Sync message is its data and is never delivered as a message
\* of its own: of the read goroutine's "continue" on a message that does not
\* unmarshal.
DataIsNoMessage ==
  \A c \in Conns : \A i \in DOMAIN delivered[c] : delivered[c][i][1][1] = "msg"

\* The frame that completes a message.
LastFrame(msg) == IF msg \in SyncMsgs THEN <<"data", msg>> ELSE <<"msg", msg>>

\* Retrying never garbles a connection nor repeats a message: on every wire the
\* data of a Sync message directly follows the message it belongs to, only the
\* last message of a wire may lack its data, and no message is ever completed
\* on two connections or twice on one.
WiresWhole ==
  /\ \A c \in Conns : \A i \in 1..Len(outwire[c]) :
       LET f == outwire[c][i] IN
       IF f[1] = "data" THEN i > 1 /\ outwire[c][i - 1] = <<"msg", f[2]>>
       ELSE f[2] \in SyncMsgs /\ i < Len(outwire[c]) =>
              outwire[c][i + 1] = <<"data", f[2]>>
  /\ \A msg \in OutMsgs, c, d \in Conns :
       \A i \in 1..Len(outwire[c]), j \in 1..Len(outwire[d]) :
         outwire[c][i] = LastFrame(msg) /\ outwire[d][j] = LastFrame(msg) => c = d /\ i = j

\* writeLoop implements the Outbox: across faults, replacements and retries
\* every message is written in full once and in the order it was sent.
Box == INSTANCE Outbox WITH Msgs <- OutMsgs, out <- written,
         queue <- (IF m = NoMsg THEN <<>> ELSE <<m>>) \o outbound
ImplementsOutbox == Box!OutboxSpec

\* A call of Attach whose connection both loops have replaced returns: the
\* drain deadline ends its reader, however much the remote still sends.
ReplacedReturns ==
  \A c \in Conns :
    (/\ attach[c] \in {"rq", "wq"}
     /\ read[c] # "none" /\ cur # c /\ writers # c /\ w # c)
    ~> attach[c] \in {"done", "err"}

\* Run's promise about the outbound queue: if a connection that works stays
\* attached, every message sent is eventually written in full.
OutboundWritten ==
  <>[](w \in Healthy) =>
    \A msg \in OutMsgs \ Unmarshalable :
      msg \in sent ~> \E i \in DOMAIN written : written[i] = msg

\* Run's promise about inbound: what the remote sends on a connection that has a
\* reader is delivered, with its data, unless the reader quits, because it is
\* replaced, its connection ends or its frame is rejected; messages that do not
\* unmarshal never hold up the ones behind them.
InboundDelivered ==
  \A c \in Conns, msg \in InMsgs :
    (read[c] # "none" /\ \E i \in DOMAIN rsent[c] : rsent[c][i] = msg)
    ~> (read[c] = "quit" \/ \E i \in DOMAIN delivered[c] : delivered[c][i] = Packet(msg))

\* Attach replaces the connection for reading and for writing: when no Attach
\* call is half way and nothing is queued, what the Channel reads is what it
\* writes.
HalvesAgree ==
  (/\ readers = NoConn /\ writers = NoConn
   /\ \A c \in Conns : attach[c] \notin {"reader", "writer"}
   /\ cur # NoConn /\ read[cur] # "quit" /\ w # NoConn)
  => w = cur

\* Attach blocks only until its connection faults.
FaultReturns ==
  \A c \in Conns : (attach[c] \in {"rq", "wq"} /\ conn[c] = "broken")
                   ~> attach[c] \in {"done", "err"}

\* Attach, once it waits on a running Channel, blocks only until the Channel
\* stops running.
StopReturns ==
  \A c \in Conns : (attach[c] \in {"rq", "wq"} /\ ctxDone)
                   ~> attach[c] \in {"done", "err"}

\* Attach replaces the connection used for writing: a writer that was offered is
\* taken over, whatever the connection it replaces does.
AttachedWrites ==
  \A c \in Conns : writers = c ~> (w = c \/ ctxDone)

=============================================================================
