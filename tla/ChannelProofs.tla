---------------------------- MODULE ChannelProofs ----------------------------
(***************************************************************************)
(* Proofs about Channel, for any connections, messages and contexts.       *)
(***************************************************************************)
EXTENDS Channel, TLAPS

\* The inductive invariant: which end of an Attach call holds which half of its
\* connection.  The reader of a connection is offered, then read, then quit; its
\* writer is offered, then used, then closed; each is in one place at a time.
ReaderInv(c) ==
  /\ rq[c] = IF read[c] = "quit" THEN 1 ELSE 0
  /\ readers = c => read[c] = "none"
  /\ attach[c] \in {"idle", "reader"} => readers # c /\ read[c] = "none"
  /\ attach[c] \in {"wq", "done"} => read[c] = "quit"

WriterInv(c) ==
  /\ writers = c => wq[c] = 0 /\ w # c
  /\ w = c => wq[c] = 0
  /\ wq[c] <= 1
  /\ attach[c] \in {"idle", "reader", "writer"} => writers # c /\ w # c /\ wq[c] = 0
  /\ attach[c] = "done" => wq[c] = 1

MsgInv ==
  /\ m \notin Unmarshalable
  /\ wloop \in {"msg", "data"} => w # NoConn /\ m # NoMsg

IInv == TypeOK /\ MsgInv /\ \A c \in Conns : ReaderInv(c) /\ WriterInv(c)

\* The types of TypeOK, by the variables that the steps change together.
AttachType ==
  /\ readers \in Conns \cup {NoConn} /\ writers \in Conns \cup {NoConn}
  /\ attach \in [Conns -> AttachPC]
ReadType ==
  /\ rloop \in {"new", "select", "exit"} /\ cur \in Conns \cup {NoConn}
  /\ read \in [Conns -> ReadPC] /\ got \in [Conns -> Packets]
  /\ draining \subseteq Conns /\ rq \in [Conns -> Nat]
  /\ delivered \in [Conns -> Seq(Packets)]
WriteType ==
  /\ wloop \in {"new", "select", "msg", "data", "exit"}
  /\ w \in Conns \cup {NoConn} /\ m \in OutMsgs \cup {NoMsg}
  /\ wq \in [Conns -> Nat] /\ outwire \in [Conns -> Seq(Frames(OutMsgs))]
  /\ outbound \in Seq(OutMsgs) /\ written \in Seq(OutMsgs)
NetType ==
  /\ conn \in [Conns -> {"open", "stalled", "broken", "closed"}]
  /\ inwire \in [Conns -> Seq(Frames(InMsgs))] /\ rsent \in [Conns -> Seq(InMsgs)]
  /\ lost \in [Conns -> InMsgs \cup {NoMsg}]
RestType == ctxDone \in BOOLEAN /\ sent \subseteq OutMsgs \cup InMsgs
Types == AttachType /\ ReadType /\ WriteType /\ NetType /\ RestType

\* They are all the types there are.
LEMMA TypesAre == TypeOK => Types
BY Zenon DEF TypeOK, Types, AttachType, ReadType, WriteType, NetType, RestType

\* Variables that a step does not change keep their types.
LEMMA Same ==
  /\ AttachType /\ UNCHANGED attachVars => AttachType'
  /\ ReadType /\ UNCHANGED readVars => ReadType'
  /\ WriteType /\ UNCHANGED writeVars => WriteType'
  /\ NetType /\ UNCHANGED netVars => NetType'
  /\ RestType /\ UNCHANGED <<ctxDone, sent>> => RestType'
<1>1. AttachType /\ UNCHANGED attachVars => AttachType'
  BY Zenon DEF AttachType, attachVars
<1>2. ReadType /\ UNCHANGED readVars => ReadType'
  BY Zenon DEF ReadType, readVars
<1>3. WriteType /\ UNCHANGED writeVars => WriteType'
  BY Zenon DEF WriteType, writeVars
<1>4. NetType /\ UNCHANGED netVars => NetType'
  BY Zenon DEF NetType, netVars
<1>5. RestType /\ UNCHANGED <<ctxDone, sent>> => RestType'
  BY Zenon DEF RestType
<1> QED
  BY <1>1, <1>2, <1>3, <1>4, <1>5, Zenon

\* Closing the quit channel of a reader or of the writer keeps the types.
LEMMA CloseType ==
  /\ \A c \in Conns : read \in [Conns -> ReadPC] /\ rq \in [Conns -> Nat] /\ CloseReader(c)
       => read' \in [Conns -> ReadPC] /\ rq' \in [Conns -> Nat]
  /\ w \in Conns \cup {NoConn} /\ wq \in [Conns -> Nat] /\ CloseWriter
       => wq' \in [Conns -> Nat]
<1>1. ASSUME NEW c \in Conns, read \in [Conns -> ReadPC], CloseReader(c)
      PROVE  read' \in [Conns -> ReadPC]
  BY <1>1, Zenon DEF CloseReader, ReadPC
<1>2. ASSUME NEW c \in Conns, rq \in [Conns -> Nat], CloseReader(c)
      PROVE  rq' \in [Conns -> Nat]
  BY <1>2 DEF CloseReader
<1>3. ASSUME w \in Conns \cup {NoConn}, wq \in [Conns -> Nat], CloseWriter
      PROVE  wq' \in [Conns -> Nat]
  BY <1>3 DEF CloseWriter
<1> QED
  BY <1>1, <1>2, <1>3, Zenon

\* The frames of a message are frames.
LEMMA FramesOfType ==
  ASSUME NEW msgs, NEW msg \in msgs PROVE FramesOf(msg) \in Seq(Frames(msgs))
<1>1. <<"msg", msg>> \in Frames(msgs) /\ <<"data", msg>> \in Frames(msgs)
  BY Zenon DEF Frames
<1> QED
  BY <1>1 DEF FramesOf

\* A wire that is cut short, that loses its first frame or to which a message is added
\* keeps its type.
LEMMA WireType ==
  ASSUME NEW c \in Conns, inwire \in [Conns -> Seq(Frames(InMsgs))],
         \/ \E k \in 0..Len(inwire[c]) : inwire' = [inwire EXCEPT ![c] = SubSeq(@, 1, k)]
         \/ inwire[c] # <<>> /\ inwire' = [inwire EXCEPT ![c] = Tail(@)]
         \/ \E msg \in InMsgs : inwire' = [inwire EXCEPT ![c] = @ \o FramesOf(msg)]
  PROVE  inwire' \in [Conns -> Seq(Frames(InMsgs))]
<1> DEFINE S == Seq(Frames(InMsgs))
<1>1. inwire[c] \in S /\ inwire \in [Conns -> S]
  BY Zenon
<1>2. ASSUME NEW k \in 0..Len(inwire[c]) PROVE SubSeq(inwire[c], 1, k) \in S
  BY <1>1
<1>3. inwire[c] # <<>> => Tail(inwire[c]) \in S
  BY <1>1
<1>4. ASSUME NEW msg \in InMsgs PROVE inwire[c] \o FramesOf(msg) \in S
  BY <1>1, FramesOfType
<1>5. PICK s \in S : inwire' = [inwire EXCEPT ![c] = s]
  BY <1>2, <1>3, <1>4, Zenon
<1> HIDE DEF S
<1>6. inwire' \in [Conns -> S]
  BY <1>1, <1>5, Zenon
<1> QED
  BY <1>6, Zenon DEF S

\* The calls of Attach, and the callers that close, keep the types.
LEMMA AttachTypes ==
  ASSUME Types, NEW c \in Conns, AttachStep(c) PROVE Types'
<1>0. AttachType /\ ReadType /\ WriteType /\ NetType /\ RestType
  BY Zenon DEF Types
<1>1. CASE CloseConn(c)
  <2>1. /\ UNCHANGED <<ctxDone, sent>> /\ UNCHANGED attachVars /\ UNCHANGED readVars
        /\ UNCHANGED writeVars /\ rsent' = rsent /\ lost' = lost
    BY <1>1, Zenon DEF CloseConn
  <2>2. inwire' \in [Conns -> Seq(Frames(InMsgs))]
    BY <1>0, <1>1, WireType, Zenon DEF CloseConn, NetType
  <2>3. conn' \in [Conns -> {"open", "stalled", "broken", "closed"}]
    BY <1>0, <1>1, Zenon DEF CloseConn, NetType
  <2> QED
    BY <1>0, <2>1, <2>2, <2>3, Same, Zenon DEF Types, NetType
<1>2. CASE \/ AttachStart(c) \/ AttachReader(c) \/ AttachWriter(c)
           \/ AttachWaitReader(c) \/ AttachWaitWriter(c) \/ AttachCancel(c)
  <2>1. /\ UNCHANGED <<ctxDone, sent>> /\ UNCHANGED readVars /\ UNCHANGED writeVars
        /\ UNCHANGED netVars /\ readers' \in {readers, c} /\ writers' \in {writers, c}
    BY <1>2, Zenon DEF AttachStart, AttachReader, AttachWriter, AttachWaitReader,
       AttachWaitWriter, AttachCancel
  <2>2. PICK v \in AttachPC : attach' = [attach EXCEPT ![c] = v]
    BY <1>2, Zenon DEF AttachStart, AttachReader, AttachWriter, AttachWaitReader,
       AttachWaitWriter, AttachCancel, AttachPC
  <2>3. AttachType'
    BY <1>0, <2>1, <2>2, Zenon DEF AttachType
  <2> QED
    BY <1>0, <2>1, <2>3, Same, Zenon DEF Types
<1> QED
  BY <1>1, <1>2, Zenon DEF AttachStep

\* The read goroutines keep the types.
LEMMA ReadTypes ==
  ASSUME Types, NEW c \in Conns, ReadStep(c) PROVE Types'
<1>0. /\ AttachType /\ ReadType /\ WriteType /\ NetType /\ RestType
      /\ inwire[c] \in Seq(Frames(InMsgs)) /\ got[c] \in Packets
  BY Zenon DEF Types, NetType, ReadType
<1>1. /\ UNCHANGED <<ctxDone, sent>> /\ UNCHANGED attachVars /\ UNCHANGED writeVars
      /\ conn' = conn /\ rsent' = rsent /\ lost' = lost /\ rloop' = rloop /\ cur' = cur /\ draining' = draining
      /\ inwire' = inwire \/ (inwire[c] # <<>> /\ inwire' = [inwire EXCEPT ![c] = Tail(@)])
      /\ delivered' = delivered \/ delivered' = [delivered EXCEPT ![c] = Append(@, got[c])]
  BY Zenon DEF ReadStep, Decode, DecodeData, Reject, ReadFail, Deliver, DeliverAbort, netVars
<1>2. /\ \/ CloseReader(c)
         \/ rq' = rq /\ (read' = read \/ \E v \in ReadPC : read' = [read EXCEPT ![c] = v])
  BY Zenon DEF ReadStep, Decode, DecodeData, Reject, ReadFail, Deliver, DeliverAbort, ReadPC
<1>3. got' = got \/ \E pk \in Packets : got' = [got EXCEPT ![c] = pk]
  <2>1. /\ <<NoMsg, NoMsg>> \in Packets
        /\ inwire[c] # <<>> => LET f == Head(inwire[c]) IN
             <<f, NoMsg>> \in Packets /\ <<got[c][1], f>> \in Packets
    <3>1. inwire[c] # <<>> => Head(inwire[c]) \in Frames(InMsgs)
      BY <1>0
    <3>2. got[c][1] \in Frames(InMsgs) \cup {NoMsg}
      BY <1>0, Zenon DEF Packets
    <3> QED
      BY <3>1, <3>2, Zenon DEF Packets
  <2> QED
    BY <2>1, Zenon DEF ReadStep, Decode, DecodeData, Reject, ReadFail, Deliver, DeliverAbort
<1>4. inwire' \in [Conns -> Seq(Frames(InMsgs))]
  BY <1>0, <1>1, WireType, Zenon DEF NetType
<1>5. read' \in [Conns -> ReadPC] /\ rq' \in [Conns -> Nat]
  <2>1. CASE CloseReader(c)
    BY <1>0, <2>1, CloseType, Zenon DEF ReadType
  <2>2. CASE rq' = rq /\ (read' = read \/ \E v \in ReadPC : read' = [read EXCEPT ![c] = v])
    BY <1>0, <2>2, Zenon DEF ReadType
  <2> QED
    BY <1>2, <2>1, <2>2, Zenon
<1>6. delivered' \in [Conns -> Seq(Packets)]
  <2>1. delivered \in [Conns -> Seq(Packets)]
    BY <1>0, Zenon DEF ReadType
  <2>2. Append(delivered[c], got[c]) \in Seq(Packets)
    BY <1>0, <2>1
  <2> QED
    BY <1>1, <2>1, <2>2, Zenon
<1>7. got' \in [Conns -> Packets]
  BY <1>0, <1>3, Zenon DEF ReadType
<1>8. ReadType' /\ NetType'
  BY <1>0, <1>1, <1>4, <1>5, <1>6, <1>7, Zenon DEF ReadType, NetType
<1> QED
  BY <1>0, <1>1, <1>8, Same, Zenon DEF Types

\* The two loops of Run keep the types.
LEMMA LoopTypes ==
  ASSUME Types, MsgInv, ReadLoopStep \/ WriteLoopStep PROVE Types'
<1>0. AttachType /\ ReadType /\ WriteType /\ NetType /\ RestType
  BY Zenon DEF Types
<1>1. CASE ReadLoopStep
  <2>1. /\ UNCHANGED <<ctxDone, sent>> /\ UNCHANGED writeVars /\ UNCHANGED netVars
        /\ attach' = attach /\ readers' \in {readers, NoConn} /\ writers' = writers
        /\ rloop' \in {rloop, "exit"} /\ cur' \in {cur, readers}
        /\ draining' = draining \cup ({cur} \ {NoConn})
        /\ got' = got /\ rq' = rq /\ delivered' = delivered
        /\ read' = read \/ (readers # NoConn /\ read' = [read EXCEPT ![readers] = "decode"])
    BY <1>1, Zenon DEF ReadLoopStep, ReadLoopReplace, ReadLoopExit, attachVars
  <2>2. AttachType'
    BY <1>0, <2>1, Zenon DEF AttachType
  <2>3. read' \in [Conns -> ReadPC]
    BY <1>0, <2>1, Zenon DEF ReadType, AttachType, ReadPC
  <2>4. rloop' \in {"new", "select", "exit"} /\ cur' \in Conns \cup {NoConn} /\ draining' \subseteq Conns
    BY <1>0, <2>1, Zenon DEF ReadType, AttachType
  <2>5. ReadType'
    BY <1>0, <2>1, <2>3, <2>4, Zenon DEF ReadType
  <2> QED
    BY <1>0, <2>1, <2>2, <2>5, Same, Zenon DEF Types
<1>2. CASE WriteLoopStep
  <2>1. /\ UNCHANGED <<ctxDone, sent>> /\ UNCHANGED readVars /\ UNCHANGED netVars
        /\ attach' = attach /\ readers' = readers /\ writers' \in {writers, NoConn}
        /\ w' \in {w, writers, NoConn} /\ wloop' \in {wloop, "select", "msg", "data", "exit"}
        /\ wq' = wq \/ CloseWriter
    BY <1>2, Zenon DEF WriteLoopStep, WriteLoopReplace, WriteLoopExit, TakeMsg, WriteFrame,
       WriteFail, attachVars
  <2>2. /\ m' \in OutMsgs \cup {NoMsg} /\ outbound' \in Seq(OutMsgs)
        /\ written' \in Seq(OutMsgs) /\ outwire' \in [Conns -> Seq(Frames(OutMsgs))]
    <3>1. CASE TakeMsg
      <4>1. outbound # <<>> => Head(outbound) \in OutMsgs /\ Tail(outbound) \in Seq(OutMsgs)
        BY <1>0 DEF WriteType
      <4> QED
        BY <1>0, <3>1, <4>1, Zenon DEF TakeMsg, WriteType
    <3>2. CASE WriteFrame
      <4>1. w \in Conns /\ m \in OutMsgs /\ <<wloop, m>> \in Frames(OutMsgs)
        BY <1>0, <3>2, Zenon DEF WriteFrame, WriteType, MsgInv, Frames
      <4>2. outwire' \in [Conns -> Seq(Frames(OutMsgs))]
        BY <1>0, <3>2, <4>1 DEF WriteFrame, WriteType
      <4>3. Append(written, m) \in Seq(OutMsgs)
        BY <1>0, <4>1 DEF WriteType
      <4> QED
        BY <1>0, <3>2, <4>2, <4>3, Zenon DEF WriteFrame, WriteType
    <3>3. CASE WriteLoopReplace \/ WriteLoopExit \/ WriteFail
      BY <1>0, <3>3, Zenon DEF WriteLoopReplace, WriteLoopExit, WriteFail, WriteType
    <3> QED
      BY <1>2, <3>1, <3>2, <3>3, Zenon DEF WriteLoopStep
  <2>3. AttachType'
    BY <1>0, <2>1, Zenon DEF AttachType
  <2>4. wq' \in [Conns -> Nat] /\ w' \in Conns \cup {NoConn}
        /\ wloop' \in {"new", "select", "msg", "data", "exit"}
    BY <1>0, <2>1, CloseType, Zenon DEF WriteType, AttachType
  <2>5. WriteType'
    BY <2>2, <2>4, Zenon DEF WriteType
  <2> QED
    BY <1>0, <2>1, <2>3, <2>5, Same, Zenon DEF Types
<1> QED
  BY <1>1, <1>2, Zenon

\* The network, the remote peer, the senders and Run's context keep the types.
LEMMA NetTypes ==
  ASSUME Types, \/ Run \/ Stop \/ (\E c \in Conns : NetStep(c))
                \/ (\E msg \in OutMsgs : Send(msg)) \/ UNCHANGED vars
  PROVE  Types'
<1>0. AttachType /\ ReadType /\ WriteType /\ NetType /\ RestType
  BY Zenon DEF Types
<1>1. CASE Run
  BY <1>0, <1>1, Same, Zenon DEF Run, Types, ReadType, WriteType
<1>2. CASE Stop
  BY <1>0, <1>2, Same, Zenon DEF Stop, Types, RestType
<1>3. ASSUME NEW c \in Conns, NetStep(c) PROVE Types'
  <2>1. /\ ctxDone' = ctxDone /\ UNCHANGED attachVars /\ UNCHANGED readVars
        /\ UNCHANGED writeVars
        /\ sent' = sent \/ \E msg \in InMsgs : sent' = sent \cup {msg}
    BY <1>3, Zenon DEF NetStep, Fault, Stall, RemoteSend
  <2>2. inwire' \in [Conns -> Seq(Frames(InMsgs))]
    BY <1>0, <1>3, WireType, Zenon DEF NetType, NetStep, Fault, Stall, RemoteSend
  <2>3. conn' = conn \/ conn' = [conn EXCEPT ![c] = "broken"] \/ conn' = [conn EXCEPT ![c] = "stalled"]
    BY <1>3, Zenon DEF NetStep, Fault, Stall, RemoteSend
  <2>4. rsent' = rsent \/ \E msg \in InMsgs : rsent' = [rsent EXCEPT ![c] = Append(@, msg)]
    BY <1>3, Zenon DEF NetStep, Fault, Stall, RemoteSend
  <2>5. conn' \in [Conns -> {"open", "stalled", "broken", "closed"}]
    BY <1>0, <2>3, Zenon DEF NetType
  <2>6. rsent' \in [Conns -> Seq(InMsgs)]
    <3>1. rsent \in [Conns -> Seq(InMsgs)]
      BY <1>0, Zenon DEF NetType
    <3>2. \A msg \in InMsgs : Append(rsent[c], msg) \in Seq(InMsgs)
      BY <3>1
    <3> QED
      BY <2>4, <3>1, <3>2, Zenon
  <2>7. RestType'
    BY <1>0, <2>1, Zenon DEF RestType
  <2>8. lost' \in [Conns -> InMsgs \cup {NoMsg}]
    BY <1>0, <1>3, Zenon DEF NetType, NetStep, Fault, Stall, RemoteSend
  <2> QED
    BY <1>0, <2>1, <2>2, <2>5, <2>6, <2>7, <2>8, Same, Zenon DEF Types, NetType
<1>4. ASSUME NEW msg \in OutMsgs, Send(msg) PROVE Types'
  <2>1. outbound' \in Seq(OutMsgs)
    BY <1>0, <1>4 DEF Send, WriteType
  <2> QED
    BY <1>0, <1>4, <2>1, Same, Zenon DEF Send, Types, WriteType, RestType
<1>5. CASE UNCHANGED vars
  BY <1>0, <1>5, Same, Zenon DEF vars, Types
<1> QED
  BY <1>1, <1>2, <1>3, <1>4, <1>5, Zenon

\* Every step of Attach, the two loops, the read goroutines and the network keeps the
\* types.
LEMMA TypeStep == TypeOK /\ MsgInv /\ [Next]_vars => TypeOK'
<1> SUFFICES ASSUME TypeOK, MsgInv, [Next]_vars PROVE TypeOK'
  BY Zenon
<1>1. Types'
  BY TypesAre, AttachTypes, ReadTypes, LoopTypes, NetTypes, Zenon DEF Next
<1> QED
  BY <1>1, Zenon DEF TypeOK, Types, AttachType, ReadType, WriteType, NetType, RestType

\* What the steps that leave both halves of every connection alone have in common.
LEMMA HalvesKept ==
  ASSUME \/ Stop \/ ReadLoopExit \/ UNCHANGED vars \/ \E msg \in OutMsgs : Send(msg)
         \/ \E c \in Conns : CloseConn(c) \/ NetStep(c)
  PROVE  UNCHANGED <<readers, writers, attach, read, rq, w, wq, m, wloop>>
<1>1. CASE Stop \/ ReadLoopExit \/ UNCHANGED vars \/ \E msg \in OutMsgs : Send(msg)
  BY <1>1, Zenon DEF Stop, ReadLoopExit, vars, Send, attachVars, readVars, writeVars
<1>2. CASE \E c \in Conns : CloseConn(c) \/ NetStep(c)
  BY <1>2, Zenon DEF CloseConn, NetStep, Fault, Stall, RemoteSend, attachVars, readVars, writeVars
<1> QED
  BY <1>1, <1>2, Zenon

\* A step of Attach, of readLoop or of a read goroutine keeps the readers where the
\* invariant says.
LEMMA ReadersStep == IInv /\ [Next]_vars => \A c \in Conns : ReaderInv(c)'
<1> SUFFICES ASSUME IInv, [Next]_vars, NEW x \in Conns PROVE ReaderInv(x)'
  BY Zenon
<1>0. /\ attach \in [Conns -> AttachPC] /\ read \in [Conns -> ReadPC] /\ rq \in [Conns -> Nat]
      /\ readers \in Conns \cup {NoConn} /\ NoConn \notin Conns
      /\ \A c \in Conns : ReaderInv(c)
  BY ChannelConstants, Zenon DEF IInv, TypeOK
<1>1. CASE UNCHANGED <<readers, attach, read, rq>>
  BY <1>0, <1>1, Zenon DEF ReaderInv
<1>2. ASSUME NEW c \in Conns, AttachStep(c), ~CloseConn(c) PROVE ReaderInv(x)'
  <2>1. read' = read /\ rq' = rq
    BY <1>2, Zenon DEF AttachStep, AttachStart, AttachReader, AttachWriter, AttachWaitReader,
       AttachWaitWriter, AttachCancel, readVars
  <2>2. \/ attach[c] = "idle" /\ attach'[c] \in {"reader", "err"} /\ readers' = readers
        \/ attach[c] = "reader" /\ attach'[c] = "writer" /\ readers' = c /\ readers = NoConn
        \/ attach[c] = "writer" /\ attach'[c] = "rq" /\ readers' = readers
        \/ attach[c] = "rq" /\ attach'[c] = "wq" /\ readers' = readers /\ rq[c] > 0
        \/ attach[c] = "wq" /\ attach'[c] = "done" /\ readers' = readers
        \/ attach'[c] = "err" /\ readers' = readers
    BY <1>0, <1>2, Zenon DEF AttachStep, AttachStart, AttachReader, AttachWriter, AttachWaitReader,
       AttachWaitWriter, AttachCancel
  <2>3. x # c => attach'[x] = attach[x]
    BY <1>0, <1>2, Zenon DEF AttachStep, AttachStart, AttachReader, AttachWriter, AttachWaitReader,
       AttachWaitWriter, AttachCancel
  <2>4. ReaderInv(x) /\ ReaderInv(c)
    BY <1>0, Zenon
  <2> QED
    BY <1>0, <2>1, <2>2, <2>3, <2>4 DEF ReaderInv
<1>3. CASE ReadLoopReplace
  <2>1. /\ attach' = attach /\ rq' = rq /\ readers \in Conns /\ readers' = NoConn
        /\ read' = [read EXCEPT ![readers] = "decode"]
    BY <1>0, <1>3, Zenon DEF ReadLoopReplace
  <2> QED
    BY <1>0, <2>1, Zenon DEF ReaderInv
<1>4. ASSUME NEW c \in Conns, ReadStep(c) PROVE ReaderInv(x)'
  <2>1. attach' = attach /\ readers' = readers /\ read[c] \in {"decode", "data", "deliver"}
    BY <1>4, Zenon DEF ReadStep, Decode, DecodeData, Reject, ReadFail, Deliver, DeliverAbort, attachVars
  <2>2. \/ CloseReader(c)
        \/ rq' = rq /\ \E v \in {"decode", "data", "deliver"} : read' = [read EXCEPT ![c] = v]
        \/ rq' = rq /\ read' = read
    BY <1>4, Zenon DEF ReadStep, Decode, DecodeData, Reject, ReadFail, Deliver, DeliverAbort
  <2>3. ReaderInv(x) /\ ReaderInv(c)
    BY <1>0, Zenon
  <2> QED
    BY <1>0, <2>1, <2>2, <2>3 DEF ReaderInv, CloseReader
<1>5. CASE Run \/ WriteLoopStep
  <2>1. UNCHANGED <<readers, attach, read, rq>>
    BY <1>5, Zenon DEF Run, WriteLoopStep, WriteLoopReplace, WriteLoopExit, TakeMsg, WriteFrame,
       WriteFail, attachVars, readVars
  <2> QED
    BY <1>1, <2>1, Zenon
<1> QED
  BY <1>1, <1>2, <1>3, <1>4, <1>5, HalvesKept, Zenon DEF Next, ReadLoopStep

\* A step of Attach or of writeLoop keeps the writers, and the message, where the
\* invariant says.
LEMMA WritersStep ==
  IInv /\ [Next]_vars => MsgInv' /\ \A c \in Conns : WriterInv(c)'
<1> SUFFICES ASSUME IInv, [Next]_vars PROVE MsgInv' /\ \A c \in Conns : WriterInv(c)'
  BY Zenon
<1>0. /\ attach \in [Conns -> AttachPC] /\ wq \in [Conns -> Nat]
      /\ w \in Conns \cup {NoConn} /\ writers \in Conns \cup {NoConn} /\ NoConn \notin Conns
      /\ MsgInv /\ \A c \in Conns : WriterInv(c)
  BY ChannelConstants, Zenon DEF IInv, TypeOK
<1>1. CASE UNCHANGED <<writers, attach, w, wq, m, wloop>>
  BY <1>0, <1>1, Zenon DEF WriterInv, MsgInv
<1>2. ASSUME NEW c \in Conns, AttachStep(c), ~CloseConn(c)
      PROVE  MsgInv' /\ \A x \in Conns : WriterInv(x)'
  <2>1. w' = w /\ wq' = wq /\ m' = m /\ wloop' = wloop
    BY <1>2, Zenon DEF AttachStep, AttachStart, AttachReader, AttachWriter, AttachWaitReader,
       AttachWaitWriter, AttachCancel, writeVars
  <2>2. \/ attach[c] = "idle" /\ attach'[c] \in {"reader", "err"} /\ writers' = writers
        \/ attach[c] = "reader" /\ attach'[c] = "writer" /\ writers' = writers
        \/ attach[c] = "writer" /\ attach'[c] = "rq" /\ writers' = c /\ writers = NoConn
        \/ attach[c] = "rq" /\ attach'[c] = "wq" /\ writers' = writers
        \/ attach[c] = "wq" /\ attach'[c] = "done" /\ writers' = writers /\ wq[c] > 0
        \/ attach'[c] = "err" /\ writers' = writers
    BY <1>0, <1>2, Zenon DEF AttachStep, AttachStart, AttachReader, AttachWriter, AttachWaitReader,
       AttachWaitWriter, AttachCancel
  <2>3. \A x \in Conns : x # c => attach'[x] = attach[x]
    BY <1>0, <1>2, Zenon DEF AttachStep, AttachStart, AttachReader, AttachWriter, AttachWaitReader,
       AttachWaitWriter, AttachCancel
  <2>4. ASSUME NEW x \in Conns PROVE WriterInv(x)'
    BY <1>0, <2>1, <2>2, <2>3 DEF WriterInv
  <2> QED
    BY <1>0, <2>1, <2>4, Zenon DEF MsgInv
<1>3. CASE WriteLoopReplace \/ WriteLoopExit \/ WriteFail
  <2>1. /\ attach' = attach /\ m' = m /\ wloop' \in {"select", "exit"}
        /\ CloseWriter
        /\ \/ writers \in Conns /\ w' = writers /\ writers' = NoConn
           \/ w' = NoConn /\ writers' = writers
    BY <1>0, <1>3, Zenon DEF WriteLoopReplace, WriteLoopExit, WriteFail, attachVars
  <2>2. ASSUME NEW x \in Conns PROVE WriterInv(x)'
    BY <1>0, <2>1 DEF WriterInv, CloseWriter
  <2> QED
    BY <1>0, <2>1, <2>2, Zenon DEF MsgInv
<1>4. CASE TakeMsg \/ WriteFrame \/ Run
  <2>1. UNCHANGED <<writers, attach, w, wq>>
    BY <1>4, Zenon DEF TakeMsg, WriteFrame, Run, attachVars
  <2>2. MsgInv'
    <3>1. outbound # <<>> => Head(outbound) \in OutMsgs
      BY DEF IInv, TypeOK
    <3> QED
      BY <1>0, <1>4, <3>1, ChannelConstants, Zenon DEF TakeMsg, WriteFrame, Run, MsgInv
  <2> QED
    BY <1>0, <2>1, <2>2, Zenon DEF WriterInv
<1>5. CASE ReadLoopReplace \/ \E c \in Conns : ReadStep(c)
  <2>1. UNCHANGED <<writers, attach, w, wq, m, wloop>>
    BY <1>5, Zenon DEF ReadLoopReplace, ReadStep, Decode, DecodeData, Reject, ReadFail, Deliver,
       DeliverAbort, attachVars, writeVars
  <2> QED
    BY <1>1, <2>1, Zenon
<1> QED
  BY <1>1, <1>2, <1>3, <1>4, <1>5, HalvesKept, Zenon DEF Next, ReadLoopStep, WriteLoopStep

\* The inductive invariant holds in every reachable state of the Channel.
THEOREM Invariance == Spec => []IInv
<1>1. Init => IInv
  <2> SUFFICES ASSUME Init PROVE IInv
    BY Zenon
  <2>1. TypeOK
    <3>1. \A S : <<>> \in Seq(S)
      OBVIOUS
    <3>2. <<NoMsg, NoMsg>> \in Packets /\ "idle" \in AttachPC /\ "none" \in ReadPC
      BY Zenon DEF Packets, AttachPC, ReadPC
    <3> QED
      BY <3>1, <3>2, ZenonT(60) DEF Init, TypeOK
  <2>2. MsgInv /\ \A c \in Conns : ReaderInv(c) /\ WriterInv(c)
    BY ChannelConstants DEF Init, MsgInv, ReaderInv, WriterInv
  <2> QED
    BY <2>1, <2>2, Zenon DEF IInv
<1>2. IInv /\ [Next]_vars => IInv'
  BY TypeStep, ReadersStep, WritersStep, Zenon DEF IInv
<1> QED
  BY <1>1, <1>2, PTL DEF Spec

\* Type correctness of the Channel's state (TypeOK), for any constants.
THEOREM TypeCorrect == Spec => []TypeOK
BY Invariance, PTL DEF IInv

\* No close of a quit channel in readLoop or writeLoop ever panics (QuitOnce).
THEOREM QuitOnceHolds == Spec => []QuitOnce
<1>1. IInv => QuitOnce
  <2> SUFFICES ASSUME IInv PROVE QuitOnce
    BY Zenon
  <2>1. ASSUME NEW c \in Conns PROVE rq[c] <= 1 /\ wq[c] <= 1
    <3>1. ReaderInv(c) /\ WriterInv(c)
      BY Zenon DEF IInv
    <3> QED
      BY <3>1 DEF ReaderInv, WriterInv
  <2>2. wloop \in {"msg", "data"} => w # NoConn /\ wq[w] = 0
    BY Zenon DEF IInv, TypeOK, MsgInv, WriterInv
  <2> QED
    BY <2>1, <2>2, ZenonT(60) DEF QuitOnce
<1> QED
  BY <1>1, Invariance, PTL

\* A call of Attach that returned nil has its connection to itself
\* (ReturnedIsReleased): closing it disturbs neither loop.
THEOREM ReturnedIsReleasedHolds == Spec => []ReturnedIsReleased
<1>1. IInv => ReturnedIsReleased
  BY DEF IInv, ReaderInv, WriterInv, ReturnedIsReleased
<1> QED
  BY <1>1, Invariance, PTL

-----------------------------------------------------------------------------
(* The Channel implements the Outbox.                                      *)

\* Sequences that agree everywhere are equal.
LEMMA SameQueue ==
  ASSUME NEW S, NEW s \in Seq(S), NEW t \in Seq(S), Len(s) = Len(t),
         \A i \in 1..Len(s) : s[i] = t[i]
  PROVE  s = t
OBVIOUS

\* A queue and its first element.
LEMMA FrontOfQueue ==
  ASSUME NEW S, NEW e \in S, NEW s \in Seq(S)
  PROVE  /\ <<e>> \o s # <<>> /\ Head(<<e>> \o s) = e /\ Tail(<<e>> \o s) = s
         /\ <<>> \o s = s
<1>1. /\ <<e>> \o s \in Seq(S) /\ Len(<<e>> \o s) = Len(s) + 1 /\ <<e>> \o s # <<>>
  OBVIOUS
<1>2. \A i \in 1..Len(s) : (<<e>> \o s)[i + 1] = s[i]
  OBVIOUS
<1>3. Tail(<<e>> \o s) \in Seq(S) /\ Len(Tail(<<e>> \o s)) = Len(s)
  BY <1>1
<1>4. Tail(<<e>> \o s) = s
  BY <1>1, <1>2, <1>3, SameQueue
<1> QED
  BY <1>1, <1>4

\* A queue is its head and its tail.
LEMMA HeadAndTail ==
  ASSUME NEW S, NEW s \in Seq(S), s # <<>>
  PROVE  s = <<Head(s)>> \o Tail(s) /\ Head(s) \in S /\ Tail(s) \in Seq(S)
<1>1. <<Head(s)>> \o Tail(s) \in Seq(S) /\ Len(<<Head(s)>> \o Tail(s)) = Len(s)
  OBVIOUS
<1>2. \A i \in 1..Len(s) : (<<Head(s)>> \o Tail(s))[i] = s[i]
  OBVIOUS
<1>3. s = <<Head(s)>> \o Tail(s)
  BY <1>1, <1>2, SameQueue, Zenon
<1> QED
  BY <1>3

\* Appending to the second part of a queue appends to the queue.
LEMMA AppendToConcat ==
  ASSUME NEW S, NEW p \in Seq(S), NEW s \in Seq(S), NEW e \in S
  PROVE  p \o Append(s, e) = Append(p \o s, e)
<1>1. p \o Append(s, e) \in Seq(S) /\ Append(p \o s, e) \in Seq(S)
  OBVIOUS
<1>2. /\ Len(p \o Append(s, e)) = Len(p) + Len(s) + 1
      /\ Len(Append(p \o s, e)) = Len(p) + Len(s) + 1
  OBVIOUS
<1>3. \A i \in 1..Len(p) + Len(s) + 1 : (p \o Append(s, e))[i] = Append(p \o s, e)[i]
  OBVIOUS
<1> QED
  BY <1>1, <1>2, <1>3, SameQueue, Zenon

\* Spec implements OutboxSpec under the refinement mapping of ImplementsOutbox:
\* no fault, replacement, retry or cancellation makes writeLoop lose, repeat or
\* reorder a message.
THEOREM OutboxRefinement == Spec => ImplementsOutbox
<1> DEFINE Held == IF m = NoMsg THEN <<>> ELSE <<m>>
           Q == Held \o outbound
<1>1. Init => Box!OutboxInit
  BY DEF Init, Box!OutboxInit
<1>2. IInv /\ [Next]_vars => [Box!OutboxNext]_(Box!outboxVars)
  <2> SUFFICES ASSUME IInv, [Next]_vars
               PROVE  Box!OutboxNext \/ UNCHANGED Box!outboxVars
    BY Zenon
  <2>0. /\ outbound \in Seq(OutMsgs) /\ m \in OutMsgs \cup {NoMsg} /\ m \notin Unmarshalable
        /\ wloop \in {"msg", "data"} => m # NoMsg
        /\ Held \in Seq(OutMsgs) /\ NoMsg \notin OutMsgs /\ Unmarshalable \subseteq OutMsgs
    <3>1. /\ outbound \in Seq(OutMsgs) /\ m \in OutMsgs \cup {NoMsg} /\ m \notin Unmarshalable
          /\ wloop \in {"msg", "data"} => m # NoMsg
      BY Zenon DEF IInv, TypeOK, MsgInv
    <3>2. Held \in Seq(OutMsgs)
      BY <3>1
    <3> QED
      BY <3>1, <3>2, ChannelConstants, Zenon
  <2>1. CASE UNCHANGED <<m, outbound, written>>
    BY <2>1, Zenon DEF Box!outboxVars
  <2>2. CASE TakeMsg
    <3>1. CASE m # NoMsg
      <4>1. UNCHANGED <<m, outbound, written>>
        BY <2>0, <2>2, <3>1, Zenon DEF TakeMsg
      <4> QED
        BY <2>1, <4>1, Zenon
    <3>2. CASE m = NoMsg
      <4> DEFINE h == Head(outbound)
      <4>1. /\ outbound # <<>> /\ outbound' = Tail(outbound) /\ written' = written
            /\ m' = IF h \in Unmarshalable THEN NoMsg ELSE h
        BY <2>2, <3>2, Zenon DEF TakeMsg
      <4>2. /\ outbound = <<h>> \o Tail(outbound) /\ h \in OutMsgs
            /\ Tail(outbound) \in Seq(OutMsgs)
        BY <2>0, <4>1, HeadAndTail, Zenon
      <4>3. Q = outbound
        BY <2>0, <3>2
      <4>4. CASE h \in Unmarshalable
        <5>1. Q' = Tail(outbound)
          BY <4>1, <4>2, <4>4
        <5> QED
          BY <4>1, <4>3, <4>4, <5>1 DEF Box!OutboxNext, Box!Discard
      <4>5. CASE h \notin Unmarshalable
        <5>1. Q' = outbound
          BY <2>0, <4>1, <4>2, <4>5, ZenonT(60)
        <5> QED
          BY <4>1, <4>3, <5>1, ZenonT(60) DEF Box!outboxVars
      <4> QED
        BY <4>4, <4>5, Zenon
    <3> QED
      BY <3>1, <3>2, Zenon
  <2>3. CASE WriteFrame
    <3>1. CASE wloop = "msg" /\ m \in SyncMsgs
      BY <2>1, <2>3, <3>1, Zenon DEF WriteFrame
    <3>2. CASE ~(wloop = "msg" /\ m \in SyncMsgs)
      <4>1. /\ m' = NoMsg /\ written' = Append(written, m) /\ outbound' = outbound
            /\ m # NoMsg
        BY <2>0, <2>3, <3>2, Zenon DEF WriteFrame
      <4>2. Q # <<>> /\ Head(Q) = m /\ Tail(Q) = outbound /\ Q' = outbound
        BY <2>0, <4>1, FrontOfQueue
      <4> QED
        BY <2>0, <4>1, <4>2, Zenon DEF Box!OutboxNext, Box!Emit
    <3> QED
      BY <3>1, <3>2, Zenon
  <2>4. ASSUME NEW msg \in OutMsgs, Send(msg)
        PROVE  Box!OutboxNext
    <3>1. outbound' = Append(outbound, msg) /\ m' = m /\ written' = written
      BY <2>4, Zenon DEF Send
    <3>2. Q' = Append(Q, msg)
      BY <2>0, <3>1, AppendToConcat
    <3> QED
      BY <3>1, <3>2, Zenon DEF Box!OutboxNext, Box!Enqueue
  <2>5. ASSUME NEW c \in Conns, AttachStep(c) \/ ReadStep(c) \/ NetStep(c)
        PROVE  UNCHANGED <<m, outbound, written>>
    BY <2>5, ZenonT(60) DEF AttachStep, AttachStart, AttachReader, AttachWriter, AttachWaitReader,
      AttachWaitWriter, AttachCancel, CloseConn, ReadStep, Decode, DecodeData, Reject,
      ReadFail, Deliver, DeliverAbort, NetStep, Fault, Stall, RemoteSend, writeVars
  <2>6. CASE Run \/ Stop \/ ReadLoopStep \/ WriteLoopReplace \/ WriteLoopExit \/ WriteFail
    <3>1. UNCHANGED <<m, outbound, written>>
      BY <2>6, Zenon DEF Run, Stop, ReadLoopStep, ReadLoopReplace, ReadLoopExit,
        WriteLoopReplace, WriteLoopExit, WriteFail, writeVars
    <3> QED
      BY <2>1, <3>1, Zenon
  <2>7. CASE UNCHANGED vars
    BY <2>1, <2>7, Zenon DEF vars, writeVars
  <2> QED
    BY <2>1, <2>2, <2>3, <2>4, <2>5, <2>6, <2>7, Zenon DEF Next, WriteLoopStep
<1> QED
  BY <1>1, <1>2, Invariance, PTL DEF Spec, ImplementsOutbox, Box!OutboxSpec

-----------------------------------------------------------------------------
(* The wires to the remote.                                                *)

\* Frames that follow one another as WiresWhole says, and a wire that lacks the data
\* of its last message.
Shape(s) ==
  \A i \in 1..Len(s) :
    LET f == s[i] IN
    IF f[1] = "data" THEN i > 1 /\ s[i - 1] = <<"msg", f[2]>>
    ELSE f[2] \in SyncMsgs /\ i < Len(s) => s[i + 1] = <<"data", f[2]>>

Ends(s, f) == s # <<>> /\ s[Len(s)] = f
Dangles(s) == \E msg \in SyncMsgs : Ends(s, <<"msg", msg>>)

\* A message follows the last one unless that lacks its data; the data of a message
\* follows the message.
LEMMA ShapeGrows ==
  ASSUME NEW M, NEW s \in Seq(Frames(M)), NEW x \in M, Shape(s)
  PROVE  /\ ~Dangles(s) => Shape(Append(s, <<"msg", x>>))
         /\ Ends(s, <<"msg", x>>) => Shape(Append(s, <<"data", x>>))
<1>1. /\ Len(s) \in Nat
      /\ s # <<>> => Len(s) > 0
      /\ \A i \in 1..Len(s) : s[i] \in {"msg", "data"} \X M
  BY DEF Frames
<1>2. ASSUME NEW f \in {"msg", "data"} \X M
      PROVE  LET t == Append(s, f) IN
               /\ Len(t) = Len(s) + 1 /\ t[Len(s) + 1] = f
               /\ \A i \in 1..Len(s) : t[i] = s[i]
  OBVIOUS
<1>3. ASSUME NEW f \in {"msg", "data"} \X M, NEW t, t = Append(s, f),
             f[1] = "data" => Len(s) > 0 /\ s[Len(s)] = <<"msg", f[2]>>,
             f[1] = "msg" => ~Dangles(s)
      PROVE  Shape(t)
  <2>0. /\ Len(t) = Len(s) + 1 /\ t[Len(s) + 1] = f
        /\ \A i \in 1..Len(s) : t[i] = s[i]
    BY <1>2, <1>3, Zenon
  <2> SUFFICES ASSUME NEW i \in 1..Len(t)
               PROVE  /\ t[i][1] = "data" => i > 1 /\ t[i - 1] = <<"msg", t[i][2]>>
                      /\ t[i][1] # "data" => (t[i][2] \in SyncMsgs /\ i < Len(t) =>
                           t[i + 1] = <<"data", t[i][2]>>)
    BY Zenon DEF Shape
  <2>1. CASE i = Len(s) + 1
    <3>1. ~(i < Len(t)) /\ t[i] = f
      BY <1>1, <2>0, <2>1
    <3>2. f[1] = "data" => i > 1 /\ t[i - 1] = s[Len(s)]
      BY <1>1, <1>3, <2>0, <2>1
    <3> QED
      BY <1>3, <3>1, <3>2, Zenon
  <2>2. CASE i # Len(s) + 1
    <3>1. i \in 1..Len(s) /\ t[i] = s[i]
      BY <1>1, <2>0, <2>2
    <3>2. s[i][1] = "data" => i > 1 /\ t[i - 1] = s[i - 1]
      <4>1. i > 1 => i - 1 \in 1..Len(s)
        BY <1>1, <3>1
      <4> QED
        BY <2>0, <3>1, <4>1, Zenon DEF Shape
    <3>3. i < Len(s) => t[i + 1] = s[i + 1]
      BY <1>1, <2>0, <3>1
    <3>4. i = Len(s) /\ s[i][1] # "data" /\ s[i][2] \in SyncMsgs => Dangles(s) /\ t[i + 1] = f
      <4>1. s[i] \in {"msg", "data"} \X M
        BY <1>1, <3>1, Zenon
      <4>2. s[i][1] # "data" => s[i] = <<"msg", s[i][2]>>
        BY <4>1
      <4>3. i = Len(s) => s # <<>> /\ i + 1 = Len(s) + 1
        BY <1>1, <3>1
      <4> QED
        BY <2>0, <4>2, <4>3, Zenon DEF Dangles, Ends
    <3>5. i = Len(s) /\ s[i][1] # "data" /\ s[i][2] \in SyncMsgs => f = <<"data", s[i][2]>>
      <4> SUFFICES ASSUME i = Len(s), s[i][1] # "data", s[i][2] \in SyncMsgs
                   PROVE  f = <<"data", s[i][2]>>
        BY Zenon
      <4>1. f[1] = "data"
        BY <1>3, <3>4, Zenon
      <4>2. s[i][2] = f[2]
        BY <1>3, <4>1
      <4> QED
        BY <4>1, <4>2
    <3>6. s[i][1] # "data" /\ s[i][2] \in SyncMsgs /\ i < Len(t) => t[i + 1] = <<"data", s[i][2]>>
      <4>1. i < Len(s) \/ i = Len(s)
        BY <1>1, <3>1
      <4> QED
        BY <3>1, <3>3, <3>4, <3>5, <4>1, Zenon DEF Shape
    <3> QED
      BY <3>1, <3>2, <3>6, Zenon DEF Shape
  <2> QED
    BY <2>1, <2>2, Zenon
<1>4. ~Dangles(s) => Shape(Append(s, <<"msg", x>>))
  <2>1. <<"msg", x>> \in {"msg", "data"} \X M /\ <<"msg", x>>[1] = "msg"
    BY Zenon
  <2> QED
    BY <1>3, <2>1, Zenon
<1>5. Ends(s, <<"msg", x>>) => Shape(Append(s, <<"data", x>>))
  <2>1. <<"data", x>> \in {"msg", "data"} \X M /\ <<"data", x>>[1] = "data" /\ <<"data", x>>[2] = x
    BY Zenon
  <2>2. Ends(s, <<"msg", x>>) => Len(s) > 0 /\ s[Len(s)] = <<"msg", x>>
    BY <1>1, Zenon DEF Ends
  <2> QED
    BY <1>3, <2>1, <2>2, Zenon
<1> QED
  BY <1>4, <1>5, Zenon

\* What each wire has, and what is still to come: a wire whose last message lacks its
\* data is being written to, or never will be again.
WireInv(c) ==
  /\ Shape(outwire[c])
  /\ Dangles(outwire[c]) => \/ wq[c] = 1 \/ conn[c] \in {"broken", "closed"}
                            \/ w = c /\ wloop = "data"
  /\ w = c /\ wloop = "data" => \/ conn[c] \in {"broken", "closed"}
                                \/ Ends(outwire[c], <<"msg", m>>)

\* The frame that a write puts on the wire of w, and its shape.
LEMMA WireGrows ==
  ASSUME IInv, WriteFrame, \A c \in Conns : WireInv(c), wloop = "data" => m \in SyncMsgs
  PROVE  /\ \A c \in Conns : WireInv(c)'
         /\ (wloop = "data" => m \in SyncMsgs)'
<1>0. /\ w \in Conns /\ m \in OutMsgs /\ wq[w] = 0 /\ NoConn \notin Conns
      /\ outwire \in [Conns -> Seq(Frames(OutMsgs))] /\ outwire[w] \in Seq(Frames(OutMsgs))
  <2>1. w \in Conns /\ m \in OutMsgs /\ outwire \in [Conns -> Seq(Frames(OutMsgs))]
    BY Zenon DEF IInv, TypeOK, MsgInv, WriteFrame
  <2> QED
    BY <2>1, ChannelConstants, Zenon DEF IInv, WriterInv
<1>1. /\ w' = w /\ wq' = wq /\ conn' = conn
      /\ wloop \in {"msg", "data"} /\ conn[w] \in {"open", "broken"}
      /\ wloop' = "data" => wloop = "msg" /\ m \in SyncMsgs /\ m' = m
  BY Zenon DEF WriteFrame, netVars
<1>2. (wloop = "data" => m \in SyncMsgs)'
  BY <1>1, Zenon
<1>3. CASE conn[w] # "open"
  <2>1. outwire' = outwire /\ conn[w] = "broken"
    BY <1>1, <1>3, Zenon DEF WriteFrame
  <2> QED
    BY <1>0, <1>1, <1>2, <2>1, Zenon DEF WireInv
<1>4. CASE conn[w] = "open"
  <2>1. outwire' = [outwire EXCEPT ![w] = Append(@, <<wloop, m>>)]
    BY <1>4, Zenon DEF WriteFrame
  <2>2. /\ outwire'[w] = Append(outwire[w], <<wloop, m>>)
        /\ \A c \in Conns : c # w => outwire'[c] = outwire[c]
    BY <1>0, <2>1, Zenon
  <2>3. wloop = "msg" => ~Dangles(outwire[w])
    BY <1>0, <1>4 DEF WireInv
  <2>4. wloop = "data" => Ends(outwire[w], <<"msg", m>>)
    BY <1>0, <1>4, Zenon DEF WireInv
  <2>5. Shape(outwire'[w])
    <3>1. Shape(outwire[w])
      BY <1>0, Zenon DEF WireInv
    <3>2. CASE wloop = "msg"
      BY <1>0, <2>2, <2>3, <3>1, <3>2, ShapeGrows, Zenon
    <3>3. CASE wloop = "data"
      BY <1>0, <2>2, <2>4, <3>1, <3>3, ShapeGrows, Zenon
    <3> QED
      BY <1>1, <3>2, <3>3, Zenon
  <2>6. Ends(outwire'[w], <<wloop, m>>)
    <3>1. ASSUME NEW s \in Seq(Frames(OutMsgs)), NEW f PROVE Ends(Append(s, f), f)
      BY DEF Ends
    <3> QED
      BY <1>0, <2>2, <3>1, Zenon
  <2>7. Dangles(outwire'[w]) => wloop' = "data"
    <3>1. Dangles(outwire'[w]) => wloop = "msg" /\ m \in SyncMsgs
      BY <2>6 DEF Dangles, Ends
    <3> QED
      BY <3>1, Zenon DEF WriteFrame
  <2>8. wloop' = "data" => Ends(outwire'[w], <<"msg", m'>>)
    BY <1>1, <2>6, Zenon
  <2>9. ASSUME NEW c \in Conns, c = w PROVE WireInv(c)'
    BY <1>1, <2>5, <2>7, <2>8, <2>9, Zenon DEF WireInv
  <2>10. ASSUME NEW c \in Conns, c # w PROVE WireInv(c)'
    BY <1>1, <2>2, <2>10, Zenon DEF WireInv
  <2> QED
    BY <1>2, <2>9, <2>10, Zenon
<1> QED
  BY <1>3, <1>4, Zenon

\* A queue without repetitions that lacks x as well.
NoRepeat(x, q) ==
  /\ \A i \in 1..Len(q) : q[i] # x
  /\ \A i, j \in 1..Len(q) : q[i] = q[j] => i = j

\* Queueing a new message and taking the first one repeat none.
LEMMA QueueMoves ==
  ASSUME NEW q \in Seq(OutMsgs), NEW x, NoRepeat(x, q)
  PROVE  /\ \A e \in OutMsgs : e # x /\ (\A i \in 1..Len(q) : q[i] # e)
                               => NoRepeat(x, Append(q, e))
         /\ \A e \in OutMsgs : \A i \in 1..Len(Append(q, e)) :
              Append(q, e)[i] = e \/ \E j \in 1..Len(q) : Append(q, e)[i] = q[j]
         /\ q # <<>> => NoRepeat(Head(q), Tail(q)) /\ \E j \in 1..Len(q) : Head(q) = q[j]
         /\ q # <<>> => \A i \in 1..Len(Tail(q)) : \E j \in 1..Len(q) : Tail(q)[i] = q[j]
         /\ NoRepeat(NoMsg, q)
<1>1. Len(q) \in Nat /\ \A i \in 1..Len(q) : q[i] \in OutMsgs
  OBVIOUS
<1>2. ASSUME NEW e \in OutMsgs
      PROVE  /\ Len(Append(q, e)) = Len(q) + 1 /\ Append(q, e)[Len(q) + 1] = e
             /\ \A i \in 1..Len(q) : Append(q, e)[i] = q[i]
             /\ \A i \in 1..Len(q) + 1 : i = Len(q) + 1 \/ i \in 1..Len(q)
  BY <1>1
<1>3. ASSUME NEW e \in OutMsgs, e # x, \A i \in 1..Len(q) : q[i] # e
      PROVE  NoRepeat(x, Append(q, e))
  BY <1>2, <1>3 DEF NoRepeat
<1>4. ASSUME q # <<>>
      PROVE  /\ Head(q) = q[1] /\ 1 \in 1..Len(q) /\ Len(Tail(q)) = Len(q) - 1
             /\ \A i \in 1..Len(q) - 1 : /\ i \in Nat /\ i + 1 \in 1..Len(q) /\ i + 1 # 1
                                         /\ Tail(q)[i] = q[i + 1]
  BY <1>1, <1>4
<1>5. \A i, j \in Nat : i + 1 = j + 1 => i = j
  OBVIOUS
<1>6. q # <<>> => NoRepeat(Head(q), Tail(q))
  BY <1>4, <1>5 DEF NoRepeat
<1>7. NoRepeat(NoMsg, q)
  BY <1>1, ChannelConstants, Zenon DEF NoRepeat
<1>8. ASSUME NEW e \in OutMsgs, NEW i \in 1..Len(Append(q, e))
      PROVE  Append(q, e)[i] = e \/ \E j \in 1..Len(q) : Append(q, e)[i] = q[j]
  BY <1>2, Zenon
<1>9. ASSUME q # <<>>, NEW i \in 1..Len(Tail(q)) PROVE \E j \in 1..Len(q) : Tail(q)[i] = q[j]
  BY <1>4, <1>9, Zenon
<1> QED
  BY <1>3, <1>4, <1>6, <1>7, <1>8, <1>9, Zenon

\* Messages that are still to be written in full, and places where one is complete.
Pending(msg) == msg = m \/ \E i \in 1..Len(outbound) : outbound[i] = msg
Completed(msg, c, i) == i \in 1..Len(outwire[c]) /\ outwire[c][i] = LastFrame(msg)

\* A message that is complete on a wire was sent and is no longer to be written, so it
\* is completed nowhere else.
MsgsInv ==
  /\ NoRepeat(m, outbound)
  /\ \A msg \in OutMsgs : Pending(msg) => msg \in sent
  /\ \A msg \in OutMsgs, c \in Conns, i \in Nat :
       Completed(msg, c, i) => msg \in sent /\ ~Pending(msg)
  /\ \A msg \in OutMsgs, c, d \in Conns, i, j \in Nat :
       Completed(msg, c, i) /\ Completed(msg, d, j) => c = d /\ i = j

\* Sending a message queues a new one.
LEMMA SendOnce ==
  ASSUME IInv, MsgsInv, NEW msg \in OutMsgs, Send(msg) PROVE MsgsInv'
<1>0. outbound \in Seq(OutMsgs) /\ m \in OutMsgs \cup {NoMsg} /\ msg # NoMsg
  BY ChannelConstants, Zenon DEF IInv, TypeOK
<1>1. /\ msg \notin sent /\ sent' = sent \cup {msg} /\ outbound' = Append(outbound, msg)
      /\ m' = m /\ outwire' = outwire
  BY Zenon DEF Send
<1>2. ~Pending(msg) /\ \A c \in Conns, i \in Nat : ~Completed(msg, c, i)
  BY <1>1, Zenon DEF MsgsInv
<1>3. NoRepeat(m', outbound')
  BY <1>0, <1>1, <1>2, QueueMoves, Zenon DEF MsgsInv, Pending
<1>4. \A x \in OutMsgs : Pending(x)' => x = msg \/ Pending(x)
  BY <1>0, <1>1, QueueMoves DEF Pending, MsgsInv
<1>5. \A x \in OutMsgs, c \in Conns, i \in Nat : Completed(x, c, i)' <=> Completed(x, c, i)
  BY <1>1, Zenon DEF Completed
<1> QED
  BY <1>1, <1>2, <1>3, <1>4, <1>5 DEF MsgsInv

\* Taking a message leaves it pending, unless it cannot be marshaled.
LEMMA TakeOnce ==
  ASSUME IInv, MsgsInv, TakeMsg PROVE MsgsInv'
<1>0. /\ outbound \in Seq(OutMsgs) /\ m \in OutMsgs \cup {NoMsg} /\ m \notin Unmarshalable
      /\ NoMsg \notin OutMsgs
  BY ChannelConstants, Zenon DEF IInv, TypeOK, MsgInv
<1>1. outwire' = outwire /\ sent' = sent
  BY Zenon DEF TakeMsg
<1>2. CASE m # NoMsg
  <2>1. m' = m /\ outbound' = outbound
    BY <1>0, <1>2, Zenon DEF TakeMsg
  <2> QED
    BY <1>1, <2>1 DEF MsgsInv, Pending, Completed
<1>3. CASE m = NoMsg
  <2>1. outbound # <<>> /\ outbound' = Tail(outbound) /\ m' \in {NoMsg, Head(outbound)}
    BY <1>3, Zenon DEF TakeMsg
  <2>2. /\ NoRepeat(Head(outbound), Tail(outbound))
        /\ \E j \in 1..Len(outbound) : Head(outbound) = outbound[j]
        /\ \A i \in 1..Len(Tail(outbound)) : \E j \in 1..Len(outbound) : Tail(outbound)[i] = outbound[j]
    BY <1>0, <2>1, QueueMoves, Zenon DEF MsgsInv
  <2>3. Tail(outbound) \in Seq(OutMsgs)
    BY <1>0, <2>1
  <2>4. NoRepeat(m', outbound')
    BY <2>1, <2>2, <2>3, QueueMoves, Zenon
  <2>5. \A x \in OutMsgs : Pending(x)' => Pending(x)
    BY <1>0, <2>1, <2>2, Zenon DEF Pending
  <2>6. \A x \in OutMsgs, c \in Conns, i \in Nat : Completed(x, c, i)' <=> Completed(x, c, i)
    BY <1>1, Zenon DEF Completed
  <2> QED
    BY <1>1, <2>4, <2>5, <2>6 DEF MsgsInv
<1> QED
  BY <1>2, <1>3, Zenon

\* The frame that completes a message is written while the message is pending, and
\* then it no longer is.
LEMMA WriteOnce ==
  ASSUME IInv, MsgsInv, wloop = "data" => m \in SyncMsgs, WriteFrame PROVE MsgsInv'
<1>0. /\ w \in Conns /\ m \in OutMsgs /\ NoMsg \notin OutMsgs
      /\ outbound \in Seq(OutMsgs) /\ outwire \in [Conns -> Seq(Frames(OutMsgs))]
  BY ChannelConstants, Zenon DEF IInv, TypeOK, MsgInv, WriteFrame
<1>1. /\ outbound' = outbound /\ sent' = sent /\ wloop \in {"msg", "data"}
      /\ m' \in {m, NoMsg}
      /\ <<wloop, m>> = LastFrame(m) => m' = NoMsg
      /\ \/ outwire' = outwire
         \/ outwire' = [outwire EXCEPT ![w] = Append(@, <<wloop, m>>)]
  BY Zenon DEF WriteFrame, LastFrame
<1>2. m \in sent /\ \A c \in Conns, i \in Nat : ~Completed(m, c, i)
  BY <1>0, Zenon DEF MsgsInv, Pending
<1>3. NoRepeat(m', outbound')
  BY <1>0, <1>1, QueueMoves, Zenon DEF MsgsInv
<1>4. \A x \in OutMsgs : /\ Pending(x)' => Pending(x)
                         /\ <<wloop, m>> = LastFrame(x) => x = m /\ ~Pending(x)'
  <2>1. ASSUME NEW x \in OutMsgs PROVE Pending(x)' => Pending(x)
    BY <1>0, <1>1, Zenon DEF Pending
  <2>2. ASSUME NEW x \in OutMsgs, <<wloop, m>> = LastFrame(x) PROVE x = m
    BY <2>2, Zenon DEF LastFrame
  <2>3. <<wloop, m>> = LastFrame(m) => ~(m = m') /\ \A i \in 1..Len(outbound) : outbound'[i] # m
    BY <1>0, <1>1, Zenon DEF MsgsInv, NoRepeat
  <2>4. ASSUME NEW x \in OutMsgs, <<wloop, m>> = LastFrame(x) PROVE x = m /\ ~Pending(x)'
    BY <1>1, <2>2, <2>3, <2>4, Zenon DEF Pending
  <2> QED
    BY <2>1, <2>4, Zenon
<1>5. PICK k \in Nat : \A x \in OutMsgs, c \in Conns, i \in Nat :
        Completed(x, c, i)' => \/ Completed(x, c, i)
                               \/ <<wloop, m>> = LastFrame(x) /\ c = w /\ i = k
  <2>1. CASE outwire' = outwire
    BY <2>1, Zenon DEF Completed
  <2>2. CASE outwire' = [outwire EXCEPT ![w] = Append(@, <<wloop, m>>)]
    <3>1. /\ outwire'[w] = Append(outwire[w], <<wloop, m>>)
          /\ \A c \in Conns : c # w => outwire'[c] = outwire[c]
      BY <1>0, <2>2, Zenon
    <3>2. /\ Len(outwire[w]) \in Nat
          /\ \A i \in 1..Len(outwire'[w]) :
               \/ i \in 1..Len(outwire[w]) /\ outwire'[w][i] = outwire[w][i]
               \/ i = Len(outwire[w]) + 1 /\ outwire'[w][i] = <<wloop, m>>
      BY <1>0, <3>1
    <3>3. Len(outwire[w]) + 1 \in Nat
      BY <3>2
    <3>4. ASSUME NEW x \in OutMsgs, NEW c \in Conns, NEW i \in Nat, Completed(x, c, i)'
          PROVE  \/ Completed(x, c, i)
                 \/ <<wloop, m>> = LastFrame(x) /\ c = w /\ i = Len(outwire[w]) + 1
      BY <3>1, <3>2, <3>4, Zenon DEF Completed
    <3> QED
      BY <3>3, <3>4, Zenon
  <2> QED
    BY <1>1, <2>1, <2>2, Zenon
<1>6. \A x \in OutMsgs, c, d \in Conns, i, j \in Nat :
        Completed(x, c, i)' /\ Completed(x, d, j)' => c = d /\ i = j
  BY <1>2, <1>4, <1>5 DEF MsgsInv
<1>7. \A x \in OutMsgs, c \in Conns, i \in Nat : Completed(x, c, i)' => x \in sent' /\ ~Pending(x)'
  BY <1>1, <1>2, <1>4, <1>5, Zenon DEF MsgsInv
<1>8. \A x \in OutMsgs : Pending(x)' => x \in sent'
  BY <1>1, <1>4, Zenon DEF MsgsInv
<1> QED
  BY <1>3, <1>6, <1>7, <1>8, Zenon DEF MsgsInv

\* Everything that the wires depend on.
wireVars == <<rloop, wloop, w, m, wq, outbound, outwire, conn, sent>>

WiresInv == /\ \A c \in Conns : WireInv(c)
            /\ wloop = "data" => m \in SyncMsgs
            /\ rloop = "new" => wloop = "new"
            /\ MsgsInv

\* A step that touches neither the queue nor the wires repeats nothing.
LEMMA MsgsKept ==
  ASSUME MsgsInv, UNCHANGED <<m, outbound, outwire>>, sent \subseteq sent' PROVE MsgsInv'
<1>1. \A msg \in OutMsgs : Pending(msg)' <=> Pending(msg)
  BY Zenon DEF Pending
<1>2. \A msg \in OutMsgs, c \in Conns, i \in Nat : Completed(msg, c, i)' <=> Completed(msg, c, i)
  BY Zenon DEF Completed
<1>3. NoRepeat(m', outbound')
  BY Zenon DEF MsgsInv
<1>4. \A msg \in OutMsgs, c, d \in Conns, i, j \in Nat :
        Completed(msg, c, i)' /\ Completed(msg, d, j)' => c = d /\ i = j
  BY <1>2 DEF MsgsInv
<1>5. \A msg \in OutMsgs, c \in Conns, i \in Nat :
        Completed(msg, c, i)' => msg \in sent' /\ ~Pending(msg)'
  BY <1>1, <1>2, Zenon DEF MsgsInv
<1>6. \A msg \in OutMsgs : Pending(msg)' => msg \in sent'
  BY <1>1, Zenon DEF MsgsInv
<1> QED
  BY <1>3, <1>4, <1>5, <1>6, Zenon DEF MsgsInv

\* A connection breaks or is closed, the remote sends, or Run starts.
LEMMA NetWires ==
  ASSUME IInv, WiresInv, Run \/ \E c \in Conns : CloseConn(c) \/ NetStep(c) PROVE WiresInv'
<1>0. conn \in [Conns -> {"open", "stalled", "broken", "closed"}]
  BY Zenon DEF IInv, TypeOK
<1>1. UNCHANGED <<w, wq, m, outbound, outwire>> /\ sent \subseteq sent'
  BY Zenon DEF Run, CloseConn, NetStep, Fault, Stall, RemoteSend, writeVars
<1>2. \/ wloop' = wloop /\ rloop' = rloop
      \/ rloop = "new" /\ rloop' = "select" /\ wloop' = "select"
  BY Zenon DEF Run, CloseConn, NetStep, Fault, Stall, RemoteSend, writeVars, readVars
<1>3. \/ conn' = conn
      \/ \E c \in Conns : \/ conn' = [conn EXCEPT ![c] = "broken"]
                          \/ conn' = [conn EXCEPT ![c] = "closed"]
                          \/ conn[c] = "open" /\ conn' = [conn EXCEPT ![c] = "stalled"]
  BY Zenon DEF Run, CloseConn, NetStep, Fault, Stall, RemoteSend, netVars
<1>4. \A c \in Conns : conn[c] \in {"broken", "closed"} => conn'[c] \in {"broken", "closed"}
  BY <1>0, <1>3, Zenon
<1>5. /\ wloop = "data" => wloop' = "data"
      /\ wloop' = "data" => wloop = "data"
      /\ rloop' = "new" => rloop = "new" /\ wloop' = wloop
  BY <1>2, Zenon DEF WiresInv
<1>6. ASSUME NEW c \in Conns PROVE WireInv(c)'
  BY <1>1, <1>4, <1>5, Zenon DEF WiresInv, WireInv
<1> QED
  BY <1>1, <1>5, <1>6, MsgsKept, Zenon DEF WiresInv

\* writeLoop lets its writer go, which is then closed.
LEMMA LetGo ==
  ASSUME IInv, WiresInv, WriteLoopReplace \/ WriteLoopExit \/ WriteFail PROVE WiresInv'
<1>1. /\ w \in Conns \cup {NoConn} /\ wq \in [Conns -> Nat] /\ NoConn \notin Conns
      /\ \A c \in Conns : w = c => wq[c] = 0
  BY ChannelConstants, Zenon DEF IInv, TypeOK, WriterInv
<1>2. /\ UNCHANGED <<m, outbound, outwire, conn, sent, rloop>> /\ CloseWriter
      /\ wloop' \in {"select", "exit"} /\ wloop \in {"select", "msg", "data"}
  BY Zenon DEF WriteLoopReplace, WriteLoopExit, WriteFail, netVars, readVars
<1>3. \A c \in Conns : /\ wq[c] = 1 => wq'[c] = 1
                       /\ w = c => wq'[c] = 1
  BY <1>1, <1>2 DEF CloseWriter
<1>4. wloop' # "data" /\ wloop # "new"
  BY <1>2, Zenon
<1>5. ASSUME NEW c \in Conns PROVE WireInv(c)'
  BY <1>2, <1>3, <1>4, Zenon DEF WiresInv, WireInv
<1> QED
  BY <1>2, <1>4, <1>5, MsgsKept, Zenon DEF WiresInv

\* Every step keeps the wires whole.
LEMMA WiresStep == IInv /\ WiresInv /\ [Next]_vars => WiresInv'
<1> SUFFICES ASSUME IInv, WiresInv, [Next]_vars PROVE WiresInv'
  BY Zenon
<1>1. CASE TakeMsg
  <2>1. /\ UNCHANGED <<w, wq, outwire, conn>> /\ wloop = "select" /\ wloop' \in {"select", "msg"}
        /\ rloop' = rloop
    BY <1>1, Zenon DEF TakeMsg, netVars, readVars
  <2>2. ASSUME NEW c \in Conns PROVE WireInv(c)'
    BY <2>1, Zenon DEF WiresInv, WireInv
  <2> QED
    BY <1>1, <2>1, <2>2, TakeOnce, Zenon DEF WiresInv
<1>2. CASE WriteFrame
  <2>1. rloop' = rloop /\ wloop # "new"
    BY <1>2, Zenon DEF WriteFrame, readVars
  <2> QED
    BY <1>2, <2>1, WireGrows, WriteOnce, Zenon DEF WiresInv
<1>3. ASSUME NEW msg \in OutMsgs, Send(msg) PROVE WiresInv'
  <2>1. UNCHANGED <<w, wq, outwire, conn, wloop, m, rloop>>
    BY <1>3, Zenon DEF Send, netVars, readVars
  <2>2. ASSUME NEW c \in Conns PROVE WireInv(c)'
    BY <2>1, Zenon DEF WiresInv, WireInv
  <2> QED
    BY <1>3, <2>1, <2>2, SendOnce, Zenon DEF WiresInv
<1>4. CASE \/ Run \/ WriteLoopReplace \/ WriteLoopExit \/ WriteFail
           \/ \E c \in Conns : CloseConn(c) \/ NetStep(c)
  BY <1>4, NetWires, LetGo, Zenon
<1>5. CASE \/ ReadLoopStep \/ Stop \/ UNCHANGED vars
           \/ \E c \in Conns : ReadStep(c) \/ (AttachStep(c) /\ ~CloseConn(c))
  <2>1. UNCHANGED wireVars \/ (rloop' = "exit" /\ UNCHANGED <<wloop, w, m, wq, outbound, outwire, conn, sent>>)
    <3>1. CASE ReadLoopStep \/ Stop \/ UNCHANGED vars
      BY <3>1, Zenon DEF ReadLoopStep, ReadLoopReplace, ReadLoopExit, Stop, vars, readVars, writeVars,
         netVars, wireVars
    <3>2. ASSUME NEW c \in Conns, ReadStep(c) PROVE UNCHANGED wireVars
      BY <3>2, Zenon DEF ReadStep, Decode, DecodeData, Reject, ReadFail, Deliver, DeliverAbort,
         writeVars, netVars, wireVars
    <3>3. ASSUME NEW c \in Conns, AttachStep(c), ~CloseConn(c) PROVE UNCHANGED wireVars
      BY <3>3, Zenon DEF AttachStep, AttachStart, AttachReader, AttachWriter, AttachWaitReader,
         AttachWaitWriter, AttachCancel, readVars, writeVars, netVars, wireVars
    <3> QED
      BY <1>5, <3>1, <3>2, <3>3, Zenon
  <2>2. MsgsInv'
    BY <2>1, MsgsKept, Zenon DEF WiresInv, wireVars
  <2>3. ASSUME NEW c \in Conns PROVE WireInv(c)'
    BY <2>1, Zenon DEF WiresInv, WireInv, wireVars
  <2> QED
    BY <2>1, <2>2, <2>3, Zenon DEF WiresInv, wireVars
<1> QED
  BY <1>1, <1>2, <1>3, <1>4, <1>5, Zenon DEF Next, WriteLoopStep

\* However connections break, are replaced and retried, the remote finds on each wire
\* whole messages but for a last one, and each message complete at most once over all
\* of them (WiresWhole).
THEOREM WiresWholeHolds == Spec => []WiresWhole
<1>1. Init => WiresInv
  <2> SUFFICES ASSUME Init PROVE WiresInv
    BY Zenon
  <2>1. /\ m = NoMsg /\ NoMsg \notin OutMsgs /\ wloop = "new" /\ Len(outbound) = 0
        /\ \A c \in Conns : outwire[c] = <<>> /\ Len(outwire[c]) = 0 /\ 1..Len(outwire[c]) = {}
        /\ 1..Len(outbound) = {}
    BY ChannelConstants DEF Init
  <2>2. ASSUME NEW c \in Conns PROVE WireInv(c)
    BY <2>1, Zenon DEF WireInv, Shape, Dangles, Ends
  <2>3. MsgsInv
    BY <2>1, Zenon DEF MsgsInv, NoRepeat, Pending, Completed
  <2> QED
    BY <2>1, <2>2, <2>3, Zenon DEF WiresInv
<1>2. IInv /\ WiresInv => WiresWhole
  <2> SUFFICES ASSUME IInv, WiresInv PROVE WiresWhole
    BY Zenon
  <2>1. \A c \in Conns : Shape(outwire[c])
    BY Zenon DEF WiresInv, WireInv
  <2>2. \A msg \in OutMsgs, c, d \in Conns :
          \A i \in 1..Len(outwire[c]), j \in 1..Len(outwire[d]) :
            outwire[c][i] = LastFrame(msg) /\ outwire[d][j] = LastFrame(msg) => c = d /\ i = j
    BY DEF WiresInv, MsgsInv, Completed
  <2> QED
    BY <2>1, <2>2, Zenon DEF WiresWhole, Shape
<1> QED
  BY <1>1, <1>2, Invariance, WiresStep, PTL DEF Spec

-----------------------------------------------------------------------------
(* The wires from the remote.                                              *)

\* The Sync messages that do not unmarshal and whose data does.
Ambiguous == Malformed \cap DataMsgs
Lead(f) == f[1] = "msg" /\ f[2] \in Ambiguous

\* A frame with which a message that unmarshals begins, and how many of those there are
\* among the first i frames of v: k[i], of the messages r.
Counts(f) == f[1] = "msg" /\ f[2] \notin Malformed

Ranked(v, k, r) ==
  /\ k \in [0..Len(v) -> Nat] /\ k[0] = 0 /\ k[Len(v)] = Len(r)
  /\ \A i \in 1..Len(v) :
       /\ Counts(v[i]) => k[i] = k[i - 1] + 1 /\ k[i] \in 1..Len(r) /\ r[k[i]] = v[i][2]
       /\ ~Counts(v[i]) => k[i] = k[i - 1]

\* What the remote sent on a connection before an ambiguous message: the frames v of
\* whole messages.
Plain(f) == f[2] \notin Ambiguous /\ (f[1] = "data" => f[2] \in SyncMsgs)
Log(v, k, r) ==
  /\ v \in Seq(Frames(InMsgs)) /\ Shape(v) /\ ~Dangles(v) /\ Ranked(v, k, r)
  /\ \A i \in 1..Len(v) : Plain(v[i])

\* v2, k2 and r2 continue v, k and r, the first of them by F.
Longer(v, k, r, F, v2, k2, r2) ==
  /\ Len(v2) = Len(v) + Len(F) /\ Len(r) <= Len(r2)
  /\ \A i \in 1..Len(v) : v2[i] = v[i]
  /\ \A i \in 1..Len(F) : v2[Len(v) + i] = F[i]
  /\ \A i \in 0..Len(v) : k2[i] = k[i]
  /\ \A i \in 1..Len(r) : r2[i] = r[i]

\* Ranks after one frame more.
LEMMA RankGrows ==
  ASSUME NEW v \in Seq(Frames(InMsgs)), NEW k, NEW r \in Seq(InMsgs), Ranked(v, k, r),
         NEW f \in Frames(InMsgs), NEW r2,
         Counts(f) => r2 = Append(r, f[2]), ~Counts(f) => r2 = r
  PROVE  \E k2 : Ranked(Append(v, f), k2, r2) /\ Longer(v, k, r, <<f>>, Append(v, f), k2, r2)
<1> DEFINE n == Len(v)
           t == Append(v, f)
           k2 == [i \in 0..n + 1 |-> IF i <= n THEN k[i] ELSE Len(r2)]
<1>1. /\ n \in Nat /\ Len(t) = n + 1 /\ t[n + 1] = f /\ \A i \in 1..n : t[i] = v[i]
      /\ Len(<<f>>) = 1 /\ <<f>>[1] = f /\ f[2] \in InMsgs
  BY DEF Frames
<1>2. /\ Len(r) \in Nat /\ Len(r2) \in Nat /\ Len(r) <= Len(r2)
      /\ \A i \in 1..Len(r) : r2[i] = r[i]
      /\ Counts(f) => Len(r2) = Len(r) + 1 /\ r2[Len(r) + 1] = f[2]
      /\ ~Counts(f) => Len(r2) = Len(r)
  <2>1. CASE Counts(f)
    BY <1>1, <2>1
  <2>2. CASE ~Counts(f)
    BY <2>2
  <2> QED
    BY <2>1, <2>2, Zenon
<1>3. /\ k2 \in [0..n + 1 -> Nat] /\ k2[n + 1] = Len(r2) /\ \A i \in 0..n : k2[i] = k[i]
  BY <1>1, <1>2 DEF Ranked
<1>4. k[0] = 0 /\ k[n] = Len(r) /\ 0 \in 0..n /\ n \in 0..n
  BY <1>1 DEF Ranked
<1> HIDE DEF n, t, k2
<1>5. ASSUME NEW i \in 1..n + 1
      PROVE  /\ Counts(t[i]) => k2[i] = k2[i - 1] + 1 /\ k2[i] \in 1..Len(r2) /\ r2[k2[i]] = t[i][2]
             /\ ~Counts(t[i]) => k2[i] = k2[i - 1]
  <2>1. CASE i = n + 1
    <3>1. t[i] = f /\ k2[i] = Len(r2) /\ k2[i - 1] = Len(r)
      BY <1>1, <1>3, <1>4, <2>1
    <3> QED
      BY <1>2, <3>1
  <2>2. CASE i # n + 1
    <3>1. i \in 1..n /\ i \in 0..n /\ i - 1 \in 0..n
      BY <1>1, <2>2
    <3>2. t[i] = v[i] /\ k2[i] = k[i] /\ k2[i - 1] = k[i - 1]
      BY <1>1, <1>3, <3>1, Zenon
    <3>3. /\ Counts(v[i]) => k[i] = k[i - 1] + 1 /\ k[i] \in 1..Len(r) /\ r[k[i]] = v[i][2]
          /\ ~Counts(v[i]) => k[i] = k[i - 1]
      BY <3>1, Zenon DEF Ranked, n
    <3>4. k[i] \in 1..Len(r) => k[i] \in 1..Len(r2) /\ r2[k[i]] = r[k[i]]
      BY <1>2
    <3> QED
      BY <3>2, <3>3, <3>4, Zenon
  <2> QED
    BY <2>1, <2>2, Zenon
<1>6. Ranked(t, k2, r2)
  BY <1>1, <1>3, <1>4, <1>5, Zenon DEF Ranked
<1>7. \A i \in 1..Len(<<f>>) : t[n + i] = <<f>>[i]
  BY <1>1
<1>8. Longer(v, k, r, <<f>>, t, k2, r2)
  BY <1>1, <1>2, <1>3, <1>7, Zenon DEF Longer, n
<1> QED
  BY <1>6, <1>8, Zenon DEF t

\* A sequence and the one with an element more.
LEMMA OneMore ==
  ASSUME NEW s \in Seq(Frames(InMsgs)), NEW e \in Frames(InMsgs)
  PROVE  LET t == Append(s, e) IN
         /\ t \in Seq(Frames(InMsgs)) /\ Len(s) \in Nat /\ Len(t) = Len(s) + 1 /\ Ends(t, e)
         /\ \A i \in 1..Len(t) :
              (i \in 1..Len(s) /\ t[i] = s[i]) \/ (i = Len(s) + 1 /\ t[i] = e)
BY DEF Ends

\* All that was sent, after one message more.
LEMMA LogGrows ==
  ASSUME NEW v, NEW k, NEW r \in Seq(InMsgs), Log(v, k, r), NEW x \in InMsgs \ Ambiguous, NEW r2,
         r2 = IF x \in Malformed THEN r ELSE Append(r, x)
  PROVE  \E v2, k2 : Log(v2, k2, r2) /\ Longer(v, k, r, FramesOf(x), v2, k2, r2)
<1> DEFINE f == <<"msg", x>>
           d == <<"data", x>>
           u == Append(v, f)
<1>1. /\ f \in Frames(InMsgs) /\ f[1] = "msg" /\ f[2] = x
      /\ d \in Frames(InMsgs) /\ d[1] = "data" /\ d[2] = x /\ d[1] # "msg"
  BY Zenon DEF Frames
<1>2. v \in Seq(Frames(InMsgs)) /\ Shape(v) /\ ~Dangles(v) /\ Ranked(v, k, r)
      /\ \A i \in 1..Len(v) : Plain(v[i])
  BY Zenon DEF Log
<1>3. Counts(f) => r2 = Append(r, f[2])
  BY <1>1, Zenon DEF Counts
<1>4. ~Counts(f) => r2 = r
  BY <1>1, Zenon DEF Counts
<1>5. PICK k1 : Ranked(u, k1, r2) /\ Longer(v, k, r, <<f>>, u, k1, r2)
  BY <1>1, <1>2, <1>3, <1>4, RankGrows, Zenon
<1>6. Shape(u)
  BY <1>2, ShapeGrows, Zenon
<1>7. /\ u \in Seq(Frames(InMsgs)) /\ Len(u) = Len(v) + 1 /\ Ends(u, f) /\ Len(v) \in Nat
      /\ \A i \in 1..Len(u) : (i \in 1..Len(v) /\ u[i] = v[i]) \/ (i = Len(v) + 1 /\ u[i] = f)
  <2> HIDE DEF f
  <2>1. v \in Seq(Frames(InMsgs)) /\ f \in Frames(InMsgs)
    BY <1>1, <1>2, Zenon
  <2> QED
    BY <2>1, OneMore, Zenon
<1>8. \A i \in 1..Len(u) : Plain(u[i])
  <2>1. Plain(f)
    BY <1>1 DEF Plain
  <2> QED
    BY <1>2, <1>7, <2>1, Zenon
<1> HIDE DEF u
<1>9. CASE x \notin SyncMsgs
  <2>1. ~Dangles(u)
    BY <1>7, <1>9 DEF Dangles, Ends
  <2>2. FramesOf(x) = <<f>>
    BY <1>9, Zenon DEF FramesOf
  <2> QED
    BY <1>5, <1>6, <1>7, <1>8, <2>1, <2>2, Zenon DEF Log
<1>10. CASE x \in SyncMsgs
  <2> DEFINE z == Append(u, d)
  <2>1. /\ z \in Seq(Frames(InMsgs)) /\ Len(z) = Len(v) + 2 /\ Ends(z, d)
        /\ \A i \in 1..Len(z) : (i \in 1..Len(u) /\ z[i] = u[i]) \/ (i = Len(v) + 2 /\ z[i] = d)
    <3>1. Len(u) + 1 = Len(v) + 2
      BY <1>7
    <3> HIDE DEF d
    <3>2. u \in Seq(Frames(InMsgs)) /\ d \in Frames(InMsgs)
      BY <1>1, <1>7, Zenon
    <3>3. /\ z \in Seq(Frames(InMsgs)) /\ Len(z) = Len(u) + 1 /\ Ends(z, d)
          /\ \A i \in 1..Len(z) : (i \in 1..Len(u) /\ z[i] = u[i]) \/ (i = Len(u) + 1 /\ z[i] = d)
      BY <3>2, OneMore, Zenon
    <3> HIDE DEF z
    <3> QED
      BY <3>1, <3>3, Zenon
  <2>2. Shape(z)
    BY <1>6, <1>7, ShapeGrows, Zenon
  <2>3. ~Dangles(z)
    BY <2>1 DEF Dangles, Ends
  <2>4. \A i \in 1..Len(z) : Plain(z[i])
    <3>1. Plain(d)
      BY <1>1, <1>10, Zenon DEF Plain
    <3> QED
      BY <1>8, <2>1, <3>1, Zenon
  <2>5. r2 \in Seq(InMsgs) /\ ~Counts(d)
    BY <1>1 DEF Counts
  <2>6. PICK k2 : Ranked(z, k2, r2) /\ Longer(u, k1, r2, <<d>>, z, k2, r2)
    BY <1>1, <1>5, <1>7, <2>5, RankGrows, Zenon
  <2>7. FramesOf(x) = <<f, d>> /\ Len(<<f, d>>) = 2 /\ <<f, d>>[1] = f /\ <<f, d>>[2] = d
    BY <1>10, Zenon DEF FramesOf
  <2> HIDE DEF z, f, d
  <2>8. Longer(v, k, r, FramesOf(x), z, k2, r2)
    <3>1. Len(z) = Len(v) + Len(FramesOf(x)) /\ Len(r) <= Len(r2) /\ \A i \in 1..Len(r) : r2[i] = r[i]
      BY <1>5, <2>1, <2>7, Zenon DEF Longer
    <3>2. \A i \in 1..Len(v) : i \in 1..Len(u) /\ z[i] = u[i] /\ u[i] = v[i]
      BY <1>5, <1>7, <2>6 DEF Longer
    <3>3. \A i \in 0..Len(v) : i \in 0..Len(u) /\ k2[i] = k1[i] /\ k1[i] = k[i]
      BY <1>5, <1>7, <2>6 DEF Longer
    <3>4. z[Len(v) + 1] = f /\ z[Len(v) + 2] = d
      BY <1>7, <2>1 DEF Ends
    <3>5. \A i \in 1..Len(FramesOf(x)) : z[Len(v) + i] = FramesOf(x)[i]
      <4>1. \A i \in 1..2 : i = 1 \/ i = 2
        OBVIOUS
      <4> QED
        BY <2>7, <3>4, <4>1, Zenon
    <3> QED
      BY <3>1, <3>2, <3>3, <3>5, Zenon DEF Longer
  <2> QED
    BY <2>1, <2>2, <2>3, <2>4, <2>6, <2>8, Zenon DEF Log
<1> QED
  BY <1>9, <1>10, Zenon

\* The frames s on a wire are those of v after the first p, and the last of them too
\* while nothing was cut off; on a connection that is lost an ambiguous message comes
\* behind them.
Segment(s, live, L, v, p) ==
  /\ \A i \in 1..Len(s) : p + i <= Len(v) => s[i] = v[p + i]
  /\ p + Len(s) > Len(v) => L # NoMsg /\ Lead(s[(Len(v) - p) + 1])
  /\ live => IF L # NoMsg THEN p + Len(s) > Len(v) ELSE p + Len(s) = Len(v)

\* A message comes after the first p frames of v, or data that is left behind.
Starts(v, p) == p < Len(v) => v[p + 1][1] = "msg" \/ v[p + 1][2] \in Malformed

\* A reader that is at rd, that holds the packet g, that has delivered n packets and that
\* has taken p frames of v.
At(rd, g, n, v, k, r, p) ==
  /\ p \in 0..Len(v) /\ n \in Nat
  /\ rd \in {"none", "decode"} => Starts(v, p) /\ k[p] = n
  /\ rd = "data" => /\ p >= 1 /\ k[p] = n + 1 /\ n + 1 \in 1..Len(r)
                    /\ v[p] = <<"msg", r[n + 1]>> /\ g[1] = v[p] /\ r[n + 1] \in SyncMsgs
  /\ rd = "deliver" => /\ Starts(v, p) /\ k[p] = n + 1
                       /\ n + 1 \in 1..Len(r) /\ g = Packet(r[n + 1])

\* What frame f, the one after the first p, is.
Follows(f, v, k, r, p) ==
  /\ p + 1 \in 0..Len(v) /\ f \in Frames(InMsgs) /\ Plain(f)
  /\ Counts(f) => k[p + 1] = k[p] + 1 /\ k[p + 1] \in 1..Len(r) /\ r[k[p + 1]] = f[2]
  /\ ~Counts(f) => k[p + 1] = k[p]
  /\ f[2] \notin SyncMsgs \/ f[2] \in Malformed \/ f[1] = "data" => Starts(v, p + 1)
  /\ \A x \in SyncMsgs : p >= 1 /\ v[p] = <<"msg", x>> => f = <<"data", x>>

LEMMA NextFrame ==
  ASSUME NEW v, NEW k, NEW r \in Seq(InMsgs), Log(v, k, r), NEW p \in Nat, p < Len(v)
  PROVE  Follows(v[p + 1], v, k, r, p)
<1> DEFINE f == v[p + 1]
<1>1. /\ v \in Seq(Frames(InMsgs)) /\ Shape(v) /\ Ranked(v, k, r)
      /\ \A i \in 1..Len(v) : Plain(v[i])
  BY Zenon DEF Log
<1>2. /\ p + 1 \in 1..Len(v) /\ p + 1 \in 0..Len(v) /\ f \in Frames(InMsgs) /\ (p + 1) - 1 = p
  BY <1>1
<1>3. /\ Counts(f) => k[p + 1] = k[p] + 1 /\ k[p + 1] \in 1..Len(r) /\ r[k[p + 1]] = f[2]
      /\ ~Counts(f) => k[p + 1] = k[p]
  BY <1>1, <1>2, Zenon DEF Ranked
<1>4. f[2] \notin SyncMsgs \/ f[2] \in Malformed \/ f[1] = "data" => Starts(v, p + 1)
  <2> SUFFICES ASSUME f[2] \notin SyncMsgs \/ f[2] \in Malformed \/ f[1] = "data", p + 1 < Len(v)
               PROVE  v[p + 2][1] = "msg" \/ v[p + 2][2] \in Malformed
    BY <1>2 DEF Starts
  <2>1. p + 2 \in 1..Len(v) /\ (p + 2) - 1 = p + 1 /\ v[p + 2] \in Frames(InMsgs)
    BY <1>1
  <2>2. v[p + 2][1] = "data" => f = <<"msg", v[p + 2][2]>> /\ v[p + 2][2] \in SyncMsgs
    BY <1>1, <2>1, Zenon DEF Shape, Plain
  <2>3. v[p + 2][1] \in {"msg", "data"}
    BY <2>1, Zenon DEF Frames
  <2> HIDE DEF f
  <2> QED
    BY <2>2, <2>3
<1>5. ASSUME NEW x \in SyncMsgs, p >= 1, v[p] = <<"msg", x>> PROVE f = <<"data", x>>
  <2>1. p \in 1..Len(v) /\ v[p][1] = "msg" /\ v[p][2] = x /\ v[p][1] # "data"
    BY <1>5
  <2> QED
    BY <1>1, <2>1, Zenon DEF Shape
<1> QED
  BY <1>1, <1>2, <1>3, <1>4, <1>5, Zenon DEF Follows

\* A frame is taken off a wire; a wire is cut short.
LEMMA TakeHead ==
  ASSUME NEW s \in Seq(Frames(InMsgs)), NEW v, Len(v) \in Nat, NEW p \in 0..Len(v), NEW live,
         NEW L, Segment(s, live, L, v, p)
  PROVE  /\ s # <<>> /\ p < Len(v) => Head(s) = v[p + 1] /\ Segment(Tail(s), live, L, v, p + 1)
         /\ s # <<>> /\ p = Len(v) => L # NoMsg /\ Lead(Head(s))
         /\ \A j \in 0..Len(s) : Segment(SubSeq(s, 1, j), FALSE, L, v, p)
<1>1. /\ \A i \in 1..Len(s) : p + i <= Len(v) => s[i] = v[p + i]
      /\ p + Len(s) > Len(v) => L # NoMsg /\ Lead(s[(Len(v) - p) + 1])
      /\ live => IF L # NoMsg THEN p + Len(s) > Len(v) ELSE p + Len(s) = Len(v)
      /\ Len(s) \in Nat /\ p \in Nat /\ p <= Len(v)
  BY DEF Segment
<1>0. \A i \in 1..Len(s) : p + i <= Len(v) => s[i] = v[p + i]
  BY <1>1, Zenon
<1>2. ASSUME s # <<>>
      PROVE  /\ Len(s) >= 1 /\ Head(s) = s[1] /\ Len(Tail(s)) = Len(s) - 1
             /\ \A i \in 1..Len(Tail(s)) : Tail(s)[i] = s[i + 1]
  BY <1>2
<1>3. ASSUME s # <<>>, p < Len(v) PROVE Head(s) = v[p + 1] /\ Segment(Tail(s), live, L, v, p + 1)
  <2> DEFINE t == Tail(s)
  <2>1. /\ Len(s) >= 1 /\ Head(s) = s[1] /\ Len(t) = Len(s) - 1
        /\ \A i \in 1..Len(t) : t[i] = s[i + 1]
    BY <1>2, <1>3
  <2> HIDE DEF t
  <2>2. Head(s) = v[p + 1]
    BY <1>1, <1>3, <2>1
  <2>3. \A i \in 1..Len(t) : (p + 1) + i <= Len(v) => t[i] = v[(p + 1) + i]
    BY <1>1, <2>1
  <2>4. (p + 1) + Len(t) > Len(v) => L # NoMsg /\ Lead(t[(Len(v) - (p + 1)) + 1])
    <3> SUFFICES ASSUME (p + 1) + Len(t) > Len(v)
                 PROVE  L # NoMsg /\ Lead(t[(Len(v) - (p + 1)) + 1])
      BY Zenon
    <3>1. p + Len(s) > Len(v)
      BY <1>1, <2>1
    <3>2. /\ (Len(v) - (p + 1)) + 1 \in 1..Len(t)
          /\ ((Len(v) - (p + 1)) + 1) + 1 = (Len(v) - p) + 1
      BY <1>1, <1>3, <2>1
    <3>3. t[(Len(v) - (p + 1)) + 1] = s[(Len(v) - p) + 1]
      BY <2>1, <3>2
    <3>4. L # NoMsg /\ Lead(s[(Len(v) - p) + 1])
      BY <1>1, <3>1, Zenon
    <3> QED
      BY <3>3, <3>4, Zenon
  <2>5. live => IF L # NoMsg THEN (p + 1) + Len(t) > Len(v) ELSE (p + 1) + Len(t) = Len(v)
    BY <1>1, <2>1
  <2> QED
    BY <2>2, <2>3, <2>4, <2>5, Zenon DEF Segment, t
<1>4. ASSUME s # <<>>, p = Len(v) PROVE L # NoMsg /\ Lead(Head(s))
  <2>1. p + Len(s) > Len(v) /\ (Len(v) - p) + 1 = 1
    BY <1>1, <1>2, <1>4
  <2> QED
    BY <1>1, <1>2, <1>4, <2>1, Zenon
<1>5. ASSUME NEW j \in 0..Len(s) PROVE Segment(SubSeq(s, 1, j), FALSE, L, v, p)
  <2> DEFINE t == SubSeq(s, 1, j)
  <2>1. /\ Len(t) = j /\ j <= Len(s) /\ j \in Nat
        /\ \A i \in 1..j : t[i] = s[i]
    OBVIOUS
  <2> HIDE DEF t
  <2>2. \A i \in 1..Len(t) : p + i <= Len(v) => t[i] = v[p + i]
    <3>1. \A i \in 1..Len(t) : i \in 1..j /\ i \in 1..Len(s)
      BY <2>1
    <3> QED
      BY <1>0, <2>1, <3>1, Zenon
  <2>3. p + Len(t) > Len(v) => p + Len(s) > Len(v) /\ (Len(v) - p) + 1 \in 1..j
    BY <1>1, <2>1
  <2> QED
    BY <1>1, <2>1, <2>2, <2>3, Zenon DEF Segment, t
<1> QED
  BY <1>3, <1>4, <1>5, Zenon

\* A reader decodes a frame, decodes the data of a message, delivers.
LEMMA ReaderMoves ==
  ASSUME NEW v, NEW k, NEW r \in Seq(InMsgs), Log(v, k, r), NEW p \in Nat, NEW n, NEW g, NEW f
  PROVE  /\ At("decode", g, n, v, k, r, p) /\ p < Len(v) /\ f = v[p + 1] =>
              /\ ~Unmarshals(f) => At("decode", g, n, v, k, r, p + 1)
              /\ Unmarshals(f) /\ IsSync(f) => At("data", <<f, NoMsg>>, n, v, k, r, p + 1)
              /\ Unmarshals(f) /\ ~IsSync(f) => At("deliver", <<f, NoMsg>>, n, v, k, r, p + 1)
         /\ At("data", g, n, v, k, r, p) => p < Len(v)
         /\ At("data", g, n, v, k, r, p) /\ f = v[p + 1] =>
              At("deliver", <<g[1], f>>, n, v, k, r, p + 1)
         /\ At("deliver", g, n, v, k, r, p) => \A h : At("decode", h, n + 1, v, k, r, p)
<1>1. ASSUME At("decode", g, n, v, k, r, p), p < Len(v), f = v[p + 1]
      PROVE  /\ ~Unmarshals(f) => At("decode", g, n, v, k, r, p + 1)
             /\ Unmarshals(f) /\ IsSync(f) => At("data", <<f, NoMsg>>, n, v, k, r, p + 1)
             /\ Unmarshals(f) /\ ~IsSync(f) => At("deliver", <<f, NoMsg>>, n, v, k, r, p + 1)
  <2>1. (f[1] = "msg" \/ f[2] \in Malformed) /\ k[p] = n /\ n \in Nat
    BY <1>1, Zenon DEF At, Starts
  <2>2. Follows(f, v, k, r, p)
    BY <1>1, NextFrame, Zenon
  <2>3. /\ p + 1 \in 0..Len(v) /\ f \in Frames(InMsgs) /\ Plain(f)
        /\ Counts(f) => k[p + 1] = n + 1 /\ n + 1 \in 1..Len(r) /\ r[n + 1] = f[2]
        /\ ~Counts(f) => k[p + 1] = n
        /\ f[2] \notin SyncMsgs \/ f[2] \in Malformed \/ f[1] = "data" => Starts(v, p + 1)
    BY <2>1, <2>2, Zenon DEF Follows
  <2>4. f = <<f[1], f[2]>> /\ f[1] \in {"msg", "data"} /\ p + 1 >= 1
    BY <2>3 DEF Frames
  <2>5. Unmarshals(f) <=> Counts(f)
    BY <2>1, <2>3, <2>4, Zenon DEF Unmarshals, Counts, Plain, Ambiguous
  <2>6. ASSUME ~Unmarshals(f) PROVE At("decode", g, n, v, k, r, p + 1)
    <3>1. f[2] \in Malformed \/ f[1] = "data"
      BY <2>4, <2>6, Zenon DEF Unmarshals
    <3> QED
      BY <2>1, <2>3, <2>5, <2>6, <3>1, Zenon DEF At
  <2>7. ASSUME Unmarshals(f)
        PROVE  /\ f = <<"msg", r[n + 1]>> /\ k[p + 1] = n + 1 /\ n + 1 \in 1..Len(r)
               /\ IsSync(f) <=> r[n + 1] \in SyncMsgs
    BY <2>3, <2>4, <2>5, <2>7, Zenon DEF Counts, IsSync
  <2>8. ASSUME Unmarshals(f), IsSync(f) PROVE At("data", <<f, NoMsg>>, n, v, k, r, p + 1)
    <3>1. <<f, NoMsg>>[1] = f
      OBVIOUS
    <3> QED
      BY <1>1, <2>1, <2>3, <2>4, <2>7, <2>8, <3>1, Zenon DEF At
  <2>9. ASSUME Unmarshals(f), ~IsSync(f) PROVE At("deliver", <<f, NoMsg>>, n, v, k, r, p + 1)
    <3>1. r[n + 1] \notin SyncMsgs /\ f = <<"msg", r[n + 1]>> /\ f[2] = r[n + 1]
      BY <2>3, <2>5, <2>7, <2>9, Zenon
    <3>2. <<f, NoMsg>> = Packet(r[n + 1])
      BY <3>1, Zenon DEF Packet
    <3> QED
      BY <2>1, <2>3, <2>7, <2>9, <3>1, <3>2, Zenon DEF At
  <2> QED
    BY <2>6, <2>8, <2>9, Zenon
<1>2. ASSUME At("data", g, n, v, k, r, p)
      PROVE  /\ p < Len(v)
             /\ f = v[p + 1] => At("deliver", <<g[1], f>>, n, v, k, r, p + 1)
  <2> DEFINE x == r[n + 1]
  <2>1. /\ p >= 1 /\ p \in 0..Len(v) /\ v[p] = <<"msg", x>> /\ g[1] = <<"msg", x>>
        /\ x \in SyncMsgs /\ n \in Nat /\ k[p] = n + 1 /\ n + 1 \in 1..Len(r)
    BY <1>2, Zenon DEF At
  <2> HIDE DEF x
  <2>2. p < Len(v)
    <3>1. v \in Seq(Frames(InMsgs)) /\ ~Dangles(v)
      BY Zenon DEF Log
    <3> QED
      BY <2>1, <3>1 DEF Dangles, Ends
  <2>3. ASSUME f = v[p + 1] PROVE At("deliver", <<g[1], f>>, n, v, k, r, p + 1)
    <3>1. Follows(f, v, k, r, p)
      BY <2>2, <2>3, NextFrame, Zenon
    <3>2. f = <<"data", x>>
      BY <2>1, <3>1, Zenon DEF Follows
    <3>3. f[1] = "data" /\ ~Counts(f)
      BY <3>2 DEF Counts
    <3>4. p + 1 \in 0..Len(v) /\ Starts(v, p + 1) /\ k[p + 1] = n + 1
      BY <2>1, <3>1, <3>3, Zenon DEF Follows
    <3>5. <<g[1], f>> = Packet(r[n + 1])
      BY <2>1, <3>2, Zenon DEF Packet, x
    <3> QED
      BY <2>1, <3>4, <3>5, Zenon DEF At
  <2> QED
    BY <2>2, <2>3, Zenon
<1>3. ASSUME At("deliver", g, n, v, k, r, p), NEW h PROVE At("decode", h, n + 1, v, k, r, p)
  BY <1>3 DEF At
<1> QED
  BY <1>1, <1>2, <1>3, Zenon

\* The remote sends more: the reader is where it was.
LEMMA MoreComes ==
  ASSUME NEW v, NEW k, NEW r \in Seq(InMsgs), Log(v, k, r), NEW s \in Seq(Frames(InMsgs)),
         NEW rd, NEW g, NEW n, NEW p, Segment(s, TRUE, NoMsg, v, p), At(rd, g, n, v, k, r, p),
         NEW x \in InMsgs, NEW v2, NEW k2, NEW r2, Longer(v, k, r, FramesOf(x), v2, k2, r2),
         Len(r2) \in Nat
  PROVE  Segment(s \o FramesOf(x), TRUE, NoMsg, v2, p) /\ At(rd, g, n, v2, k2, r2, p)
<1> DEFINE F == FramesOf(x)
<1>1. F \in Seq(Frames(InMsgs)) /\ Len(F) \in Nat /\ Len(F) >= 1 /\ F[1][1] = "msg"
  <2>1. F \in Seq(Frames(InMsgs))
    BY FramesOfType, Zenon
  <2> QED
    BY <2>1 DEF FramesOf
<1>2. /\ Len(v) \in Nat /\ Len(s) \in Nat /\ Len(r) \in Nat /\ p \in 0..Len(v) /\ n \in Nat
      /\ p + Len(s) = Len(v) /\ \A i \in 1..Len(s) : s[i] = v[p + i]
  BY DEF Log, Segment, At
<1> HIDE DEF F
<1>3. /\ Len(v2) = Len(v) + Len(F) /\ Len(r) <= Len(r2)
      /\ \A i \in 1..Len(v) : v2[i] = v[i]
      /\ \A i \in 1..Len(F) : v2[Len(v) + i] = F[i]
      /\ \A i \in 0..Len(v) : k2[i] = k[i]
      /\ \A i \in 1..Len(r) : r2[i] = r[i]
  BY Zenon DEF Longer, F
<1>4. Segment(s \o F, TRUE, NoMsg, v2, p)
  <2> DEFINE t == s \o F
  <2>1. /\ Len(t) = Len(s) + Len(F)
        /\ \A i \in 1..Len(s) : t[i] = s[i]
        /\ \A i \in 1..Len(F) : t[Len(s) + i] = F[i]
    BY <1>1, <1>2
  <2> HIDE DEF t
  <2>0. /\ Len(t) = Len(s) + Len(F) /\ p + Len(s) = Len(v) /\ p \in Nat
        /\ Len(s) \in Nat /\ Len(F) \in Nat /\ Len(v) \in Nat
    BY <1>1, <1>2, <2>1
  <2>2. ASSUME NEW i \in 1..Len(t) PROVE t[i] = v2[p + i]
    <3>1. CASE i <= Len(s)
      <4>1. i \in 1..Len(s) /\ p + i \in 1..Len(v)
        BY <1>2, <3>1
      <4> QED
        BY <1>2, <1>3, <2>1, <4>1, Zenon
    <3>2. CASE i > Len(s)
      <4>1. i - Len(s) \in 1..Len(F) /\ Len(s) + (i - Len(s)) = i /\ Len(v) + (i - Len(s)) = p + i
        <5>1. i \in Nat /\ Len(t) \in Nat /\ i <= Len(t)
          BY <2>0
        <5>2. i - Len(s) \in 1..Len(F)
          BY <2>0, <3>2, <5>1
        <5>3. Len(s) + (i - Len(s)) = i
          BY <2>0, <5>1
        <5>4. Len(v) + (i - Len(s)) = p + i
          BY <2>0, <5>1
        <5> QED
          BY <5>2, <5>3, <5>4, Zenon
      <4> QED
        BY <1>3, <2>1, <4>1, Zenon
    <3> QED
      BY <1>2, <3>1, <3>2
  <2>3. p + Len(t) = Len(v2)
    <3>1. Len(v2) \in Nat /\ Len(v2) = Len(v) + Len(F)
      BY <1>3, <2>0
    <3> QED
      BY <2>0, <3>1
  <2>4. ~(p + Len(t) > Len(v2))
    BY <1>3, <2>0
  <2> QED
    BY <2>2, <2>3, <2>4, Zenon DEF Segment, t
<1>5. At(rd, g, n, v2, k2, r2, p)
  <2>1. p \in 0..Len(v2) /\ k2[p] = k[p]
    BY <1>1, <1>2, <1>3
  <2>2. Starts(v, p) => Starts(v2, p)
    <3>1. CASE p < Len(v)
      BY <1>2, <1>3, <3>1 DEF Starts
    <3>2. CASE p = Len(v)
      BY <1>1, <1>3, <3>2 DEF Starts
    <3> QED
      BY <1>2, <3>1, <3>2
  <2>3. p >= 1 => v2[p] = v[p]
    BY <1>2, <1>3
  <2>4. n + 1 \in 1..Len(r) => n + 1 \in 1..Len(r2) /\ r2[n + 1] = r[n + 1]
    BY <1>2, <1>3
  <2> QED
    BY <1>2, <2>1, <2>2, <2>3, <2>4, Zenon DEF At
<1> QED
  BY <1>4, <1>5, Zenon DEF F

\* Where the messages of a connection are: those the remote sent on it and that unmarshal
\* (r), delivered (d), in the hands of its reader (rd, g) and on the wire (s).  On a
\* connection that is lost (L), r ends where the ambiguous message was sent, and nothing is
\* known of what the reader does with it and with what comes behind.
Done(d, r, L) ==
  /\ L = NoMsg => Len(d) <= Len(r)
  /\ \A i \in 1..Len(d) : i <= Len(r) => d[i] = Packet(r[i])
Before(rd, g, d, s, cn, r, L) ==
  /\ Len(d) <= Len(r)
  /\ \E v, k, p : /\ Log(v, k, r) /\ Segment(s, cn \in {"open", "stalled"}, L, v, p)
                  /\ At(rd, g, Len(d), v, k, r, p)
Behind(d, r, L) == L # NoMsg /\ Len(d) >= Len(r)
InAt(rd, g, d, s, cn, r, L) ==
  /\ Done(d, r, L)
  /\ rd # "quit" => Before(rd, g, d, s, cn, r, L) \/ Behind(d, r, L)
InboundInv ==
  \A c \in Conns : InAt(read[c], got[c], delivered[c], inwire[c], conn[c], rsent[c], lost[c])

\* Decoding, delivering.
LEMMA InReads ==
  ASSUME NEW rd, NEW g, NEW d \in Seq(Packets), NEW s \in Seq(Frames(InMsgs)), NEW cn,
         NEW r \in Seq(InMsgs), NEW L, InAt(rd, g, d, s, cn, r, L), s # <<>>, NEW f, f = Head(s)
  PROVE  /\ rd = "decode" /\ ~Unmarshals(f) => InAt("decode", g, d, Tail(s), cn, r, L)
         /\ rd = "decode" /\ Unmarshals(f) /\ IsSync(f)
              => InAt("data", <<f, NoMsg>>, d, Tail(s), cn, r, L)
         /\ rd = "decode" /\ Unmarshals(f) /\ ~IsSync(f)
              => InAt("deliver", <<f, NoMsg>>, d, Tail(s), cn, r, L)
         /\ rd = "data" => InAt("deliver", <<g[1], f>>, d, Tail(s), cn, r, L)
<1> DEFINE live == cn \in {"open", "stalled"}
<1>1. Done(d, r, L)
  BY Zenon DEF InAt
<1>2. ASSUME Behind(d, r, L), NEW rd2, NEW g2 PROVE InAt(rd2, g2, d, Tail(s), cn, r, L)
  BY <1>1, <1>2, Zenon DEF InAt
<1>3. ASSUME rd \in {"decode", "data"}, Before(rd, g, d, s, cn, r, L)
      PROVE  /\ rd = "decode" /\ ~Unmarshals(f) => InAt("decode", g, d, Tail(s), cn, r, L)
             /\ rd = "decode" /\ Unmarshals(f) /\ IsSync(f)
                  => InAt("data", <<f, NoMsg>>, d, Tail(s), cn, r, L)
             /\ rd = "decode" /\ Unmarshals(f) /\ ~IsSync(f)
                  => InAt("deliver", <<f, NoMsg>>, d, Tail(s), cn, r, L)
             /\ rd = "data" => InAt("deliver", <<g[1], f>>, d, Tail(s), cn, r, L)
  <2>1. PICK v, k, p : Log(v, k, r) /\ Segment(s, live, L, v, p) /\ At(rd, g, Len(d), v, k, r, p)
    BY <1>3, Zenon DEF Before
  <2>2. p \in Nat /\ Len(v) \in Nat /\ p \in 0..Len(v) /\ (p < Len(v) \/ p = Len(v))
    BY <2>1 DEF At, Log
  <2>3. Len(d) <= Len(r)
    BY <1>3, Zenon DEF Before
  <2> HIDE DEF live
  <2>4. ASSUME p < Len(v), NEW rd2, NEW g2, At(rd2, g2, Len(d), v, k, r, p + 1)
        PROVE  InAt(rd2, g2, d, Tail(s), cn, r, L)
    <3>1. Segment(Tail(s), live, L, v, p + 1)
      BY <2>1, <2>2, <2>4, TakeHead, Zenon
    <3> QED
      BY <1>1, <2>1, <2>3, <2>4, <3>1, Zenon DEF InAt, Before, live
  <2>5. p < Len(v) => f = v[p + 1]
    BY <2>1, <2>2, TakeHead, Zenon
  <2>6. ASSUME rd = "data" PROVE InAt("deliver", <<g[1], f>>, d, Tail(s), cn, r, L)
    <3>1. At("data", g, Len(d), v, k, r, p)
      BY <2>1, <2>6, Zenon
    <3>2. p < Len(v) /\ At("deliver", <<g[1], f>>, Len(d), v, k, r, p + 1)
      BY <2>1, <2>2, <2>5, <3>1, ReaderMoves, Zenon
    <3> QED
      BY <2>4, <3>2, Zenon
  <2>7. ASSUME rd = "decode", p < Len(v)
        PROVE  /\ ~Unmarshals(f) => InAt("decode", g, d, Tail(s), cn, r, L)
               /\ Unmarshals(f) /\ IsSync(f) => InAt("data", <<f, NoMsg>>, d, Tail(s), cn, r, L)
               /\ Unmarshals(f) /\ ~IsSync(f) => InAt("deliver", <<f, NoMsg>>, d, Tail(s), cn, r, L)
    <3>1. At("decode", g, Len(d), v, k, r, p)
      BY <2>1, <2>7, Zenon
    <3>2. /\ ~Unmarshals(f) => At("decode", g, Len(d), v, k, r, p + 1)
          /\ Unmarshals(f) /\ IsSync(f) => At("data", <<f, NoMsg>>, Len(d), v, k, r, p + 1)
          /\ Unmarshals(f) /\ ~IsSync(f) => At("deliver", <<f, NoMsg>>, Len(d), v, k, r, p + 1)
      BY <2>1, <2>2, <2>5, <2>7, <3>1, ReaderMoves, Zenon
    <3> QED
      BY <2>4, <2>7, <3>2, Zenon
  <2>9. p = Len(v) => L # NoMsg /\ Lead(f)
    BY <2>1, <2>2, TakeHead, Zenon
  <2>8. ASSUME rd = "decode", p = Len(v) PROVE ~Unmarshals(f) /\ Behind(d, r, L)
    <3>1. L # NoMsg /\ Lead(f)
      BY <2>8, <2>9, Zenon
    <3>2. ~Unmarshals(f)
      BY <3>1, Zenon DEF Unmarshals, Lead, Ambiguous
    <3>3. k[p] = Len(d) /\ k[Len(v)] = Len(r)
      BY <2>1, <2>8, Zenon DEF At, Log, Ranked
    <3>4. Len(d) >= Len(r)
      BY <2>8, <3>3
    <3> QED
      BY <3>1, <3>2, <3>4, Zenon DEF Behind
  <2> QED
    BY <1>2, <1>3, <2>2, <2>6, <2>7, <2>8, Zenon
<1>4. rd \in {"decode", "data"} => Before(rd, g, d, s, cn, r, L) \/ Behind(d, r, L)
  <2>1. rd \in {"decode", "data"} => rd # "quit"
    BY Zenon
  <2> QED
    BY <2>1, Zenon DEF InAt
<1> QED
  BY <1>2, <1>3, <1>4, Zenon

LEMMA InDelivers ==
  ASSUME NEW g \in Packets, NEW d \in Seq(Packets), NEW s, NEW cn, NEW h,
         NEW r \in Seq(InMsgs), NEW L, InAt("deliver", g, d, s, cn, r, L)
  PROVE  InAt("decode", h, Append(d, g), s, cn, r, L)
<1> DEFINE live == cn \in {"open", "stalled"}
           n == Len(d)
           e == Append(d, g)
<1>1. /\ Len(e) = n + 1 /\ n \in Nat /\ Len(r) \in Nat /\ e[n + 1] = g
      /\ \A i \in 1..n : e[i] = d[i]
  OBVIOUS
<1>2. \A i \in 1..n : i <= Len(r) => d[i] = Packet(r[i])
  BY Zenon DEF InAt, Done
<1>3. Before("deliver", g, d, s, cn, r, L) \/ Behind(d, r, L)
  <2>1. "deliver" # "quit"
    BY Zenon
  <2> QED
    BY <2>1, Zenon DEF InAt
<1> HIDE DEF n, e
<1>4. \A i \in 1..Len(e) : i \in 1..n \/ i = n + 1
  BY <1>1
<1>5. CASE Behind(d, r, L)
  <2>1. L # NoMsg /\ n >= Len(r)
    BY <1>5, Zenon DEF Behind, n
  <2>2. Len(e) >= Len(r) /\ ~(n + 1 <= Len(r))
    BY <1>1, <2>1
  <2>3. Done(e, r, L)
    BY <1>1, <1>2, <1>4, <2>1, <2>2, Zenon DEF Done
  <2> QED
    BY <2>1, <2>2, <2>3, Zenon DEF InAt, Behind, e
<1>6. CASE Before("deliver", g, d, s, cn, r, L)
  <2>1. PICK v, k, p : Log(v, k, r) /\ Segment(s, live, L, v, p) /\ At("deliver", g, n, v, k, r, p)
    BY <1>6, Zenon DEF Before, n
  <2>2. p \in Nat /\ n + 1 \in 1..Len(r) /\ g = Packet(r[n + 1])
    BY <2>1 DEF At, Log
  <2>3. At("decode", h, n + 1, v, k, r, p)
    BY <2>1, <2>2, ReaderMoves, Zenon
  <2>4. At("decode", h, Len(e), v, k, r, p)
    BY <1>1, <2>3, Zenon
  <2>5. Len(e) <= Len(r)
    BY <1>1, <2>2
  <2>6. Done(e, r, L)
    BY <1>1, <1>2, <1>4, <2>2, <2>5, Zenon DEF Done
  <2>7. Before("decode", h, e, s, cn, r, L)
    BY <2>1, <2>4, <2>5, Zenon DEF Before
  <2> QED
    BY <2>6, <2>7, Zenon DEF InAt, e
<1> QED
  BY <1>3, <1>5, <1>6, Zenon

\* The reader is started or quits; the connection stalls, or breaks and loses frames.
LEMMA InChanges ==
  ASSUME NEW rd, NEW g, NEW d \in Seq(Packets), NEW s \in Seq(Frames(InMsgs)), NEW cn,
         NEW r \in Seq(InMsgs), NEW L, InAt(rd, g, d, s, cn, r, L)
  PROVE  /\ rd = "none" => InAt("decode", g, d, s, cn, r, L)
         /\ \A s2, cn2 : InAt("quit", g, d, s2, cn2, r, L)
         /\ cn = "open" => InAt(rd, g, d, s, "stalled", r, L)
         /\ \A j \in 0..Len(s), cn2 \in {"broken", "closed"} :
              InAt(rd, g, d, SubSeq(s, 1, j), cn2, r, L)
<1>0. /\ Done(d, r, L)
      /\ rd # "quit" => Before(rd, g, d, s, cn, r, L) \/ Behind(d, r, L)
  BY Zenon DEF InAt
<1>1. ASSUME rd = "none" PROVE InAt("decode", g, d, s, cn, r, L)
  <2>1. ASSUME Before(rd, g, d, s, cn, r, L) PROVE Before("decode", g, d, s, cn, r, L)
    <3>1. PICK v, k, p : /\ Log(v, k, r) /\ Segment(s, cn \in {"open", "stalled"}, L, v, p)
                         /\ At(rd, g, Len(d), v, k, r, p)
      BY <2>1, Zenon DEF Before
    <3>2. At("decode", g, Len(d), v, k, r, p)
      BY <1>1, <3>1, Zenon DEF At
    <3> QED
      BY <2>1, <3>1, <3>2, Zenon DEF Before
  <2> QED
    BY <1>0, <1>1, <2>1, Zenon DEF InAt
<1>2. ASSUME NEW s2, NEW cn2 PROVE InAt("quit", g, d, s2, cn2, r, L)
  BY <1>0, Zenon DEF InAt
<1>3. ASSUME cn = "open" PROVE InAt(rd, g, d, s, "stalled", r, L)
  <2>1. cn \in {"open", "stalled"} /\ "stalled" \in {"open", "stalled"}
    BY <1>3, Zenon
  <2> QED
    BY <1>0, <2>1, Zenon DEF InAt, Before, Segment
<1>4. ASSUME NEW j \in 0..Len(s), NEW cn2 \in {"broken", "closed"}
      PROVE  InAt(rd, g, d, SubSeq(s, 1, j), cn2, r, L)
  <2>1. ASSUME Before(rd, g, d, s, cn, r, L) PROVE Before(rd, g, d, SubSeq(s, 1, j), cn2, r, L)
    <3>1. PICK v, k, p : /\ Log(v, k, r) /\ Segment(s, cn \in {"open", "stalled"}, L, v, p)
                         /\ At(rd, g, Len(d), v, k, r, p)
      BY <2>1, Zenon DEF Before
    <3>2. p \in 0..Len(v) /\ Len(v) \in Nat
      BY <3>1 DEF At, Log
    <3>3. Segment(SubSeq(s, 1, j), FALSE, L, v, p)
      BY <3>1, <3>2, TakeHead, Zenon
    <3>4. ~(cn2 \in {"open", "stalled"})
      BY Zenon
    <3>5. Segment(SubSeq(s, 1, j), cn2 \in {"open", "stalled"}, L, v, p)
      BY <3>3, <3>4, Zenon DEF Segment
    <3> QED
      BY <2>1, <3>1, <3>5, Zenon DEF Before
  <2> QED
    BY <1>0, <2>1, Zenon DEF InAt
<1> QED
  BY <1>1, <1>2, <1>3, <1>4, Zenon

\* The wire of a connection that is lost, or that becomes it, grows.
LEMMA LostGrows ==
  ASSUME NEW s \in Seq(Frames(InMsgs)), NEW v, Len(v) \in Nat, NEW p \in 0..Len(v), NEW L,
         Segment(s, TRUE, L, v, p), NEW x \in InMsgs, L # NoMsg \/ x \in Ambiguous, NEW L2,
         L2 # NoMsg
  PROVE  Segment(s \o FramesOf(x), TRUE, L2, v, p)
<1> DEFINE F == FramesOf(x)
           t == s \o F
<1>1. F \in Seq(Frames(InMsgs)) /\ Len(F) \in Nat /\ Len(F) >= 1 /\ F[1] = <<"msg", x>>
  <2>1. F \in Seq(Frames(InMsgs))
    BY FramesOfType, Zenon
  <2> QED
    BY <2>1 DEF FramesOf
<1> HIDE DEF F
<1>2. /\ Len(t) = Len(s) + Len(F) /\ Len(s) \in Nat
      /\ \A i \in 1..Len(s) : t[i] = s[i]
      /\ \A i \in 1..Len(F) : t[Len(s) + i] = F[i]
  BY <1>1
<1> HIDE DEF t
<1>3. /\ \A i \in 1..Len(s) : p + i <= Len(v) => s[i] = v[p + i]
      /\ p + Len(s) > Len(v) => L # NoMsg /\ Lead(s[(Len(v) - p) + 1])
      /\ IF L # NoMsg THEN p + Len(s) > Len(v) ELSE p + Len(s) = Len(v)
      /\ p \in Nat /\ p <= Len(v)
  BY DEF Segment
<1>4. ASSUME NEW i \in 1..Len(t), p + i <= Len(v) PROVE t[i] = v[p + i]
  <2>1. i \in 1..Len(s)
    BY <1>2, <1>3, <1>4
  <2> QED
    BY <1>2, <1>3, <1>4, <2>1, Zenon
<1>5. p + Len(t) > Len(v)
  BY <1>1, <1>2, <1>3
<1>6. Lead(t[(Len(v) - p) + 1])
  <2>1. CASE L # NoMsg
    <3>1. (Len(v) - p) + 1 \in 1..Len(s)
      BY <1>2, <1>3, <2>1
    <3> QED
      BY <1>2, <1>3, <2>1, <3>1, Zenon
  <2>2. CASE L = NoMsg
    <3>1. (Len(v) - p) + 1 = Len(s) + 1 /\ 1 \in 1..Len(F)
      BY <1>1, <1>2, <1>3, <2>2
    <3>2. t[(Len(v) - p) + 1] = <<"msg", x>>
      BY <1>1, <1>2, <3>1, Zenon
    <3>3. Lead(<<"msg", x>>)
      BY <2>2 DEF Lead
    <3> QED
      BY <3>2, <3>3, Zenon
  <2> QED
    BY <2>1, <2>2, Zenon
<1> QED
  BY <1>4, <1>5, <1>6, Zenon DEF Segment, F, t

\* The remote sends a message.
LEMMA InGrows ==
  ASSUME NEW rd, NEW g, NEW d \in Seq(Packets), NEW s \in Seq(Frames(InMsgs)),
         NEW cn \in {"open", "stalled"}, NEW r \in Seq(InMsgs), NEW L,
         InAt(rd, g, d, s, cn, r, L), NEW x \in InMsgs,
         NEW r2, r2 = IF x \in Malformed \/ L # NoMsg THEN r ELSE Append(r, x),
         NEW L2, L2 = NoMsg <=> L = NoMsg /\ x \notin Ambiguous
  PROVE  InAt(rd, g, d, s \o FramesOf(x), cn, r2, L2)
<1> DEFINE live == cn \in {"open", "stalled"}
<1>0. /\ Done(d, r, L)
      /\ rd # "quit" => Before(rd, g, d, s, cn, r, L) \/ Behind(d, r, L)
  BY Zenon DEF InAt
<1>1. CASE L2 # NoMsg
  <2>1. r2 = r
    BY <1>1, Zenon DEF Ambiguous
  <2>2. Done(d, r2, L2)
    BY <1>0, <1>1, <2>1, Zenon DEF Done
  <2>3. Behind(d, r, L) => Behind(d, r2, L2)
    BY <1>1, <2>1, Zenon DEF Behind
  <2>4. ASSUME Before(rd, g, d, s, cn, r, L) PROVE Before(rd, g, d, s \o FramesOf(x), cn, r2, L2)
    <3>1. PICK v, k, p : /\ Log(v, k, r) /\ Segment(s, live, L, v, p)
                         /\ At(rd, g, Len(d), v, k, r, p)
      BY <2>4, Zenon DEF Before
    <3>2. p \in 0..Len(v) /\ Len(v) \in Nat
      BY <3>1 DEF At, Log
    <3>3. Segment(s, TRUE, L, v, p)
      BY <3>1, Zenon DEF Segment
    <3>4. Segment(s \o FramesOf(x), TRUE, L2, v, p)
      BY <1>1, <3>2, <3>3, LostGrows, Zenon
    <3>5. Segment(s \o FramesOf(x), live, L2, v, p)
      BY <1>1, <3>4, Zenon DEF Segment
    <3> QED
      BY <2>1, <2>4, <3>1, <3>5, Zenon DEF Before
  <2> QED
    BY <1>0, <2>2, <2>3, <2>4, Zenon DEF InAt
<1>2. CASE L2 = NoMsg
  <2>0. L = NoMsg /\ x \in InMsgs \ Ambiguous /\ r2 = IF x \in Malformed THEN r ELSE Append(r, x)
    BY <1>2, Zenon
  <2>1. Len(d) \in Nat /\ Len(r) \in Nat /\ Len(r2) \in Nat /\ Len(r) <= Len(r2)
        /\ \A i \in 1..Len(r) : r2[i] = r[i]
    <3>1. CASE x \in Malformed
      BY <2>0, <3>1
    <3>2. CASE x \notin Malformed
      BY <2>0, <3>2
    <3> QED
      BY <3>1, <3>2, Zenon
  <2>2. Len(d) <= Len(r) /\ \A i \in 1..Len(d) : i <= Len(r) => d[i] = Packet(r[i])
    BY <1>0, <2>0, Zenon DEF Done
  <2>3. Len(d) <= Len(r2) /\ \A i \in 1..Len(d) : i <= Len(r) /\ i \in 1..Len(r)
    BY <2>1, <2>2
  <2>4. Done(d, r2, L2)
    BY <2>1, <2>2, <2>3, Zenon DEF Done
  <2>5. ~Behind(d, r, L)
    BY <2>0, Zenon DEF Behind
  <2>6. ASSUME Before(rd, g, d, s, cn, r, L) PROVE Before(rd, g, d, s \o FramesOf(x), cn, r2, L2)
    <3>1. PICK v, k, p : /\ Log(v, k, r) /\ Segment(s, live, L, v, p)
                         /\ At(rd, g, Len(d), v, k, r, p)
      BY <2>6, Zenon DEF Before
    <3>2. Segment(s, TRUE, NoMsg, v, p)
      BY <2>0, <3>1, Zenon DEF Segment
    <3>3. PICK v2, k2 : Log(v2, k2, r2) /\ Longer(v, k, r, FramesOf(x), v2, k2, r2)
      BY <2>0, <3>1, LogGrows, Zenon
    <3>4. Segment(s \o FramesOf(x), TRUE, NoMsg, v2, p) /\ At(rd, g, Len(d), v2, k2, r2, p)
      BY <2>1, <3>1, <3>2, <3>3, MoreComes, Zenon
    <3>5. Segment(s \o FramesOf(x), live, L2, v2, p)
      BY <1>2, <3>4, Zenon DEF Segment
    <3> QED
      BY <2>3, <3>3, <3>4, <3>5, Zenon DEF Before
  <2> QED
    BY <1>0, <2>4, <2>5, <2>6, Zenon DEF InAt
<1> QED
  BY <1>1, <1>2, Zenon

inVars == <<read, got, delivered, inwire, conn, rsent, lost>>

\* A step that leaves a connection alone.
LEMMA Untouched ==
  ASSUME InboundInv, NEW e \in Conns,
         read'[e] = read[e], got'[e] = got[e], delivered'[e] = delivered[e],
         inwire'[e] = inwire[e], conn'[e] = conn[e], rsent'[e] = rsent[e],
         lost'[e] = lost[e]
  PROVE  InAt(read[e], got[e], delivered[e], inwire[e], conn[e], rsent[e], lost[e])'
BY Zenon DEF InboundInv

\* The types of one connection.
LEMMA OfConn ==
  ASSUME IInv, NEW c \in Conns
  PROVE  /\ got[c] \in Packets /\ delivered[c] \in Seq(Packets) /\ rsent[c] \in Seq(InMsgs)
         /\ inwire[c] \in Seq(Frames(InMsgs))
<1>1. /\ got \in [Conns -> Packets] /\ delivered \in [Conns -> Seq(Packets)]
      /\ rsent \in [Conns -> Seq(InMsgs)] /\ inwire \in [Conns -> Seq(Frames(InMsgs))]
  BY Zenon DEF IInv, TypeOK
<1> QED
  BY <1>1, Zenon

\* A step that changes one connection only.
OnlyAt(c) ==
  \A e \in Conns \ {c} :
    /\ read'[e] = read[e] /\ got'[e] = got[e] /\ delivered'[e] = delivered[e]
    /\ inwire'[e] = inwire[e] /\ conn'[e] = conn[e] /\ rsent'[e] = rsent[e]
    /\ lost'[e] = lost[e]

LEMMA InOne ==
  ASSUME InboundInv, NEW c \in Conns, OnlyAt(c),
         InAt(read[c], got[c], delivered[c], inwire[c], conn[c], rsent[c], lost[c])'
  PROVE  InboundInv'
<1>1. ASSUME NEW e \in Conns PROVE InAt(read[e], got[e], delivered[e], inwire[e], conn[e], rsent[e], lost[e])'
  <2>1. CASE e = c
    BY <2>1, Zenon
  <2>2. CASE e # c
    BY <2>2, Untouched, Zenon DEF OnlyAt
  <2> QED
    BY <2>1, <2>2, Zenon
<1> QED
  BY <1>1, Zenon DEF InboundInv

\* The read goroutines.
LEMMA ReadInbound ==
  ASSUME IInv, InboundInv, NEW c \in Conns, ReadStep(c) PROVE InboundInv'
<1>0. /\ got[c] \in Packets /\ delivered[c] \in Seq(Packets) /\ rsent[c] \in Seq(InMsgs)
      /\ inwire[c] \in Seq(Frames(InMsgs))
      /\ InAt(read[c], got[c], delivered[c], inwire[c], conn[c], rsent[c], lost[c])
  BY OfConn, Zenon DEF InboundInv
<1>1. /\ read \in [Conns -> ReadPC] /\ got \in [Conns -> Packets]
      /\ delivered \in [Conns -> Seq(Packets)] /\ inwire \in [Conns -> Seq(Frames(InMsgs))]
  BY Zenon DEF IInv, TypeOK
<1>2. CASE Decode(c)
  <2> DEFINE f == Head(inwire[c])
  <2>1. /\ read[c] = "decode" /\ inwire[c] # <<>> /\ UNCHANGED <<conn, rsent, lost, delivered>>
        /\ inwire' = [inwire EXCEPT ![c] = Tail(@)]
        /\ \/ ~Unmarshals(f) /\ UNCHANGED <<read, got>>
           \/ /\ Unmarshals(f) /\ got' = [got EXCEPT ![c] = <<f, NoMsg>>]
              /\ read' = [read EXCEPT ![c] = IF IsSync(f) THEN "data" ELSE "deliver"]
    BY <1>2, Zenon DEF Decode
  <2> DEFINE Now(rd, g) == InAt(rd, g, delivered[c], Tail(inwire[c]), conn[c], rsent[c], lost[c])
  <2>2. /\ ~Unmarshals(f) => Now("decode", got[c])
        /\ Unmarshals(f) /\ IsSync(f) => Now("data", <<f, NoMsg>>)
        /\ Unmarshals(f) /\ ~IsSync(f) => Now("deliver", <<f, NoMsg>>)
    BY <1>0, <2>1, InReads, Zenon
  <2> HIDE DEF f, Now
  <2>3. /\ OnlyAt(c) /\ inwire'[c] = Tail(inwire[c])
        /\ \/ ~Unmarshals(f) /\ UNCHANGED <<read, got>>
           \/ Unmarshals(f) /\ IsSync(f) /\ got'[c] = <<f, NoMsg>> /\ read'[c] = "data"
           \/ Unmarshals(f) /\ ~IsSync(f) /\ got'[c] = <<f, NoMsg>> /\ read'[c] = "deliver"
    BY <1>1, <2>1, Zenon DEF OnlyAt
  <2>4. InAt(read[c], got[c], delivered[c], inwire[c], conn[c], rsent[c], lost[c])'
    BY <2>1, <2>2, <2>3, Zenon DEF Now
  <2> QED
    BY <2>3, <2>4, InOne, Zenon
<1>3. CASE DecodeData(c)
  <2> DEFINE x == Head(inwire[c])
             y == got[c][1]
  <2>1. /\ read[c] = "data" /\ inwire[c] # <<>> /\ UNCHANGED <<conn, rsent, lost, delivered>>
        /\ inwire' = [inwire EXCEPT ![c] = Tail(@)] /\ read' = [read EXCEPT ![c] = "deliver"]
        /\ got' = [got EXCEPT ![c] = <<y, x>>]
    BY <1>3, Zenon DEF DecodeData
  <2>2. InAt("deliver", <<y, x>>, delivered[c], Tail(inwire[c]), conn[c], rsent[c], lost[c])
    BY <1>0, <2>1, InReads, Zenon
  <2> HIDE DEF x, y
  <2>3. /\ OnlyAt(c) /\ inwire'[c] = Tail(inwire[c])
        /\ got'[c] = <<y, x>> /\ read'[c] = "deliver"
    BY <1>1, <2>1 DEF OnlyAt
  <2>4. InAt(read[c], got[c], delivered[c], inwire[c], conn[c], rsent[c], lost[c])'
    BY <2>1, <2>2, <2>3, Zenon
  <2> QED
    BY <2>3, <2>4, InOne, Zenon
<1>4. CASE Deliver(c)
  <2> DEFINE h == <<NoMsg, NoMsg>>
  <2>1. /\ read[c] = "deliver" /\ UNCHANGED <<conn, rsent, lost, inwire>>
        /\ delivered' = [delivered EXCEPT ![c] = Append(@, got[c])]
        /\ got' = [got EXCEPT ![c] = h] /\ read' = [read EXCEPT ![c] = "decode"]
    BY <1>4, Zenon DEF Deliver, netVars
  <2> HIDE DEF h
  <2>2. InAt("decode", h, Append(delivered[c], got[c]), inwire[c], conn[c], rsent[c], lost[c])
    BY <1>0, <2>1, InDelivers, Zenon
  <2>3. /\ OnlyAt(c) /\ delivered'[c] = Append(delivered[c], got[c])
        /\ got'[c] = h /\ read'[c] = "decode"
    BY <1>1, <2>1, Zenon DEF OnlyAt
  <2>4. InAt(read[c], got[c], delivered[c], inwire[c], conn[c], rsent[c], lost[c])'
    BY <2>1, <2>2, <2>3, Zenon
  <2> QED
    BY <2>3, <2>4, InOne, Zenon
<1>5. CASE Reject(c) \/ ReadFail(c) \/ DeliverAbort(c)
  <2>1. /\ UNCHANGED <<got, delivered, conn, rsent, lost>> /\ read' = [read EXCEPT ![c] = "quit"]
        /\ inwire' = inwire \/ inwire' = [inwire EXCEPT ![c] = Tail(@)]
    BY <1>5, Zenon DEF Reject, ReadFail, DeliverAbort, CloseReader, netVars
  <2>2. OnlyAt(c) /\ read'[c] = "quit"
    BY <1>1, <2>1, Zenon DEF OnlyAt
  <2>3. \A s2, cn2 : InAt("quit", got[c], delivered[c], s2, cn2, rsent[c], lost[c])
    BY <1>0, InChanges, Zenon
  <2>4. InAt(read[c], got[c], delivered[c], inwire[c], conn[c], rsent[c], lost[c])'
    BY <2>1, <2>2, <2>3, Zenon
  <2> QED
    BY <2>2, <2>4, InOne, Zenon
<1> QED
  BY <1>2, <1>3, <1>4, <1>5, Zenon DEF ReadStep

\* The network, and the callers that close their connections.
LEMMA NetInbound ==
  ASSUME IInv, InboundInv, NEW c \in Conns, NetStep(c) \/ CloseConn(c) PROVE InboundInv'
<1>0. /\ delivered[c] \in Seq(Packets) /\ rsent[c] \in Seq(InMsgs)
      /\ inwire[c] \in Seq(Frames(InMsgs))
      /\ InAt(read[c], got[c], delivered[c], inwire[c], conn[c], rsent[c], lost[c])
  BY OfConn, Zenon DEF InboundInv
<1>1. /\ conn \in [Conns -> {"open", "stalled", "broken", "closed"}]
      /\ inwire \in [Conns -> Seq(Frames(InMsgs))] /\ rsent \in [Conns -> Seq(InMsgs)]
  BY Zenon DEF IInv, TypeOK
<1>2. UNCHANGED <<read, got, delivered>>
  BY Zenon DEF NetStep, Fault, Stall, RemoteSend, CloseConn, readVars
<1>3. CASE Fault(c) \/ CloseConn(c)
  <2>1. PICK cn \in {"broken", "closed"}, j \in 0..Len(inwire[c]) :
          /\ conn' = [conn EXCEPT ![c] = cn] /\ rsent' = rsent /\ lost' = lost
          /\ inwire' = [inwire EXCEPT ![c] = SubSeq(@, 1, j)]
    BY <1>3, Zenon DEF Fault, CloseConn
  <2>2. InAt(read[c], got[c], delivered[c], SubSeq(inwire[c], 1, j), cn, rsent[c], lost[c])
    BY <1>0, InChanges, Zenon
  <2>3. OnlyAt(c) /\ inwire'[c] = SubSeq(inwire[c], 1, j) /\ conn'[c] = cn
    BY <1>1, <1>2, <2>1, Zenon DEF OnlyAt
  <2>4. InAt(read[c], got[c], delivered[c], inwire[c], conn[c], rsent[c], lost[c])'
    BY <1>2, <2>1, <2>2, <2>3, Zenon
  <2> QED
    BY <2>3, <2>4, InOne, Zenon
<1>4. CASE Stall(c)
  <2>1. conn[c] = "open" /\ conn' = [conn EXCEPT ![c] = "stalled"] /\ UNCHANGED <<inwire, rsent, lost>>
    BY <1>4, Zenon DEF Stall
  <2>2. InAt(read[c], got[c], delivered[c], inwire[c], "stalled", rsent[c], lost[c])
    BY <1>0, <2>1, InChanges, Zenon
  <2>3. OnlyAt(c) /\ conn'[c] = "stalled"
    BY <1>1, <1>2, <2>1, Zenon DEF OnlyAt
  <2>4. InAt(read[c], got[c], delivered[c], inwire[c], conn[c], rsent[c], lost[c])'
    BY <1>2, <2>1, <2>2, <2>3, Zenon
  <2> QED
    BY <2>3, <2>4, InOne, Zenon
<1>5. ASSUME NEW x \in InMsgs, RemoteSend(c, x) PROVE InboundInv'
  <2> DEFINE r2 == IF x \in Malformed \/ lost[c] # NoMsg THEN rsent[c] ELSE Append(rsent[c], x)
  <2>1. /\ conn[c] \in {"open", "stalled"} /\ conn' = conn
        /\ inwire' = [inwire EXCEPT ![c] = @ \o FramesOf(x)]
        /\ rsent' = IF x \in Malformed \/ lost[c] # NoMsg THEN rsent ELSE [rsent EXCEPT ![c] = Append(@, x)]
        /\ lost' = IF x \in Ambiguous /\ lost[c] = NoMsg THEN [lost EXCEPT ![c] = x] ELSE lost
    BY <1>5, Zenon DEF RemoteSend, Ambiguous
  <2>0. /\ (lost'[c] = NoMsg <=> lost[c] = NoMsg /\ x \notin Ambiguous)
        /\ \A e \in Conns \ {c} : lost'[e] = lost[e]
    <3>1. lost \in [Conns -> InMsgs \cup {NoMsg}] /\ x # NoMsg
      BY ChannelConstants, Zenon DEF IInv, TypeOK
    <3> QED
      BY <2>1, <3>1, Zenon
  <2>2. InAt(read[c], got[c], delivered[c], inwire[c] \o FramesOf(x), conn[c], r2, lost'[c])
    <3> DEFINE L2 == lost'[c]
               L  == lost[c]
               cn == conn[c]
    <3>1. /\ r2 = IF x \in Malformed \/ L # NoMsg THEN rsent[c] ELSE Append(rsent[c], x)
          /\ L2 = NoMsg <=> L = NoMsg /\ x \notin Ambiguous
          /\ cn \in {"open", "stalled"}
          /\ InAt(read[c], got[c], delivered[c], inwire[c], cn, rsent[c], L)
      BY <1>0, <2>0, <2>1, Zenon
    <3> HIDE DEF r2, L, L2, cn
    <3>2. InAt(read[c], got[c], delivered[c], inwire[c] \o FramesOf(x), cn, r2, L2)
      BY <1>0, <3>1, InGrows, Zenon
    <3> QED
      BY <3>2, Zenon DEF L2, cn
  <2>3. rsent'[c] = r2 /\ \A e \in Conns \ {c} : rsent'[e] = rsent[e]
    BY <1>1, <2>1, Zenon
  <2>4. inwire'[c] = inwire[c] \o FramesOf(x) /\ \A e \in Conns \ {c} : inwire'[e] = inwire[e]
    BY <1>1, <2>1, Zenon
  <2> HIDE DEF r2
  <2>5. InAt(read[c], got[c], delivered[c], inwire[c], conn[c], rsent[c], lost[c])'
    BY <1>2, <2>1, <2>2, <2>3, <2>4, Zenon
  <2>6. OnlyAt(c)
    BY <1>2, <2>0, <2>1, <2>3, <2>4, Zenon DEF OnlyAt
  <2> QED
    BY <2>5, <2>6, InOne, Zenon
<1> QED
  BY <1>3, <1>4, <1>5, Zenon DEF NetStep

\* Every step keeps the messages of every connection in order.
LEMMA InboundStep == IInv /\ InboundInv /\ [Next]_vars => InboundInv'
<1> SUFFICES ASSUME IInv, InboundInv, [Next]_vars PROVE InboundInv'
  BY Zenon
<1>1. CASE ReadLoopReplace
  <2>0. PICK c \in Conns : readers = c
    BY <1>1, Zenon DEF ReadLoopReplace, IInv, TypeOK
  <2>1. read[c] = "none" /\ read \in [Conns -> ReadPC]
    BY <2>0, Zenon DEF IInv, TypeOK, ReaderInv
  <2>2. read' = [read EXCEPT ![c] = "decode"] /\ UNCHANGED <<got, delivered, inwire, conn, rsent, lost>>
    BY <1>1, <2>0, Zenon DEF ReadLoopReplace, netVars
  <2>3. OnlyAt(c) /\ read'[c] = "decode"
    BY <2>1, <2>2, Zenon DEF OnlyAt
  <2>4. InAt("decode", got[c], delivered[c], inwire[c], conn[c], rsent[c], lost[c])
    <3>1. /\ delivered[c] \in Seq(Packets) /\ rsent[c] \in Seq(InMsgs)
          /\ inwire[c] \in Seq(Frames(InMsgs))
          /\ InAt(read[c], got[c], delivered[c], inwire[c], conn[c], rsent[c], lost[c])
      BY <2>1, OfConn, Zenon DEF InboundInv
    <3> QED
      BY <2>1, <3>1, InChanges, Zenon
  <2>5. InAt(read[c], got[c], delivered[c], inwire[c], conn[c], rsent[c], lost[c])'
    BY <2>2, <2>3, <2>4, Zenon
  <2> QED
    BY <2>1, <2>3, <2>5, InOne, Zenon
<1>2. CASE \E c \in Conns : ReadStep(c) \/ NetStep(c) \/ CloseConn(c)
  BY <1>2, ReadInbound, NetInbound, Zenon
<1>3. CASE \/ Run \/ Stop \/ ReadLoopExit \/ WriteLoopStep \/ UNCHANGED vars
           \/ \E msg \in OutMsgs : Send(msg)
           \/ \E c \in Conns : AttachStep(c) /\ ~CloseConn(c)
  <2>1. UNCHANGED inVars
    <3>1. CASE Run \/ Stop \/ ReadLoopExit \/ UNCHANGED vars \/ \E msg \in OutMsgs : Send(msg)
      BY <3>1, Zenon DEF Run, Stop, ReadLoopExit, Send, vars, readVars, netVars, inVars
    <3>2. CASE WriteLoopStep
      BY <3>2, Zenon DEF WriteLoopStep, WriteLoopReplace, WriteLoopExit, TakeMsg, WriteFrame,
         WriteFail, readVars, netVars, inVars
    <3>3. ASSUME NEW c \in Conns, AttachStep(c), ~CloseConn(c) PROVE UNCHANGED inVars
      BY <3>3, Zenon DEF AttachStep, AttachStart, AttachReader, AttachWriter, AttachWaitReader,
         AttachWaitWriter, AttachCancel, readVars, netVars, inVars
    <3> QED
      BY <1>3, <3>1, <3>2, <3>3, Zenon
  <2> QED
    BY <2>1, Zenon DEF InboundInv, inVars
<1> QED
  BY <1>1, <1>2, <1>3, Zenon DEF Next, ReadLoopStep

\* The packets a connection delivers are those the remote sent on it, in order and each
\* with its own data, however long it drains and whatever a fault cut off
\* (InboundInOrder).
THEOREM InboundInOrderHolds == Spec => []InboundInOrder
<1>1. Init => InboundInv
  <2> SUFFICES ASSUME Init, NEW c \in Conns
      PROVE  InAt(read[c], got[c], delivered[c], inwire[c], conn[c], rsent[c], lost[c])
    BY Zenon DEF InboundInv
  <2>1. /\ read[c] = "none" /\ delivered[c] = <<>> /\ inwire[c] = <<>> /\ rsent[c] = <<>>
        /\ lost[c] = NoMsg
    BY Zenon DEF Init
  <2> DEFINE e == <<>>
             k == [i \in 0..0 |-> 0]
  <2>2. /\ Len(e) = 0 /\ 1..0 = {} /\ k \in [0..0 -> Nat] /\ k[0] = 0 /\ e \in Seq(Frames(InMsgs))
        /\ 0 \in 0..0 /\ 0 + 0 = 0 /\ 0 <= 0 /\ ~(0 < 0) /\ ~(0 + 0 > 0) /\ 0 \in Nat
    OBVIOUS
  <2> HIDE DEF k
  <2>3. Log(e, k, e)
    BY <2>2, Zenon DEF Log, Shape, Dangles, Ends, Ranked
  <2>4. Segment(e, conn[c] \in {"open", "stalled"}, lost[c], e, 0)
    BY <2>1, <2>2, Zenon DEF Segment
  <2>5. At("none", got[c], Len(e), e, k, e, 0)
    BY <2>2, Zenon DEF At, Starts
  <2>6. Done(e, e, lost[c]) /\ Len(e) <= Len(e)
    BY <2>2, Zenon DEF Done
  <2> HIDE DEF e
  <2>7. InAt("none", got[c], e, e, conn[c], e, lost[c])
    BY <2>3, <2>4, <2>5, <2>6, Zenon DEF InAt, Before
  <2> QED
    BY <2>1, <2>7, Zenon DEF e
<1>2. InboundInv => InboundInOrder
  BY Zenon DEF InboundInv, InAt, Done, InboundInOrder
<1> QED
  BY <1>1, <1>2, Invariance, InboundStep, PTL DEF Spec

=============================================================================
