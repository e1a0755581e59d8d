------------------------------ MODULE Session ------------------------------
(* Both ends of a connection, from the ECIES handshake (handshake/ecies.go,*)
(* wrapped by Filter) to the frames of the session that it sets up         *)
(* (codec/gcm.go under codec/length_prefix.go, as transport.go stacks      *)
(* them).                                                                  *)
(*                                                                         *)
(* At each end one goroutine reads and one writes.  They share two channels*)
(* of one place, which the reader fills and closes when it returns, and    *)
(* errCh, which the writer closes.  The connection delivers in order until *)
(* it breaks; whoever called a handshake that failed closes its end.       *)
(* Encryption is by key: what is encrypted for an end, that end decrypts.  *)
EXTENDS Integers, Sequences

CONSTANTS
  Ends,       \* the two ends
  Signatory,  \* the signatory of each, a number: they compare by their bytes
  Silent,     \* ends that connect and then do nothing
  Sizes,      \* lengths of messages
  BufferCap,  \* the capacity of the buffer that they are decoded into
  Tag,        \* what Seal adds to a message (16)
  PrefixMod,  \* the numbers that the prefix of a message can hold (2^32)
  MaxFrames,  \* bound on the messages from each end
  MaxNonce,   \* the largest nonce (2^96 - 1)
  NoSecret

ASSUME TwoEnds == \E x, y \in Ends : x # y /\ Ends = {x, y}

ASSUME SessionConstants ==
  /\ Signatory \in [Ends -> Nat] /\ Silent \subseteq Ends
  /\ Sizes \subseteq Nat /\ BufferCap \in Nat /\ Tag \in Nat \ {0}
  /\ MaxFrames \in Nat /\ MaxNonce \in Nat \ {0}
  /\ PrefixMod \in Nat /\ BufferCap < PrefixMod

VARIABLES
  got,     \* what the reader has got: 1 the remote's key, 2 its secret, 3 the check
  ret,     \* the handshake: "run", or returned "ok" or "err"; after a session "closed" if a
           \* message was refused, "ended" if the connection failed
  secret,  \* the remote's secret that the reader has got
  put,     \* how many times the writer has written
  wr,      \* the writer: "run", "done", or "err" if it left an error in errCh
  stream,  \* what each end has written and the other has not read
  broken,  \* the connection has broken, or been closed
  amid,    \* ends that have written the prefix of their last message and not its body
  writeNonce, readNonce,  \* of the GCMSession of each end
  sent, received          \* history: messages written and decoded

hsVars == <<got, ret, secret, put, wr>>
gcmVars == <<writeNonce, readNonce>>
vars == <<hsVars, stream, broken, amid, gcmVars, sent, received>>

Peer(e) == CHOOSE f \in Ends : f # e

Init ==
  /\ got = [e \in Ends |-> 0] /\ ret = [e \in Ends |-> "run"]
  /\ secret = [e \in Ends |-> NoSecret]
  /\ put = [e \in Ends |-> 0] /\ wr = [e \in Ends |-> "run"]
  /\ stream = [e \in Ends |-> <<>>] /\ broken = FALSE /\ amid = {}
  /\ writeNonce = [e \in Ends |-> 0] /\ readNonce = [e \in Ends |-> 0]
  /\ sent = [e \in Ends |-> <<>>] /\ received = [e \in Ends |-> <<>>]

-----------------------------------------------------------------------------
(* The writer.                                                             *)

\* What the writer writes: its key in two halves, its own secret, and the remote's.
\* A secret goes by the name of the end that drew it.
Writes(e) == <<"x", "y", e, Peer(e)>>

\* The remote's key is needed from the third write on, its secret for the fourth.
Needs == <<0, 0, 1, 2>>

Write(e) ==
  /\ e \notin Silent /\ wr[e] = "run" /\ put[e] < 4 /\ got[e] >= Needs[put[e] + 1]
  /\ put' = [put EXCEPT ![e] = @ + 1]
  /\ stream' = [stream EXCEPT ![e] = Append(@, Writes(e)[put[e] + 1])]
  /\ wr' = [wr EXCEPT ![e] = IF put[e] = 3 THEN "done" ELSE "run"]
  /\ UNCHANGED <<got, ret, secret, broken, amid, gcmVars, sent, received>>

WriteFails(e) ==
  /\ broken /\ e \notin Silent /\ wr[e] = "run" /\ got[e] >= Needs[put[e] + 1]
  /\ wr' = [wr EXCEPT ![e] = "err"]
  /\ UNCHANGED <<got, ret, secret, put, stream, broken, amid, gcmVars, sent, received>>

\* Bug: the reader does not close its channels when it returns.
WriterClosed_Bug(e) == FALSE /\ UNCHANGED vars

\* The channel that the writer waits for is closed, and empty.
WriterClosed(e) ==
  /\ wr[e] = "run" /\ got[e] < Needs[put[e] + 1] /\ ret[e] # "run"
  /\ wr' = [wr EXCEPT ![e] = "done"]
  /\ UNCHANGED <<got, ret, secret, put, stream, broken, amid, gcmVars, sent, received>>

-----------------------------------------------------------------------------
(* The reader.                                                             *)

\* Bug: both ends count down from the largest nonce when they write.
NewGCMSession_Bug(e) ==
  /\ writeNonce' = [writeNonce EXCEPT ![e] = MaxNonce]
  /\ UNCHANGED readNonce

NewGCMSession(e) ==
  IF Signatory[e] < Signatory[Peer(e)]
  THEN writeNonce' = [writeNonce EXCEPT ![e] = MaxNonce] /\ UNCHANGED readNonce
  ELSE readNonce' = [readNonce EXCEPT ![e] = MaxNonce] /\ UNCHANGED writeNonce

\* The key comes in two writes; it must be complete.
ReadKey(e) ==
  /\ e \notin Silent /\ ret[e] = "run" /\ got[e] = 0 /\ Len(stream[Peer(e)]) >= 2
  /\ got' = [got EXCEPT ![e] = 1]
  /\ stream' = [stream EXCEPT ![Peer(e)] = SubSeq(@, 3, Len(@))]
  /\ UNCHANGED <<ret, secret, put, wr, broken, amid, gcmVars, sent, received>>

\* The remote's secret, and then the local one back from the remote.
ReadSecret(e) ==
  /\ ret[e] = "run" /\ got[e] \in {1, 2} /\ stream[Peer(e)] # <<>>
  /\ got' = [got EXCEPT ![e] = @ + 1]
  /\ stream' = [stream EXCEPT ![Peer(e)] = Tail(@)]
  /\ secret' = [secret EXCEPT ![e] = IF got[e] = 1 THEN Head(stream[Peer(e)]) ELSE @]
  /\ ret' = [ret EXCEPT ![e] = IF got[e] = 2 /\ Head(stream[Peer(e)]) # e THEN "err" ELSE "run"]
  /\ broken' = (broken \/ ret'[e] = "err")
  /\ UNCHANGED <<put, wr, amid, gcmVars, sent, received>>

\* The connection ends before, or amid, what is read next.
ReadFails(e) ==
  /\ broken /\ e \notin Silent /\ ret[e] = "run" /\ got[e] < 3
  /\ ret' = [ret EXCEPT ![e] = "err"]
  /\ UNCHANGED <<got, secret, put, wr, stream, broken, amid, gcmVars, sent, received>>

\* Filter: if the handshake has succeeded, a function given by the application judges
\* the remote.
Filter(e, succeeded) ==
  \E filtered \in BOOLEAN :
    ret' = [ret EXCEPT ![e] = IF succeeded /\ ~filtered THEN "ok" ELSE "err"]

\* Bug: the reader returns without waiting for the writer.
Join_Bug(e) ==
  /\ ret[e] = "run" /\ got[e] = 3
  /\ Filter(e, wr[e] # "err")
  /\ broken' = (broken \/ ret'[e] = "err")
  /\ IF wr[e] = "err" THEN UNCHANGED gcmVars ELSE NewGCMSession(e)
  /\ UNCHANGED <<got, secret, put, wr, stream, amid, sent, received>>

\* The reader waits for the writer, and takes its error if there is one.
Join(e) ==
  /\ ret[e] = "run" /\ got[e] = 3 /\ wr[e] # "run"
  /\ Filter(e, wr[e] = "done")
  /\ broken' = (broken \/ ret'[e] = "err")
  /\ IF wr[e] = "err" THEN UNCHANGED gcmVars ELSE NewGCMSession(e)
  /\ UNCHANGED <<got, secret, put, wr, stream, amid, sent, received>>

-----------------------------------------------------------------------------
(* The session.                                                            *)

\* The exclusive or of both secrets.
sessionKey(e) == {e, secret[e]}

\* next, succ and pred work on a copy of the nonce.
next(nonce) == nonce

\* Bug: the prefix is that of the sealed message.
Encode_Bug(e, n) ==
  [prefix |-> n + Tag, body |-> n + Tag, nonce |-> writeNonce[e], key |-> sessionKey(e)]

\* LengthPrefixEncoder over GCMEncoder: the prefix is the length of the message, as far
\* as it fits, and the body is longer by the tag.
Encode(e, n) ==
  [prefix |-> n % PrefixMod, body |-> n + Tag, nonce |-> writeNonce[e], key |-> sessionKey(e)]

\* The prefix of a message and its body are two writes.
SendPrefix(e) ==
  /\ ret[e] = "ok" /\ e \notin amid /\ Len(sent[e]) < MaxFrames
  /\ amid' = amid \cup {e}
  /\ \E n \in Sizes :
       /\ stream' = [stream EXCEPT ![e] = Append(@, Encode(e, n))]
       /\ sent' = [sent EXCEPT ![e] = Append(@, n)]
  /\ UNCHANGED <<hsVars, broken, gcmVars, received>>

SendBody(e) ==
  /\ ret[e] = "ok" /\ e \in amid
  /\ amid' = amid \ {e}
  /\ writeNonce' = [writeNonce EXCEPT ![e] = next(@)]
  /\ UNCHANGED <<hsVars, stream, broken, readNonce, sent, received>>

\* What is read next from an end has its body.
HasBody(e) == e \notin amid \/ Len(stream[e]) > 1

\* LengthPrefixDecoder and GCMDecoder: the prefix must not exceed the buffer, and the
\* buffer must have room for the tag.
Fits(prefix) == prefix <= BufferCap /\ prefix + Tag <= BufferCap

\* The body must open.
Decodes(e, frame) ==
  /\ Fits(frame.prefix)
  /\ frame.prefix + Tag = frame.body /\ frame.nonce = readNonce[e] /\ frame.key = sessionKey(e)

\* A frame that is not decoded has its connection closed.  The body is read only if the
\* buffer has room for it.
ReceiveFrame(e) ==
  /\ ret[e] = "ok" /\ stream[Peer(e)] # <<>>
  /\ Fits(Head(stream[Peer(e)]).prefix) => HasBody(Peer(e))
  /\ stream' = [stream EXCEPT ![Peer(e)] = Tail(@)]
  /\ LET frame == Head(stream[Peer(e)]) IN
       IF Decodes(e, frame)
       THEN /\ received' = [received EXCEPT ![e] = Append(@, frame.prefix)]
            /\ readNonce' = [readNonce EXCEPT ![e] = next(@)]
            /\ UNCHANGED <<ret, broken>>
       ELSE /\ ret' = [ret EXCEPT ![e] = "closed"] /\ broken' = TRUE
            /\ UNCHANGED <<readNonce, received>>
  /\ UNCHANGED <<got, secret, put, wr, amid, writeNonce, sent>>

\* The connection ends before or amid a frame, at the end that reads or writes it.
FrameFails(e) ==
  /\ broken /\ ret[e] = "ok"
  /\ ret' = [ret EXCEPT ![e] = "ended"]
  /\ UNCHANGED <<got, secret, put, wr, stream, broken, amid, gcmVars, sent, received>>

Break ==
  /\ ~broken /\ broken' = TRUE
  /\ UNCHANGED <<hsVars, stream, amid, gcmVars, sent, received>>

-----------------------------------------------------------------------------
Writer(e) == Write(e) \/ WriteFails(e) \/ WriterClosed(e)
Reader(e) == ReadKey(e) \/ ReadSecret(e) \/ ReadFails(e) \/ Join(e) \/ ReceiveFrame(e) \/ FrameFails(e)

Next == Break \/ \E e \in Ends : Writer(e) \/ Reader(e) \/ SendPrefix(e) \/ SendBody(e)

Spec == Init /\ [][Next]_vars

\* Goroutines run on.
FairSpec ==
  /\ Spec
  /\ \A e \in Ends : WF_vars(Writer(e)) /\ WF_vars(Reader(e))

-----------------------------------------------------------------------------
\* Two ends with a session agree on it: they have the same key, each seals with the
\* nonce that the other opens with, and the two directions do not share a nonce.
Agreement ==
  (\A e \in Ends : ret[e] = "ok") =>
    \A e \in Ends : /\ sessionKey(e) = sessionKey(Peer(e))
                     /\ writeNonce[e] = readNonce[Peer(e)] /\ writeNonce[e] # readNonce[e]

\* An end whose handshake succeeds leaves nothing to chance at the other: the other has
\* read its key and its secret, and has been sent all it needs to succeed as well.
Proven ==
  \A e \in Ends : ret[e] = "ok" => got[Peer(e)] >= 2 /\ put[e] = 4 /\ wr[e] = "done"

\* Every handshake that is begun returns, and its writer ends, whatever fails at either
\* end and whenever: no goroutine is left behind on a channel.
HandshakeEnds == \A e \in Ends \ Silent : <>(ret[e] # "run") /\ <>(wr[e] # "run")

\* What a goroutine waits for is there: the next item of a stream, the other goroutine,
\* or the news that the connection or the other goroutine has ended.
WriterReady(e) == wr[e] = "run" /\ (got[e] >= Needs[put[e] + 1] \/ ret[e] # "run")
ReaderReady(e) ==
  /\ ret[e] = "run"
  /\ \/ got[e] = 0 /\ (broken \/ Len(stream[Peer(e)]) >= 2)
     \/ got[e] \in {1, 2} /\ (broken \/ stream[Peer(e)] # <<>>)
     \/ got[e] = 3 /\ wr[e] # "run"

\* The safety part of HandshakeEnds, where both ends take part: as long as a goroutine of
\* a handshake runs, one of them is ready, so the four never all wait for each other.
NoDeadlock ==
  (\E e \in Ends : ret[e] = "run" \/ wr[e] = "run") => \E e \in Ends : WriterReady(e) \/ ReaderReady(e)

\* Both ends derive the same key: what an end decodes is what the other encoded, message
\* by message, whatever its length and wherever the connection ends, and one that the
\* buffer has room for with its tag is not refused.
FramesWhole ==
  \A e \in Ends :
    /\ received[e] = SubSeq(sent[Peer(e)], 1, Len(received[e]))
    /\ ret[e] = "closed" => sent[Peer(e)][Len(received[e]) + 1] + Tag > BufferCap

\* A message that fits the buffer is not refused.
FittingAccepted ==
  \A e \in Ends : ret[e] = "closed" => sent[Peer(e)][Len(received[e]) + 1] > BufferCap

\* The nonces of a session change with every message.
NoncesAdvance ==
  [][\A e \in Ends : e \in amid \ amid' => writeNonce'[e] # writeNonce[e]]_vars
=============================================================================
