--------------------------- MODULE SessionProofs ---------------------------
(* Proofs about Session: what a handshake promises when it succeeds, that  *)
(* the frames of the session are decoded as they were encoded, and that    *)
(* the goroutines of a handshake do not wait for each other.               *)
EXTENDS Session, TLAPS

-----------------------------------------------------------------------------
(* The handshake.  The inductive invariant counts what has been written    *)
(* and read.                                                               *)

Frame == [prefix : Nat, body : Nat, nonce : {0, MaxNonce}, key : SUBSET (Ends \cup {NoSecret})]
Item == {"x", "y"} \cup Ends \cup Frame

\* Types of the handshake's goroutines, of the streams and of the session.
TypeOK ==
  /\ got \in [Ends -> 0..3] /\ put \in [Ends -> 0..4]
  /\ ret \in [Ends -> {"run", "ok", "err", "closed", "ended"}]
  /\ wr \in [Ends -> {"run", "done", "err"}]
  /\ secret \in [Ends -> Ends \cup {NoSecret}] /\ stream \in [Ends -> Seq(Item)]
  /\ writeNonce \in [Ends -> {0, MaxNonce}] /\ readNonce \in [Ends -> {0, MaxNonce}]

\* How many writes of the handshake an end has read, by what it has got.
Consumed(n) == IF n = 0 THEN 0 ELSE n + 1

\* The stream from p begins with what its writer has written and e has not read; until
\* the writer is through there is nothing else in it.
Streamed(e, p) ==
  /\ Consumed(got[e]) <= put[p]
  /\ Len(stream[p]) >= put[p] - Consumed(got[e])
  /\ put[p] < 4 => Len(stream[p]) = put[p] - Consumed(got[e])
  /\ \A i \in 1..Len(stream[p]) :
       Consumed(got[e]) + i <= 4 => stream[p][i] = Writes(p)[Consumed(got[e]) + i]

\* How far the goroutines of an end can be from each other.
InStep(e) ==
  /\ put[e] = 3 => got[e] >= 1
  /\ put[e] = 4 => got[e] >= 2
  /\ ret[e] = "run" /\ wr[e] = "done" => put[e] = 4
  /\ ret[e] \in {"ok", "closed", "ended"} => got[e] = 3 /\ put[e] = 4 /\ wr[e] = "done"
  /\ secret[e] = (IF got[e] >= 2 THEN Peer(e) ELSE NoSecret)

\* The nonces are set by NewGCMSession, once.
Sealed(e) ==
  /\ ret[e] = "run" => writeNonce[e] = 0 /\ readNonce[e] = 0
  /\ ret[e] \in {"ok", "closed", "ended"} =>
       /\ writeNonce[e] = (IF Signatory[e] < Signatory[Peer(e)] THEN MaxNonce ELSE 0)
       /\ readNonce[e] = (IF Signatory[e] < Signatory[Peer(e)] THEN 0 ELSE MaxNonce)

IInv == TypeOK /\ \A e \in Ends : Streamed(e, Peer(e)) /\ InStep(e) /\ Sealed(e)

\* Peer maps each of the two ends to the other.
LEMMA Peers ==
  ASSUME NEW e \in Ends
  PROVE  /\ Peer(e) \in Ends /\ Peer(e) # e /\ Peer(Peer(e)) = e
         /\ \A f \in Ends : f = e \/ f = Peer(e)
<1>1. PICK x \in Ends, y \in Ends : x # y /\ Ends = {x, y}
  BY TwoEnds, Zenon
<1>2. Peer(x) = y /\ Peer(y) = x
  BY <1>1, Zenon DEF Peer
<1> QED
  BY <1>1, <1>2, Zenon

\* The prefix of a message is its length, if the message is shorter than the prefix can tell.
LEMMA Prefixes ==
  ASSUME NEW n \in Nat
  PROVE  n % PrefixMod \in Nat /\ (n < PrefixMod => n % PrefixMod = n)
<1>1. PrefixMod \in Nat /\ PrefixMod > 0
  BY SessionConstants
<1> QED
  BY <1>1

\* The invariant holds before anything is written.
LEMMA Initially == Init => IInv
<1> SUFFICES ASSUME Init PROVE IInv
  BY Zenon
<1>1. TypeOK
  BY SessionConstants DEF Init, TypeOK
<1>2. ASSUME NEW e \in Ends PROVE Streamed(e, Peer(e)) /\ InStep(e) /\ Sealed(e)
  BY Peers DEF Init, Streamed, InStep, Sealed, Consumed
<1> QED
  BY <1>1, <1>2, Zenon DEF IInv

\* A write adds to the end of a stream what the reader of it is to find there.
LEMMA WriteStep ==
  ASSUME IInv, NEW e \in Ends, Write(e)
  PROVE  IInv'
<1> DEFINE p == Peer(e)
           k == put[e] + 1
<1>1. /\ TypeOK /\ p \in Ends /\ p # e /\ Peer(p) = e
      /\ put[e] \in 0..3 /\ got[e] >= Needs[k] /\ wr[e] = "run"
      /\ put' = [put EXCEPT ![e] = k]
      /\ stream' = [stream EXCEPT ![e] = Append(stream[e], Writes(e)[k])]
      /\ wr' = [wr EXCEPT ![e] = IF put[e] = 3 THEN "done" ELSE "run"]
      /\ got' = got /\ ret' = ret /\ secret' = secret
      /\ writeNonce' = writeNonce /\ readNonce' = readNonce
  BY Peers DEF IInv, TypeOK, Write, gcmVars
<1>2. Writes(e)[k] \in Item
  BY <1>1 DEF Writes, Item
<1>3. TypeOK'
  BY <1>1, <1>2 DEF TypeOK
<1>4. Streamed(p, e)'
  <2> DEFINE c == Consumed(got[p])
             s == stream[e]
             w == Writes(e)
  <2>1. Streamed(p, e)
    BY <1>1, Zenon DEF IInv
  <2>2. s \in Seq(Item) /\ c \in 0..4 /\ k \in 1..4 /\ w[k] \in Item
    <3>1. got[p] \in 0..3 /\ s \in Seq(Item)
      BY <1>1, Zenon DEF TypeOK
    <3> QED
      BY <1>1, <1>2, <3>1 DEF Consumed
  <2>3. c < k /\ Len(s) = k - 1 - c
    BY <1>1, <2>1, <2>2 DEF Streamed
  <2>4. \A i \in 1..Len(s) : c + i <= 4 => s[i] = w[c + i]
    BY <2>1, Zenon DEF Streamed
  <2>5. stream'[e] = Append(s, w[k]) /\ put'[e] = k /\ Consumed(got'[p]) = c
    BY <1>1, Zenon DEF TypeOK
  <2> HIDE DEF c, s, p, k, w
  <2>6. /\ Len(Append(s, w[k])) = k - c
        /\ \A i \in 1..(k - c) : Append(s, w[k])[i] = w[c + i]
    BY <2>2, <2>3, <2>4
  <2> QED
    BY <2>2, <2>3, <2>5, <2>6 DEF Streamed, w
<1>5. Streamed(e, p)'
  BY <1>1, Zenon DEF IInv, TypeOK, Streamed
<1>6. InStep(e)' /\ Sealed(e)'
  BY <1>1 DEF IInv, TypeOK, InStep, Sealed, Needs
<1>7. InStep(p)' /\ Sealed(p)'
  BY <1>1, Zenon DEF IInv, TypeOK, InStep, Sealed
<1> QED
  BY <1>1, <1>3, <1>4, <1>5, <1>6, <1>7, Peers, Zenon DEF IInv

\* A stream without its first items.
LEMMA WithoutFirst ==
  ASSUME NEW s \in Seq(Item), NEW n \in Nat, n <= Len(s)
  PROVE  /\ SubSeq(s, n + 1, Len(s)) \in Seq(Item)
         /\ Len(SubSeq(s, n + 1, Len(s))) = Len(s) - n
         /\ \A i \in 1..(Len(s) - n) : SubSeq(s, n + 1, Len(s))[i] = s[n + i]
OBVIOUS

\* The key is read in full.
LEMMA ReadKeyStep ==
  ASSUME IInv, NEW e \in Ends, ReadKey(e)
  PROVE  IInv'
<1> DEFINE p == Peer(e)
           t == SubSeq(stream[p], 3, Len(stream[p]))
<1>1. /\ TypeOK /\ p \in Ends /\ p # e /\ Peer(p) = e
      /\ Streamed(e, p) /\ stream[p] \in Seq(Item) /\ put[p] \in 0..4
      /\ ret[e] = "run" /\ got[e] = 0 /\ 2 <= Len(stream[p])
      /\ got' = [got EXCEPT ![e] = 1] /\ stream' = [stream EXCEPT ![p] = t]
      /\ put' = put /\ ret' = ret /\ secret' = secret /\ wr' = wr
      /\ writeNonce' = writeNonce /\ readNonce' = readNonce
  BY Peers, Zenon DEF IInv, TypeOK, ReadKey, gcmVars
<1>2. /\ t \in Seq(Item) /\ Len(t) = Len(stream[p]) - 2
      /\ \A i \in 1..Len(t) : 2 + i <= 4 => t[i] = Writes(p)[2 + i]
  <2>1. \A i \in 1..Len(stream[p]) : i <= 4 => stream[p][i] = Writes(p)[i]
    <3>1. \A i \in 1..Len(stream[p]) : 0 + i <= 4 => stream[p][i] = Writes(p)[0 + i]
      BY <1>1, Zenon DEF Streamed, Consumed
    <3>2. \A i \in 1..Len(stream[p]) : 0 + i = i
      OBVIOUS
    <3> QED
      BY <3>1, <3>2, Zenon
  <2>2. PICK s : s = stream[p]
    BY Zenon
  <2>3. s \in Seq(Item) /\ 2 <= Len(s) /\ t = SubSeq(s, 3, Len(s))
    BY <1>1, <2>2, Zenon
  <2> HIDE DEF t
  <2>4. t \in Seq(Item) /\ Len(t) = Len(s) - 2 /\ \A i \in 1..Len(t) : t[i] = s[2 + i]
    <3>1. 2 \in Nat /\ 2 + 1 = 3
      OBVIOUS
    <3>2. /\ SubSeq(s, 2 + 1, Len(s)) \in Seq(Item)
          /\ Len(SubSeq(s, 2 + 1, Len(s))) = Len(s) - 2
          /\ \A i \in 1..(Len(s) - 2) : SubSeq(s, 2 + 1, Len(s))[i] = s[2 + i]
      BY <2>3, <3>1, WithoutFirst, Zenon
    <3>3. t = SubSeq(s, 2 + 1, Len(s))
      BY <2>3, <3>1, Zenon
    <3> QED
      BY <3>2, <3>3, Zenon
  <2>5. \A i \in 1..Len(t) : 2 + i \in 1..Len(s)
    BY <2>3, <2>4
  <2> QED
    BY <2>1, <2>2, <2>4, <2>5, Zenon
<1>3. TypeOK'
  BY <1>1, <1>2 DEF TypeOK
<1>4. Streamed(e, p)'
  <2>1. stream'[p] = t /\ got'[e] = 1
    BY <1>1, Zenon DEF TypeOK
  <2> QED
    BY <1>1, <1>2, <2>1 DEF Streamed, Consumed
<1>5. Streamed(p, e)'
  BY <1>1 DEF IInv, TypeOK, Streamed
<1>6. InStep(e)' /\ Sealed(e)' /\ InStep(p)' /\ Sealed(p)'
  BY <1>1 DEF IInv, TypeOK, InStep, Sealed
<1> QED
  BY <1>1, <1>3, <1>4, <1>5, <1>6, Peers, Zenon DEF IInv

\* The third write is the secret of the writer, and the fourth that of the reader.
LEMMA ReadSecretStep ==
  ASSUME IInv, NEW e \in Ends, ReadSecret(e)
  PROVE  IInv'
<1> DEFINE p == Peer(e)
           s == stream[p]
           k == got[e]
<1>1. /\ TypeOK /\ p \in Ends /\ p # e /\ Peer(p) = e
      /\ Streamed(e, p) /\ s \in Seq(Item) /\ put[p] \in 0..4
      /\ ret[e] = "run" /\ k \in {1, 2} /\ s # <<>>
      /\ got' = [got EXCEPT ![e] = k + 1] /\ stream' = [stream EXCEPT ![p] = Tail(s)]
      /\ secret' = [secret EXCEPT ![e] = IF k = 1 THEN Head(s) ELSE secret[e]]
      /\ ret' = [ret EXCEPT ![e] = IF k = 2 /\ Head(s) # e THEN "err" ELSE "run"]
      /\ put' = put /\ wr' = wr /\ writeNonce' = writeNonce /\ readNonce' = readNonce
  BY Peers, Zenon DEF IInv, TypeOK, ReadSecret, gcmVars
<1>2. Len(s) >= 1 /\ Head(s) = s[1] /\ Tail(s) = SubSeq(s, 2, Len(s))
  BY <1>1
<1>3. \A i \in 1..Len(s) : (k + 1) + i <= 4 => s[i] = Writes(p)[(k + 1) + i]
  BY <1>1 DEF Streamed, Consumed
<1>4. /\ Tail(s) \in Seq(Item) /\ Len(Tail(s)) = Len(s) - 1
      /\ \A i \in 1..Len(Tail(s)) : k + 2 + i <= 4 => Tail(s)[i] = Writes(p)[k + 2 + i]
  <2>1. Tail(s) \in Seq(Item) /\ Len(Tail(s)) = Len(s) - 1 /\ Len(s) \in Nat
    BY <1>1
  <2>2. \A i \in 1..Len(Tail(s)) : Tail(s)[i] = s[i + 1]
    BY <1>1, <1>2
  <2> HIDE DEF s, p, k
  <2>3. \A i \in 1..Len(Tail(s)) :
          i + 1 \in 1..Len(s) /\ (k + 1) + (i + 1) = k + 2 + i
    BY <1>1, <2>1
  <2> QED
    BY <1>3, <2>1, <2>2, <2>3, Zenon
<1>5. k = 1 => Head(s) = p
  BY <1>2, <1>3 DEF Writes
<1>6. TypeOK'
  BY <1>1, <1>4, <1>5 DEF TypeOK
<1>7. Streamed(e, p)'
  <2>1. stream'[p] = Tail(s) /\ got'[e] = k + 1
    BY <1>1, Zenon DEF TypeOK
  <2>2. Consumed(got'[e]) = k + 2 /\ Consumed(k) = k + 1
    BY <1>1, <2>1 DEF Consumed
  <2>3. /\ k + 1 <= put[p] /\ Len(s) >= put[p] - (k + 1)
        /\ put[p] < 4 => Len(s) = put[p] - (k + 1)
    BY <1>1, <2>2, Zenon DEF Streamed
  <2>4. k + 2 <= put[p] /\ put'[p] = put[p] /\ Len(s) \in Nat
    BY <1>1, <1>2, <2>3
  <2> HIDE DEF s, k
  <2>5. /\ Len(Tail(s)) >= put[p] - (k + 2)
        /\ put[p] < 4 => Len(Tail(s)) = put[p] - (k + 2)
    BY <1>1, <1>4, <2>3, <2>4
  <2> QED
    BY <1>4, <2>1, <2>2, <2>4, <2>5, Zenon DEF Streamed
<1>8. Streamed(p, e)'
  BY <1>1 DEF IInv, TypeOK, Streamed
<1>9. InStep(e)' /\ Sealed(e)' /\ InStep(p)' /\ Sealed(p)'
  BY <1>1, <1>5 DEF IInv, TypeOK, InStep, Sealed
<1> QED
  BY <1>1, <1>6, <1>7, <1>8, <1>9, Peers DEF IInv

\* Frames follow the handshake, and are read after it.
LEMMA SendPrefixStep ==
  ASSUME IInv, NEW e \in Ends, SendPrefix(e)
  PROVE  IInv'
<1> DEFINE p == Peer(e)
           s == stream[e]
<1>1. PICK n \in Sizes : stream' = [stream EXCEPT ![e] = Append(s, Encode(e, n))]
  BY ZenonT(60) DEF SendPrefix
<1>2. /\ TypeOK /\ p \in Ends /\ p # e /\ Peer(p) = e /\ s \in Seq(Item)
      /\ Streamed(p, e) /\ put[e] = 4
      /\ put' = put /\ wr' = wr /\ got' = got /\ ret' = ret /\ secret' = secret
      /\ writeNonce' = writeNonce /\ readNonce' = readNonce
  BY Peers DEF IInv, TypeOK, InStep, SendPrefix, hsVars, gcmVars
<1>3. Encode(e, n) \in Item
  BY <1>2, SessionConstants, Prefixes DEF TypeOK, Encode, sessionKey, Item, Frame
<1>4. TypeOK'
  BY <1>1, <1>2, <1>3 DEF TypeOK
<1>5. Streamed(p, e)'
  <2> DEFINE c == Consumed(got[p])
             t == Append(s, Encode(e, n))
  <2>1. stream'[e] = t
    BY <1>1, <1>2, Zenon DEF TypeOK
  <2>2. /\ t \in Seq(Item) /\ Len(t) = Len(s) + 1
        /\ \A i \in 1..Len(s) : t[i] = s[i]
    BY <1>2, <1>3
  <2>3. c \in 0..4 /\ Len(s) \in Nat /\ c <= 4 /\ Len(s) >= 4 - c
    <3>1. got[p] \in 0..3 /\ Len(s) \in Nat
      BY <1>2 DEF TypeOK
    <3> QED
      BY <1>2, <3>1 DEF Streamed, Consumed
  <2>4. \A i \in 1..Len(s) : c + i <= 4 => s[i] = Writes(e)[c + i]
    BY <1>2, Zenon DEF Streamed
  <2>5. Consumed(got'[p]) = c /\ put'[e] = 4
    BY <1>2, Zenon
  <2> HIDE DEF c, t
  <2> QED
    BY <2>1, <2>2, <2>3, <2>4, <2>5 DEF Streamed
<1>6. Streamed(e, p)'
  BY <1>1, <1>2, Zenon DEF IInv, TypeOK, Streamed
<1>7. InStep(e)' /\ Sealed(e)' /\ InStep(p)' /\ Sealed(p)'
  BY <1>1, <1>2, Zenon DEF IInv, InStep, Sealed
<1> QED
  BY <1>2, <1>4, <1>5, <1>6, <1>7, Peers, Zenon DEF IInv

\* Receiving a frame keeps the invariant: the reader takes the head of the stream.
LEMMA ReceiveFrameStep ==
  ASSUME IInv, NEW e \in Ends, ReceiveFrame(e)
  PROVE  IInv'
<1> DEFINE p == Peer(e)
           s == stream[p]
<1>1. /\ TypeOK /\ p \in Ends /\ p # e /\ Peer(p) = e /\ s \in Seq(Item) /\ s # <<>>
      /\ Streamed(e, p) /\ got[e] = 3 /\ put[p] \in 0..4 /\ ret[e] = "ok"
      /\ stream' = [stream EXCEPT ![p] = Tail(s)]
      /\ put' = put /\ wr' = wr /\ got' = got /\ secret' = secret
      /\ writeNonce' = writeNonce /\ readNonce' = readNonce
      /\ ret' = ret \/ ret' = [ret EXCEPT ![e] = "closed"]
  BY Peers DEF IInv, TypeOK, InStep, ReceiveFrame, next
<1>2. Tail(s) \in Seq(Item) /\ Len(Tail(s)) \in Nat
  BY <1>1
<1>3. TypeOK'
  BY <1>1, <1>2, Zenon DEF TypeOK
<1>4. Streamed(e, p)'
  <2>1. stream'[p] = Tail(s) /\ Consumed(got'[e]) = 4 /\ put'[p] = 4
    BY <1>1 DEF TypeOK, Streamed, Consumed
  <2> QED
    BY <1>2, <2>1 DEF Streamed
<1>5. Streamed(p, e)'
  BY <1>1 DEF IInv, TypeOK, Streamed
<1>6. InStep(e)' /\ Sealed(e)' /\ InStep(p)' /\ Sealed(p)'
  BY <1>1, Zenon DEF IInv, TypeOK, InStep, Sealed
<1> QED
  BY <1>1, <1>3, <1>4, <1>5, <1>6, Peers DEF IInv

\* The handshake of an end succeeds only when its writer is through.
LEMMA JoinStep ==
  ASSUME IInv, NEW e \in Ends, Join(e)
  PROVE  IInv'
<1> DEFINE p == Peer(e)
<1>1. /\ TypeOK /\ p \in Ends /\ p # e /\ Peer(p) = e /\ InStep(e) /\ Sealed(e)
      /\ ret[e] = "run" /\ got[e] = 3 /\ wr[e] # "run"
      /\ put' = put /\ wr' = wr /\ got' = got /\ secret' = secret /\ stream' = stream
  BY Peers, Zenon DEF IInv, Join, Filter
<1>2. \/ ret' = [ret EXCEPT ![e] = "err"]
      \/ ret' = [ret EXCEPT ![e] = "ok"] /\ wr[e] = "done"
  BY ZenonT(60) DEF Join, Filter
<1>3. \/ wr[e] = "err" /\ writeNonce' = writeNonce /\ readNonce' = readNonce
      \/ /\ Signatory[e] < Signatory[p]
         /\ writeNonce' = [writeNonce EXCEPT ![e] = MaxNonce] /\ readNonce' = readNonce
      \/ /\ ~(Signatory[e] < Signatory[p])
         /\ readNonce' = [readNonce EXCEPT ![e] = MaxNonce] /\ writeNonce' = writeNonce
  BY Zenon DEF Join, Filter, NewGCMSession, gcmVars
<1>4. TypeOK'
  BY <1>1, <1>2, <1>3, ZenonT(60) DEF TypeOK
<1>5. Streamed(e, p)' /\ Streamed(p, e)'
  BY <1>1, Zenon DEF IInv, Streamed
<1>6. InStep(e)' /\ InStep(p)'
  BY <1>1, <1>2, Zenon DEF IInv, TypeOK, InStep
<1>7. Sealed(e)'
  BY <1>1, <1>2, <1>3, Zenon DEF TypeOK, Sealed
<1>8. Sealed(p)'
  BY <1>1, <1>2, <1>3 DEF IInv, TypeOK, Sealed
<1> QED
  BY <1>1, <1>4, <1>5, <1>6, <1>7, <1>8, Peers, SMTT(60) DEF IInv

\* Sending a body leaves the nonce as it is.
LEMMA SameNonce ==
  ASSUME TypeOK, NEW e \in Ends, SendBody(e)
  PROVE  writeNonce' = writeNonce
BY DEF TypeOK, SendBody, next

\* The steps that only end a goroutine, a frame or the connection.
LEMMA EndStep ==
  ASSUME IInv,
         \/ Break \/ UNCHANGED vars
         \/ \E e \in Ends : \/ WriteFails(e) \/ WriterClosed(e) \/ ReadFails(e)
                           \/ FrameFails(e) \/ SendBody(e)
  PROVE  IInv'
<1>1. /\ TypeOK /\ put' = put /\ got' = got /\ secret' = secret /\ stream' = stream
      /\ writeNonce' = writeNonce /\ readNonce' = readNonce
  BY SameNonce, Zenon DEF IInv, Break, WriteFails, WriterClosed, ReadFails, FrameFails, SendBody,
                          vars, hsVars, gcmVars
<1>2. \/ ret' = ret /\ wr' = wr
      \/ \E e \in Ends : ret[e] = "run" /\ ret' = [ret EXCEPT ![e] = "err"] /\ wr' = wr
      \/ \E e \in Ends : ret[e] = "ok" /\ ret' = [ret EXCEPT ![e] = "ended"] /\ wr' = wr
      \/ \E e \in Ends : wr[e] = "run" /\ wr' = [wr EXCEPT ![e] = "err"] /\ ret' = ret
      \/ \E e \in Ends : /\ wr[e] = "run" /\ wr' = [wr EXCEPT ![e] = "done"]
                          /\ ret' = ret /\ ret[e] # "run"
  BY Zenon DEF Break, WriteFails, WriterClosed, ReadFails, FrameFails, SendBody, vars, hsVars
<1>3. TypeOK'
  BY <1>1, <1>2, ZenonT(60) DEF TypeOK
<1>4. ASSUME NEW f \in Ends PROVE Streamed(f, Peer(f))' /\ InStep(f)' /\ Sealed(f)'
  <2>1. Streamed(f, Peer(f))'
    BY <1>1, Zenon DEF IInv, Streamed
  <2>2. InStep(f)'
    BY <1>1, <1>2 DEF IInv, TypeOK, InStep
  <2>3. Sealed(f)'
    BY <1>1, <1>2, Zenon DEF IInv, TypeOK, Sealed
  <2> QED
    BY <2>1, <2>2, <2>3, Zenon
<1> QED
  BY <1>3, <1>4, Zenon DEF IInv

\* Every step keeps the invariant.
LEMMA Step == IInv /\ [Next]_vars => IInv'
BY WriteStep, ReadKeyStep, ReadSecretStep, SendPrefixStep, ReceiveFrameStep, JoinStep, EndStep, Zenon
   DEF Next, Writer, Reader

\* The goroutines of a handshake, the streams and the session keep their types.
THEOREM TypeCorrect == Spec => []TypeOK
<1>1. IInv => TypeOK
  BY Zenon DEF IInv
<1> QED
  BY <1>1, Initially, Step, PTL DEF Spec

\* An end whose handshake has succeeded has written all that the other needs, and the
\* other has its key and its secret.
THEOREM ProvenHolds == Spec => []Proven
<1>1. IInv => Proven
  <2> SUFFICES ASSUME IInv, NEW e \in Ends, ret[e] = "ok"
               PROVE  got[Peer(e)] >= 2 /\ put[e] = 4 /\ wr[e] = "done"
    BY Zenon DEF Proven
  <2>1. got[e] = 3 /\ put[e] = 4 /\ wr[e] = "done" /\ Consumed(got[e]) <= put[Peer(e)]
    BY Zenon DEF IInv, InStep, Streamed
  <2>2. Peer(e) \in Ends /\ put[Peer(e)] \in 0..4
    BY Peers, Zenon DEF IInv, TypeOK
  <2>3. put[Peer(e)] = 4
    BY <2>1, <2>2 DEF Consumed
  <2> QED
    BY <2>1, <2>2, <2>3, Zenon DEF IInv, InStep
<1> QED
  BY <1>1, Initially, Step, PTL DEF Spec

\* Ends of different peers that both have a session agree on its key and its nonces.
THEOREM AgreementHolds ==
  ASSUME \A e, f \in Ends : Signatory[e] = Signatory[f] => e = f
  PROVE  Spec => []Agreement
<1>1. IInv => Agreement
  <2> SUFFICES ASSUME IInv, \A f \in Ends : ret[f] = "ok", NEW e \in Ends
               PROVE  /\ sessionKey(e) = sessionKey(Peer(e))
                      /\ writeNonce[e] = readNonce[Peer(e)] /\ writeNonce[e] # readNonce[e]
    BY ZenonT(60) DEF Agreement
  <2> DEFINE p == Peer(e)
  <2>1. p \in Ends /\ p # e /\ Peer(p) = e
    BY Peers, Zenon
  <2>2. secret[e] = p /\ secret[p] = e
    BY <2>1, Zenon DEF IInv, InStep
  <2>3. Signatory[e] \in Nat /\ Signatory[p] \in Nat /\ Signatory[e] # Signatory[p]
    BY <2>1, SessionConstants, Zenon
  <2>4. writeNonce[e] = readNonce[p] /\ writeNonce[e] # readNonce[e]
    BY <2>1, <2>3, SessionConstants DEF IInv, Sealed
  <2> QED
    BY <2>2, <2>4, Zenon DEF sessionKey
<1> QED
  BY <1>1, Initially, Step, PTL DEF Spec

-----------------------------------------------------------------------------
(* Frames in a stream, and messages decoded from them.                     *)

FrameOf(p, nonce, n) ==
  [prefix |-> n % PrefixMod, body |-> n + Tag, nonce |-> nonce, key |-> {p, Peer(p)}]

\* Behind its first u items the stream s holds the frames of the messages ms from p, but
\* for the k that were read.
Frames(p, nonce, s, ms, u, k) ==
  /\ Len(ms) = k + Len(s) - u
  /\ \A i \in 1..Len(s) : i > u => s[i] = FrameOf(p, nonce, ms[k + i - u])

\* rs are the first of ms.
Whole(rs, ms) == Len(rs) <= Len(ms) /\ \A i \in 1..Len(rs) : rs[i] = ms[i]

\* The handshake is written before any frame.
LEMMA FramesWritten ==
  ASSUME NEW p, NEW nonce, NEW s \in Seq(Item), NEW x \in Item, NEW ms \in Seq(Nat),
         NEW k \in Nat, Frames(p, nonce, s, ms, Len(s), k)
  PROVE  Frames(p, nonce, Append(s, x), ms, Len(s) + 1, k)
<1>1. Len(s) \in Nat /\ Len(Append(s, x)) = Len(s) + 1
  OBVIOUS
<1>2. Len(ms) = k + (Len(s) + 1) - (Len(s) + 1)
  BY <1>1 DEF Frames
<1>3. \A i \in 1..(Len(s) + 1) : ~(i > Len(s) + 1)
  BY <1>1
<1> QED
  BY <1>1, <1>2, <1>3, Zenon DEF Frames

\* Reading n of the first items moves the frames ahead.
LEMMA FramesAhead ==
  ASSUME NEW p, NEW nonce, NEW s \in Seq(Item), NEW ms \in Seq(Nat), NEW u \in Nat,
         NEW k \in Nat, Frames(p, nonce, s, ms, u, k), NEW n \in Nat, n <= u, n <= Len(s)
  PROVE  Frames(p, nonce, SubSeq(s, n + 1, Len(s)), ms, u - n, k)
<1> DEFINE t == SubSeq(s, n + 1, Len(s))
<1>1. Len(s) \in Nat /\ Len(t) = Len(s) - n /\ \A i \in 1..(Len(s) - n) : t[i] = s[i + n]
  OBVIOUS
<1> HIDE DEF t
<1>2. Len(ms) = k + Len(t) - (u - n)
  BY <1>1 DEF Frames
<1>3. ASSUME NEW i \in 1..Len(t), i > u - n
      PROVE  t[i] = FrameOf(p, nonce, ms[k + i - (u - n)])
  <2>1. /\ i + n \in 1..Len(s) /\ i + n > u /\ k + (i + n) - u = k + i - (u - n)
        /\ i \in 1..(Len(s) - n)
    BY <1>1, <1>3
  <2>2. s[i + n] = FrameOf(p, nonce, ms[k + (i + n) - u])
    BY <2>1, Zenon DEF Frames
  <2> QED
    BY <1>1, <2>1, <2>2, Zenon
<1>4. Frames(p, nonce, t, ms, u - n, k)
  BY <1>2, <1>3, Zenon DEF Frames
<1> QED
  BY <1>4, Zenon DEF t

\* A message that is sent is the last of the frames.
LEMMA FramesSent ==
  ASSUME NEW p, NEW nonce, NEW s \in Seq(Item), NEW ms \in Seq(Nat), NEW u \in Nat,
         NEW k \in Nat, Frames(p, nonce, s, ms, u, k), u <= Len(s),
         NEW n \in Nat, NEW f \in Item, f = FrameOf(p, nonce, n)
  PROVE  Frames(p, nonce, Append(s, f), Append(ms, n), u, k)
<1> DEFINE t == Append(s, f)
           ns == Append(ms, n)
<1>1. /\ Len(s) \in Nat /\ Len(t) = Len(s) + 1 /\ t[Len(s) + 1] = f
      /\ \A i \in 1..Len(s) : t[i] = s[i]
  OBVIOUS
<1>2. /\ Len(ms) \in Nat /\ Len(ns) = Len(ms) + 1 /\ ns[Len(ms) + 1] = n
      /\ \A i \in 1..Len(ms) : ns[i] = ms[i]
  OBVIOUS
<1> HIDE DEF t, ns
<1>3. Len(ms) = k + Len(s) - u
  BY Zenon DEF Frames
<1>4. ASSUME NEW i \in 1..Len(t), i > u PROVE t[i] = FrameOf(p, nonce, ns[k + i - u])
  <2>1. CASE i = Len(s) + 1
    <3>1. k + i - u = Len(ms) + 1
      BY <1>1, <1>2, <1>3, <2>1
    <3> QED
      BY <1>1, <1>2, <2>1, <3>1, Zenon
  <2>2. CASE i # Len(s) + 1
    <3>0. i \in 1..Len(s)
      BY <1>1, <2>2
    <3>1. i \in 1..Len(s) /\ k + i - u \in 1..Len(ms)
      BY <1>1, <1>2, <1>3, <1>4, <3>0
    <3>2. s[i] = FrameOf(p, nonce, ms[k + i - u])
      BY <1>4, <3>1, Zenon DEF Frames
    <3> QED
      BY <1>1, <1>2, <3>1, <3>2, Zenon
  <2> QED
    BY <2>1, <2>2, Zenon
<1>5. Frames(p, nonce, t, ns, u, k)
  BY <1>1, <1>2, <1>3, <1>4 DEF Frames
<1> QED
  BY <1>5, Zenon DEF t, ns

\* The head of the stream is the frame of the first message that is still to be read.
LEMMA FramesTaken ==
  ASSUME NEW p, NEW nonce, NEW s \in Seq(Item), NEW ms \in Seq(Nat), NEW k \in Nat,
         Frames(p, nonce, s, ms, 0, k), s # <<>>
  PROVE  /\ Frames(p, nonce, Tail(s), ms, 0, k + 1)
         /\ Head(s) = FrameOf(p, nonce, ms[k + 1])
         /\ k + 1 \in 1..Len(ms) /\ ms[k + 1] \in Nat
<1>1. Len(s) \in Nat /\ Len(s) >= 1 /\ Head(s) = s[1] /\ Len(ms) \in Nat
  OBVIOUS
<1>2. Len(ms) = k + Len(s)
  BY <1>1 DEF Frames
<1>3. ASSUME NEW i \in 1..Len(s) PROVE s[i] = FrameOf(p, nonce, ms[k + i])
  <2>1. i > 0 /\ k + i - 0 = k + i
    BY <1>1
  <2> QED
    BY <2>1, Zenon DEF Frames
<1>4. Head(s) = FrameOf(p, nonce, ms[k + 1]) /\ k + 1 \in 1..Len(ms) /\ ms[k + 1] \in Nat
  <2>1. k + 1 \in 1..Len(ms) /\ 1 \in 1..Len(s)
    BY <1>1, <1>2
  <2> QED
    BY <1>1, <1>3, <2>1
<1> DEFINE t == Tail(s)
<1>5. Len(t) = Len(s) - 1 /\ \A i \in 1..(Len(s) - 1) : t[i] = s[i + 1]
  OBVIOUS
<1> HIDE DEF t
<1>6. ASSUME NEW i \in 1..Len(t), i > 0 PROVE t[i] = FrameOf(p, nonce, ms[(k + 1) + i - 0])
  <2>1. i + 1 \in 1..Len(s) /\ i \in 1..(Len(s) - 1) /\ k + (i + 1) = (k + 1) + i - 0
    BY <1>1, <1>5
  <2> QED
    BY <1>3, <1>5, <2>1, Zenon
<1>7. Len(ms) = (k + 1) + Len(t) - 0
  BY <1>1, <1>2, <1>5
<1>8. Frames(p, nonce, t, ms, 0, k + 1)
  BY <1>6, <1>7, Zenon DEF Frames
<1> QED
  BY <1>4, <1>8, Zenon DEF t

\* While nothing was sent the nonce may still be set.
LEMMA FramesNone ==
  ASSUME NEW p, NEW nonce, NEW other, NEW s \in Seq(Item), NEW ms \in Seq(Nat), NEW u \in Nat,
         NEW k \in Nat, Frames(p, nonce, s, ms, u, k), u <= Len(s), Len(ms) = 0
  PROVE  Frames(p, other, s, ms, u, k)
<1>1. Len(s) \in Nat /\ 0 = k + Len(s) - u
  BY DEF Frames
<1>2. \A i \in 1..Len(s) : ~(i > u)
  BY <1>1
<1> QED
  BY <1>2, Zenon DEF Frames

\* Messages that are sent do not disturb what was decoded, and the next one adds to it.
LEMMA WholeGrows ==
  ASSUME NEW rs \in Seq(Nat), NEW ms \in Seq(Nat), Whole(rs, ms), NEW n \in Nat
  PROVE  /\ Whole(rs, Append(ms, n)) /\ \A i \in 1..Len(ms) : Append(ms, n)[i] = ms[i]
         /\ \A x : Len(rs) + 1 \in 1..Len(ms) /\ x = ms[Len(rs) + 1] => Whole(Append(rs, x), ms)
<1>1. Len(rs) \in Nat /\ Len(ms) \in Nat /\ Len(rs) <= Len(ms)
  BY DEF Whole
<1> DEFINE ns == Append(ms, n)
<1>2. Len(ns) = Len(ms) + 1 /\ \A i \in 1..Len(ms) : ns[i] = ms[i]
  OBVIOUS
<1> HIDE DEF ns
<1>3. Whole(rs, ns)
  <2>1. \A i \in 1..Len(rs) : i \in 1..Len(ms)
    BY <1>1
  <2> QED
    BY <1>1, <1>2, <2>1 DEF Whole
<1>4. ASSUME NEW x, Len(rs) + 1 \in 1..Len(ms), x = ms[Len(rs) + 1] PROVE Whole(Append(rs, x), ms)
  <2> DEFINE qs == Append(rs, x)
  <2>1. x \in Nat
    BY <1>4
  <2>2. /\ Len(qs) = Len(rs) + 1 /\ qs[Len(rs) + 1] = x
        /\ \A i \in 1..Len(rs) : qs[i] = rs[i]
    BY <2>1
  <2> HIDE DEF qs
  <2>3. \A i \in 1..(Len(rs) + 1) : i = Len(rs) + 1 \/ i \in 1..Len(rs)
    BY <1>1
  <2>4. Whole(qs, ms)
    BY <1>1, <1>4, <2>2, <2>3 DEF Whole
  <2> QED
    BY <2>4, Zenon DEF qs
<1> QED
  BY <1>2, <1>3, <1>4, Zenon DEF ns

-----------------------------------------------------------------------------
(* The frames of a session, which arrive whole.  The proof rests on the    *)
(* invariant of the handshake, for which key and nonces are agreed: behind *)
(* the writes of the handshake that are still to be read, the stream holds *)
(* the frames of the messages still to be decoded.                         *)

\* The frames that an end has read: the last one, if it closed the connection, is not
\* among what it has decoded.
Taken(e) == IF ret[e] = "closed" THEN Len(received[e]) + 1 ELSE Len(received[e])

\* The writes of the handshake that e has still to read.
Unread(e, p) == put[p] - Consumed(got[e])

Framed(e, p) ==
  /\ Len(sent[p]) > 0 => ret[p] \in {"ok", "closed", "ended"}
  /\ Frames(p, writeNonce[p], stream[p], sent[p], Unread(e, p), Taken(e))

\* FramesWhole, place by place.
Decoded(e, p) ==
  /\ Whole(received[e], sent[p])
  /\ ret[e] = "closed" => /\ Len(received[e]) + 1 \in 1..Len(sent[p])
                          /\ sent[p][Len(received[e]) + 1] + Tag > BufferCap

FrameInv ==
  /\ sent \in [Ends -> Seq(Nat)] /\ received \in [Ends -> Seq(Nat)]
  /\ \A e \in Ends : Framed(e, Peer(e)) /\ Decoded(e, Peer(e))

\* At first there are no frames.
LEMMA NoFrames == Init => FrameInv
<1> SUFFICES ASSUME Init PROVE FrameInv
  BY Zenon
<1>1. sent \in [Ends -> Seq(Nat)] /\ received \in [Ends -> Seq(Nat)]
  BY DEF Init
<1>2. ASSUME NEW e \in Ends PROVE Framed(e, Peer(e)) /\ Decoded(e, Peer(e))
  <2>1. /\ got[e] = 0 /\ put[Peer(e)] = 0 /\ ret[e] = "run" /\ stream[Peer(e)] = <<>>
        /\ sent[Peer(e)] = <<>> /\ received[e] = <<>>
    BY Peers, Zenon DEF Init
  <2>2. Taken(e) = 0 /\ Unread(e, Peer(e)) = 0
    BY <2>1 DEF Taken, Unread, Consumed
  <2> QED
    BY <2>1, <2>2 DEF Framed, Decoded, Frames, Whole
<1> QED
  BY <1>1, <1>2, Zenon DEF FrameInv

\* What the invariants say of a stream that holds frames, in numbers.
LEMMA Counts ==
  ASSUME IInv, FrameInv, NEW e \in Ends, NEW p, p = Peer(e)
  PROVE  /\ p \in Ends /\ p # e /\ Peer(p) = e
         /\ Unread(e, p) \in Nat /\ Unread(e, p) <= Len(stream[p])
         /\ stream[p] \in Seq(Item) /\ Len(stream[p]) \in Nat
         /\ sent[p] \in Seq(Nat) /\ received[e] \in Seq(Nat) /\ Taken(e) \in Nat
         /\ Framed(e, p) /\ Decoded(e, p) /\ Framed(p, e) /\ Decoded(p, e)
<1>1. p \in Ends /\ p # e /\ Peer(p) = e
  BY Peers, Zenon
<1>2. got[e] \in 0..3 /\ put[p] \in 0..4 /\ stream[p] \in Seq(Item) /\ Len(stream[p]) \in Nat
  BY <1>1 DEF IInv, TypeOK
<1>3. Consumed(got[e]) \in 0..4
  BY <1>2 DEF Consumed
<1>4. Consumed(got[e]) <= put[p] /\ Len(stream[p]) >= put[p] - Consumed(got[e])
  BY Zenon DEF IInv, Streamed
<1>5. Unread(e, p) \in Nat /\ Unread(e, p) <= Len(stream[p])
  BY <1>2, <1>3, <1>4 DEF Unread
<1>6. sent[p] \in Seq(Nat) /\ received[e] \in Seq(Nat)
  BY <1>1, Zenon DEF FrameInv
<1>7. Len(received[e]) \in Nat
  BY <1>6
<1>8. Taken(e) \in Nat
  BY <1>7 DEF Taken
<1>9. Framed(e, p) /\ Decoded(e, p) /\ Framed(p, e) /\ Decoded(p, e)
  BY <1>1, Zenon DEF FrameInv
<1> QED
  BY <1>1, <1>2, <1>5, <1>6, <1>8, <1>9, Zenon

\* The invariant follows from what it says of either direction.
LEMMA BothDirections ==
  ASSUME NEW e \in Ends, NEW p, p = Peer(e),
         sent' \in [Ends -> Seq(Nat)], received' \in [Ends -> Seq(Nat)],
         Framed(e, p)', Decoded(e, p)', Framed(p, e)', Decoded(p, e)'
  PROVE  FrameInv'
BY Peers, Zenon DEF FrameInv

\* Steps that leave a direction alone, but for the nonce before the first frame.
LEMMA SameFrames ==
  ASSUME IInv, FrameInv, NEW e \in Ends, NEW p, p = Peer(e),
         sent'[p] = sent[p], received'[e] = received[e], stream'[p] = stream[p],
         put'[p] = put[p], got'[e] = got[e], ret'[e] = "closed" <=> ret[e] = "closed",
         Len(sent[p]) > 0 => writeNonce'[p] = writeNonce[p],
         ret[p] \in {"ok", "closed", "ended"} => ret'[p] \in {"ok", "closed", "ended"}
  PROVE  Framed(e, p)' /\ Decoded(e, p)'
<1>1. Taken(e)' = Taken(e) /\ Unread(e, p)' = Unread(e, p)
  BY Zenon DEF Taken, Unread
<1>2. /\ Framed(e, p) /\ Decoded(e, p) /\ stream[p] \in Seq(Item) /\ sent[p] \in Seq(Nat)
      /\ Unread(e, p) \in Nat /\ Taken(e) \in Nat /\ Unread(e, p) <= Len(stream[p])
  BY Counts, Zenon
<1>3. Decoded(e, p)'
  BY <1>2, Zenon DEF Decoded
<1>4. Frames(p, writeNonce[p], stream[p], sent[p], Unread(e, p), Taken(e))
  BY <1>2, Zenon DEF Framed
<1>5. Frames(p, writeNonce'[p], stream[p], sent[p], Unread(e, p), Taken(e))
  <2>1. CASE Len(sent[p]) > 0
    BY <1>4, <2>1, Zenon
  <2>2. CASE ~(Len(sent[p]) > 0)
    <3>1. Len(sent[p]) = 0
      BY <1>2, <2>2
    <3> QED
      BY <1>2, <1>4, <3>1, FramesNone, Zenon
  <2> QED
    BY <2>1, <2>2, Zenon
<1> QED
  BY <1>1, <1>2, <1>3, <1>5, Zenon DEF Framed

\* Before the writer of the handshake is through there are no frames.
LEMMA WriteFrames ==
  ASSUME IInv, FrameInv, NEW e \in Ends, Write(e)
  PROVE  FrameInv'
<1>0. PICK p : p = Peer(e)
  BY Zenon
<1>1. /\ TypeOK /\ p \in Ends /\ p # e /\ Peer(p) = e /\ put[e] \in 0..3 /\ put[e] < 4
      /\ put' = [put EXCEPT ![e] = @ + 1]
      /\ stream' = [stream EXCEPT ![e] = Append(@, Writes(e)[put[e] + 1])]
      /\ got' = got /\ ret' = ret /\ writeNonce' = writeNonce /\ sent' = sent /\ received' = received
  BY <1>0, Peers DEF IInv, TypeOK, Write, gcmVars
<1>2. Framed(e, p)' /\ Decoded(e, p)'
  <2>1. put'[p] = put[p] /\ stream'[p] = stream[p]
    BY <1>1, Zenon DEF TypeOK
  <2> QED
    BY <1>0, <1>1, <2>1, SameFrames, Zenon
<1>3. /\ Framed(p, e) /\ Decoded(p, e) /\ Taken(p) \in Nat
      /\ stream[e] \in Seq(Item) /\ sent[e] \in Seq(Nat)
  BY <1>1, Counts, Zenon
<1>4. Len(stream[e]) = Unread(p, e)
  BY <1>1, Zenon DEF IInv, Streamed, Unread
<1>5. Framed(p, e)' /\ Decoded(p, e)'
  <2>1. Writes(e)[put[e] + 1] \in Item
    BY <1>0, <1>1 DEF Writes, Item
  <2>2. /\ put'[e] = put[e] + 1 /\ Taken(p)' = Taken(p)
        /\ stream'[e] = Append(stream[e], Writes(e)[put[e] + 1])
    BY <1>1, Zenon DEF TypeOK, Taken
  <2>3. got[p] \in 0..3 /\ got'[p] = got[p]
    BY <1>1, Zenon DEF TypeOK
  <2>4. Consumed(got[p]) \in 0..4
    BY <2>3 DEF Consumed
  <2>5. Unread(p, e)' = Len(stream[e]) + 1
    BY <1>1, <1>4, <2>2, <2>3, <2>4 DEF Unread
  <2>6. Frames(e, writeNonce[e], stream[e], sent[e], Len(stream[e]), Taken(p))
    BY <1>3, <1>4, Zenon DEF Framed
  <2>7. Frames(e, writeNonce[e], stream'[e], sent[e], Len(stream[e]) + 1, Taken(p))
    BY <1>3, <2>1, <2>2, <2>6, FramesWritten, Zenon
  <2> QED
    BY <1>1, <1>3, <2>2, <2>5, <2>7, Zenon DEF Framed, Decoded
<1>6. sent' \in [Ends -> Seq(Nat)] /\ received' \in [Ends -> Seq(Nat)]
  BY <1>1, Zenon DEF FrameInv
<1> QED
  BY <1>0, <1>2, <1>5, <1>6, BothDirections, Zenon

\* Reads of the handshake leave the frames as they are.
LEMMA ReadFrames ==
  ASSUME IInv, FrameInv, IInv', NEW e \in Ends, ReadKey(e) \/ ReadSecret(e)
  PROVE  FrameInv'
<1>0. PICK p : p = Peer(e)
  BY Zenon
<1>1. /\ TypeOK /\ p \in Ends /\ p # e /\ Peer(p) = e /\ ret[e] = "run" /\ got[e] \in 0..2
      /\ put' = put /\ sent' = sent /\ received' = received /\ writeNonce' = writeNonce
      /\ got' = [got EXCEPT ![e] = @ + 1]
      /\ ret' = ret \/ ret' = [ret EXCEPT ![e] = "err"] \/ ret' = [ret EXCEPT ![e] = "run"]
  BY <1>0, Peers DEF IInv, TypeOK, ReadKey, ReadSecret, gcmVars
<1>2. /\ ret'[p] = ret[p] /\ ret'[e] # "closed" /\ got'[p] = got[p] /\ got'[e] = got[e] + 1
  BY <1>1, Zenon DEF TypeOK
<1>3. /\ Framed(e, p) /\ Decoded(e, p) /\ Framed(p, e) /\ Taken(e) \in Nat
      /\ stream[p] \in Seq(Item) /\ sent[p] \in Seq(Nat) /\ Unread(e, p) \in Nat
  BY <1>0, Counts, Zenon
<1>4. PICK n \in 1..2 : /\ n = (IF got[e] = 0 THEN 2 ELSE 1) /\ n <= Len(stream[p])
                        /\ stream' = [stream EXCEPT ![p] = SubSeq(@, n + 1, Len(@))]
  <2>1. CASE ReadKey(e)
    BY <1>0, <2>1 DEF ReadKey
  <2>2. CASE ReadSecret(e)
    <3>1. got[e] \in {1, 2} /\ stream[p] # <<>> /\ stream' = [stream EXCEPT ![p] = Tail(@)]
      BY <1>0, <2>2, Zenon DEF ReadSecret
    <3>2. Tail(stream[p]) = SubSeq(stream[p], 1 + 1, Len(stream[p])) /\ 1 <= Len(stream[p])
      BY <1>3, <3>1
    <3>3. stream' = [stream EXCEPT ![p] = SubSeq(@, 1 + 1, Len(@))]
      BY <3>1, <3>2, Zenon
    <3>4. 1 \in 1..2 /\ 1 = (IF got[e] = 0 THEN 2 ELSE 1)
      BY <3>1
    <3> QED
      BY <3>2, <3>3, <3>4, Zenon
  <2> QED
    BY <2>1, <2>2, Zenon
<1>5. stream'[p] = SubSeq(stream[p], n + 1, Len(stream[p])) /\ stream'[e] = stream[e]
  BY <1>1, <1>4, Zenon DEF TypeOK
<1>6. Unread(e, p)' = Unread(e, p) - n /\ n <= Unread(e, p)
  <2>1. put'[p] = put[p] /\ put[p] \in 0..4
    BY <1>1, Zenon DEF TypeOK
  <2>2. Consumed(got'[e]) = Consumed(got[e]) + n /\ Consumed(got[e]) \in 0..4
    BY <1>1, <1>2, <1>4 DEF Consumed
  <2>3. Consumed(got'[e]) <= put'[p]
    BY <1>0, Zenon DEF IInv, Streamed
  <2> QED
    BY <2>1, <2>2, <2>3 DEF Unread
<1>7. Framed(e, p)' /\ Decoded(e, p)'
  <2>1. Frames(p, writeNonce[p], stream[p], sent[p], Unread(e, p), Taken(e))
    BY <1>3, Zenon DEF Framed
  <2>2. n \in Nat /\ n <= Len(stream[p])
    BY <1>4, Zenon
  <2>3. Frames(p, writeNonce[p], stream'[p], sent[p], Unread(e, p) - n, Taken(e))
    BY <1>3, <1>5, <1>6, <2>1, <2>2, FramesAhead, Zenon
  <2>4. Taken(e)' = Taken(e)
    BY <1>1, <1>2, Zenon DEF Taken
  <2> QED
    BY <1>1, <1>2, <1>3, <1>6, <2>3, <2>4, Zenon DEF Framed, Decoded
<1>8. Framed(p, e)' /\ Decoded(p, e)'
  <2>1. ret[e] \notin {"ok", "closed", "ended"}
    BY <1>1, Zenon
  <2> QED
    BY <1>1, <1>2, <1>5, <2>1, SameFrames
<1>9. sent' \in [Ends -> Seq(Nat)] /\ received' \in [Ends -> Seq(Nat)]
  BY <1>1, Zenon DEF FrameInv
<1> QED
  BY <1>0, <1>7, <1>8, <1>9, BothDirections, Zenon

\* A message that is sent becomes the last frame of the stream.
LEMMA SendFrames ==
  ASSUME IInv, FrameInv, NEW e \in Ends, SendPrefix(e)
  PROVE  FrameInv'
<1>0. PICK p : p = Peer(e)
  BY Zenon
<1>1. PICK n \in Sizes : /\ stream' = [stream EXCEPT ![e] = Append(@, Encode(e, n))]
                         /\ sent' = [sent EXCEPT ![e] = Append(@, n)]
  BY ZenonT(60) DEF SendPrefix
<1>2. /\ TypeOK /\ p \in Ends /\ p # e /\ Peer(p) = e /\ ret[e] = "ok" /\ n \in Nat
      /\ secret[e] = p /\ put' = put /\ got' = got /\ ret' = ret
      /\ writeNonce' = writeNonce /\ received' = received
  BY <1>0, Peers, SessionConstants DEF IInv, TypeOK, InStep, SendPrefix, hsVars, gcmVars
<1>3. Encode(e, n) = FrameOf(e, writeNonce[e], n) /\ Encode(e, n) \in Item
  BY <1>0, <1>2, SessionConstants, Prefixes DEF TypeOK, Encode, FrameOf, sessionKey, Item, Frame
<1>4. /\ Framed(p, e) /\ Decoded(p, e) /\ Taken(p) \in Nat /\ received[p] \in Seq(Nat)
      /\ stream[e] \in Seq(Item) /\ sent[e] \in Seq(Nat) /\ Unread(p, e) \in Nat
      /\ Unread(p, e) <= Len(stream[e]) /\ sent \in [Ends -> Seq(Nat)]
  BY <1>2, Counts, Zenon DEF FrameInv
<1>5. /\ stream'[e] = Append(stream[e], Encode(e, n)) /\ sent'[e] = Append(sent[e], n)
      /\ stream'[p] = stream[p] /\ sent'[p] = sent[p]
  BY <1>1, <1>2, <1>4, Zenon DEF TypeOK
<1>6. Framed(e, p)' /\ Decoded(e, p)'
  BY <1>0, <1>2, <1>5, SameFrames, Zenon
<1>7. Taken(p)' = Taken(p) /\ Unread(p, e)' = Unread(p, e)
  BY <1>2, Zenon DEF Taken, Unread
<1>8. Framed(p, e)'
  <2>1. Frames(e, writeNonce[e], stream[e], sent[e], Unread(p, e), Taken(p))
    BY <1>4, Zenon DEF Framed
  <2>2. Frames(e, writeNonce[e], stream'[e], sent'[e], Unread(p, e), Taken(p))
    BY <1>2, <1>3, <1>4, <1>5, <2>1, FramesSent
  <2> QED
    BY <1>2, <1>7, <2>2, Zenon DEF Framed
<1>9. Decoded(p, e)'
  <2>1. Whole(received[p], sent[e])
    BY <1>4, Zenon DEF Decoded
  <2>2. Whole(received[p], sent'[e]) /\ \A i \in 1..Len(sent[e]) : sent'[e][i] = sent[e][i]
    BY <1>2, <1>4, <1>5, <2>1, WholeGrows
  <2>3. \A i \in 1..Len(sent[e]) : i \in 1..Len(sent'[e])
    BY <1>2, <1>4, <1>5
  <2> QED
    BY <1>2, <1>4, <2>2, <2>3, Zenon DEF Decoded
<1>10. sent' \in [Ends -> Seq(Nat)] /\ received' \in [Ends -> Seq(Nat)]
  <2>1. Append(sent[e], n) \in Seq(Nat)
    BY <1>2, <1>4
  <2> QED
    BY <1>1, <1>2, <2>1, Zenon DEF FrameInv
<1> QED
  BY <1>0, <1>6, <1>8, <1>9, <1>10, BothDirections, Zenon

\* The frame at the head of the stream is that of the message to be decoded next; the
\* two ends have one key, and the nonce that it was sealed with opens it.
LEMMA ReceiveFrames ==
  ASSUME IInv, FrameInv, NEW e \in Ends, ReceiveFrame(e), Signatory[e] # Signatory[Peer(e)]
  PROVE  FrameInv'
<1>0. PICK p : p = Peer(e)
  BY Zenon
<1>1. /\ TypeOK /\ p \in Ends /\ p # e /\ Peer(p) = e /\ stream[p] # <<>>
      /\ ret[e] = "ok" /\ got[e] = 3 /\ secret[e] = p
      /\ stream' = [stream EXCEPT ![p] = Tail(@)]
      /\ put' = put /\ got' = got /\ writeNonce' = writeNonce /\ sent' = sent
  BY <1>0, Peers, Zenon DEF IInv, InStep, ReceiveFrame
<1>2. /\ Framed(e, p) /\ Decoded(e, p) /\ Framed(p, e) /\ Decoded(p, e)
      /\ stream[p] \in Seq(Item) /\ sent[p] \in Seq(Nat) /\ received[e] \in Seq(Nat)
  BY <1>0, Counts, Zenon
<1>3. Unread(e, p) = 0 /\ Unread(e, p)' = 0 /\ Taken(e) = Len(received[e])
  <2>1. Consumed(3) <= put[p] /\ put[p] \in 0..4 /\ Consumed(3) = 4
    BY <1>0, <1>1 DEF IInv, TypeOK, Streamed, Consumed
  <2> QED
    BY <1>1, <2>1 DEF Unread, Taken
<1>4. PICK k \in Nat : k = Len(received[e])
  BY <1>2
<1>5. PICK n : n = sent[p][k + 1]
  BY Zenon
<1>6. PICK frame : frame = Head(stream[p])
  BY Zenon
<1>7. /\ Frames(p, writeNonce[p], Tail(stream[p]), sent[p], 0, k + 1)
      /\ frame = FrameOf(p, writeNonce[p], n)
      /\ k + 1 \in 1..Len(sent[p]) /\ n \in Nat
  <2>1. Frames(p, writeNonce[p], stream[p], sent[p], 0, k)
    BY <1>2, <1>3, <1>4, Zenon DEF Framed
  <2>2. /\ Frames(p, writeNonce[p], Tail(stream[p]), sent[p], 0, k + 1)
        /\ Head(stream[p]) = FrameOf(p, writeNonce[p], sent[p][k + 1])
        /\ k + 1 \in 1..Len(sent[p]) /\ sent[p][k + 1] \in Nat
    <3> QED
      BY <1>1, <1>2, <2>1, FramesTaken, Zenon
  <2> QED
    BY <1>5, <1>6, <2>2, Zenon
<1>8. writeNonce[p] = readNonce[e]
  <2>1. Len(sent[p]) > 0
    BY <1>2, <1>7
  <2>2. ret[p] \in {"ok", "closed", "ended"}
    BY <1>2, <2>1, Zenon DEF Framed
  <2>3. Signatory[e] \in Nat /\ Signatory[p] \in Nat
    BY <1>1, SessionConstants, Zenon
  <2>4. Sealed(e) /\ Sealed(p)
    BY <1>1, Zenon DEF IInv
  <2> QED
    BY <1>0, <1>1, <2>2, <2>3, <2>4 DEF Sealed
<1>9. /\ Decodes(e, frame) => frame.prefix = n
      /\ Decodes(e, frame) <=> n + Tag <= BufferCap
  <2>1. /\ frame.prefix = n % PrefixMod /\ frame.body = n + Tag /\ frame.nonce = readNonce[e]
        /\ frame.key = {p, e} /\ sessionKey(e) = {e, p}
    BY <1>1, <1>7, <1>8, Zenon DEF FrameOf, sessionKey
  <2>2. Tag \in Nat /\ BufferCap \in Nat /\ BufferCap < PrefixMod /\ PrefixMod \in Nat
    BY SessionConstants, Zenon
  <2>3. frame.prefix \in Nat /\ (n < PrefixMod => frame.prefix = n)
    BY <1>7, <2>1, Prefixes, Zenon
  <2>4. Decodes(e, frame) <=> Fits(frame.prefix) /\ frame.prefix + Tag = n + Tag
    BY <2>1, Zenon DEF Decodes
  <2>5. ASSUME NEW q \in Nat, n < PrefixMod => q = n
        PROVE  /\ Fits(q) /\ q + Tag = n + Tag => q = n
               /\ Fits(q) /\ q + Tag = n + Tag <=> n + Tag <= BufferCap
    BY <1>7, <2>2, <2>5 DEF Fits
  <2> QED
    BY <2>3, <2>4, <2>5, Zenon
<1>10. stream'[p] = Tail(stream[p]) /\ stream'[e] = stream[e]
  BY <1>1, Zenon DEF TypeOK
<1>11. CASE Decodes(e, frame)
  <2>1. received' = [received EXCEPT ![e] = Append(@, frame.prefix)] /\ ret' = ret
    BY <1>0, <1>6, <1>11, Zenon DEF ReceiveFrame
  <2>2. frame.prefix = n /\ Append(received[e], n) \in Seq(Nat)
    BY <1>2, <1>7, <1>9, <1>11
  <2>a. received \in [Ends -> Seq(Nat)] /\ sent \in [Ends -> Seq(Nat)]
    BY Zenon DEF FrameInv
  <2>3. /\ received'[e] = Append(received[e], n) /\ received'[p] = received[p]
        /\ received' \in [Ends -> Seq(Nat)] /\ sent' \in [Ends -> Seq(Nat)]
    BY <1>1, <2>1, <2>2, <2>a, Zenon
  <2>4. Len(received'[e]) = k + 1
    BY <1>2, <1>4, <1>7, <2>3
  <2>5. Taken(e)' = k + 1
    BY <1>1, <2>1, <2>4, Zenon DEF Taken
  <2>6. Framed(e, p)'
    BY <1>1, <1>2, <1>3, <1>7, <1>10, <2>1, <2>5, Zenon DEF Framed
  <2>7. Decoded(e, p)'
    <3>1. Whole(received[e], sent[p])
      BY <1>2, Zenon DEF Decoded
    <3>2. Whole(Append(received[e], n), sent[p])
      BY <1>2, <1>4, <1>5, <1>7, <3>1, WholeGrows, Zenon
    <3> QED
      BY <1>1, <2>1, <2>3, <3>2, Zenon DEF Decoded
  <2>8. Framed(p, e)' /\ Decoded(p, e)'
    BY <1>1, <1>10, <2>1, <2>3, SameFrames, Zenon
  <2> QED
    BY <1>0, <2>3, <2>6, <2>7, <2>8, BothDirections, Zenon
<1>12. CASE ~Decodes(e, frame)
  <2>1. ret' = [ret EXCEPT ![e] = "closed"] /\ received' = received
    BY <1>0, <1>6, <1>12, Zenon DEF ReceiveFrame
  <2>2. ret'[e] = "closed" /\ ret'[p] = ret[p]
    BY <1>1, <2>1, Zenon DEF TypeOK
  <2>3. Taken(e)' = k + 1
    BY <1>4, <2>1, <2>2, Zenon DEF Taken
  <2>4. Framed(e, p)'
    BY <1>1, <1>2, <1>3, <1>7, <1>10, <2>2, <2>3, Zenon DEF Framed
  <2>5. Decoded(e, p)'
    <3>1. n + Tag > BufferCap
      BY <1>7, <1>9, <1>12, SessionConstants
    <3> QED
      BY <1>1, <1>2, <1>4, <1>5, <1>7, <2>1, <3>1, Zenon DEF Decoded
  <2>6. Framed(p, e)' /\ Decoded(p, e)'
    BY <1>1, <1>10, <2>1, <2>2, SameFrames
  <2>7. sent' \in [Ends -> Seq(Nat)] /\ received' \in [Ends -> Seq(Nat)]
    BY <1>1, <2>1, Zenon DEF FrameInv
  <2> QED
    BY <1>0, <2>4, <2>5, <2>6, <2>7, BothDirections, Zenon
<1> QED
  BY <1>11, <1>12, Zenon

\* Steps that send, receive and read nothing: nonces are set before the first frame.
LEMMA OtherFrames ==
  ASSUME IInv, FrameInv,
         \/ Break \/ UNCHANGED vars
         \/ \E e \in Ends : \/ WriteFails(e) \/ WriterClosed(e) \/ ReadFails(e) \/ Join(e)
                           \/ FrameFails(e) \/ SendBody(e)
  PROVE  FrameInv'
<1>1. /\ TypeOK /\ put' = put /\ got' = got /\ stream' = stream
      /\ sent' = sent /\ received' = received
  BY Zenon DEF IInv, Break, WriteFails, WriterClosed, ReadFails, FrameFails, SendBody, Join,
               vars, hsVars
<1>2. ASSUME NEW f \in Ends
      PROVE  /\ ret'[f] = "closed" <=> ret[f] = "closed"
             /\ ret[f] \in {"ok", "closed", "ended"} =>
                  ret'[f] \in {"ok", "closed", "ended"} /\ writeNonce'[f] = writeNonce[f]
  <2>1. CASE \E e \in Ends : Join(e)
    <3>1. PICK e \in Ends : Join(e)
      BY <2>1, Zenon
    <3>2. ret[e] = "run" /\ (ret' = [ret EXCEPT ![e] = "err"] \/ ret' = [ret EXCEPT ![e] = "ok"])
      BY <3>1, ZenonT(60) DEF Join, Filter
    <3>3. writeNonce' = writeNonce \/ writeNonce' = [writeNonce EXCEPT ![e] = MaxNonce]
      BY <3>1, Zenon DEF Join, NewGCMSession, gcmVars
    <3> QED
      BY <1>1, <3>2, <3>3, Zenon DEF TypeOK
  <2>2. CASE ~\E e \in Ends : Join(e)
    <3>1. writeNonce' = writeNonce
      BY <1>1, <2>2, SameNonce, Zenon DEF Break, WriteFails, WriterClosed, ReadFails, FrameFails,
                                          vars, gcmVars
    <3>2. \/ ret' = ret
          \/ \E e \in Ends : ret[e] = "run" /\ ret' = [ret EXCEPT ![e] = "err"]
          \/ \E e \in Ends : ret[e] = "ok" /\ ret' = [ret EXCEPT ![e] = "ended"]
      BY <2>2, Zenon DEF Break, WriteFails, WriterClosed, ReadFails, FrameFails, SendBody, vars, hsVars
    <3> QED
      BY <1>1, <3>1, <3>2, Zenon DEF TypeOK
  <2> QED
    BY <2>1, <2>2, Zenon
<1>3. ASSUME NEW f \in Ends PROVE Framed(f, Peer(f))' /\ Decoded(f, Peer(f))'
  <2>0. PICK q : q = Peer(f)
    BY Zenon
  <2>1. q \in Ends /\ Framed(f, q)
    BY <2>0, Counts, Zenon
  <2>2. Len(sent[q]) > 0 => writeNonce'[q] = writeNonce[q]
    BY <1>2, <2>1, Zenon DEF Framed
  <2>3. ret[q] \in {"ok", "closed", "ended"} => ret'[q] \in {"ok", "closed", "ended"}
    BY <1>2, <2>1, Zenon
  <2>4. ret'[f] = "closed" <=> ret[f] = "closed"
    BY <1>2, Zenon
  <2> QED
    BY <1>1, <2>0, <2>2, <2>3, <2>4, SameFrames, Zenon
<1> QED
  BY <1>1, <1>3, Zenon DEF FrameInv

\* What an end decodes is what the other encoded, message by message; a message is
\* refused only for want of room for its tag, and none after it is decoded.  The ends
\* are those of different peers.
THEOREM FramesWholeHolds ==
  ASSUME \A e, f \in Ends : Signatory[e] = Signatory[f] => e = f
  PROVE  Spec => []FramesWhole
<1>1. IInv /\ FrameInv /\ [Next]_vars => FrameInv'
  <2> SUFFICES ASSUME IInv, FrameInv, [Next]_vars PROVE FrameInv'
    BY Zenon
  <2>1. ASSUME NEW e \in Ends, ReceiveFrame(e) PROVE FrameInv'
    <3>1. Signatory[e] # Signatory[Peer(e)]
      BY Peers, Zenon
    <3> QED
      BY <2>1, <3>1, ReceiveFrames, Zenon
  <2>2. IInv'
    BY Step, Zenon
  <2> QED
    BY <2>1, <2>2, WriteFrames, ReadFrames, SendFrames, OtherFrames, Zenon DEF Next, Writer, Reader
<1>2. IInv /\ FrameInv => FramesWhole
  <2> SUFFICES ASSUME IInv, FrameInv, NEW e \in Ends
               PROVE  /\ received[e] = SubSeq(sent[Peer(e)], 1, Len(received[e]))
                      /\ ret[e] = "closed" =>
                           sent[Peer(e)][Len(received[e]) + 1] + Tag > BufferCap
    BY Zenon DEF FramesWhole
  <2>0. PICK p : p = Peer(e)
    BY Zenon
  <2>1. received[e] \in Seq(Nat) /\ sent[p] \in Seq(Nat) /\ Decoded(e, p)
    BY <2>0, Counts, Zenon
  <2>2. received[e] = SubSeq(sent[p], 1, Len(received[e]))
    BY <2>1 DEF Decoded, Whole
  <2>3. ret[e] = "closed" => sent[p][Len(received[e]) + 1] + Tag > BufferCap
    BY <2>1, Zenon DEF Decoded
  <2> QED
    BY <2>0, <2>2, <2>3, Zenon
<1> QED
  BY <1>1, <1>2, Initially, NoFrames, Step, PTL DEF Spec

-----------------------------------------------------------------------------
(* The four goroutines of a handshake do not wait for each other.          *)

\* A goroutine ends early only when the connection has ended.
Cause(e) ==
  /\ wr[e] = "run" => put[e] < 4
  /\ wr[e] = "err" \/ ret[e] \in {"err", "closed", "ended"} => broken

CauseInv == \A e \in Ends : Cause(e)

\* A step of one end after which what has ended early still has its cause.
LEMMA CauseKept ==
  ASSUME TypeOK, CauseInv, NEW e \in Ends, NEW w, NEW n, NEW r, NEW b,
         put' = [put EXCEPT ![e] = n], wr' = [wr EXCEPT ![e] = w], ret' = [ret EXCEPT ![e] = r],
         broken' = b, broken => b, w = "run" => n < 4,
         w = "err" \/ r \in {"err", "closed", "ended"} => b
  PROVE  CauseInv'
<1> SUFFICES ASSUME NEW f \in Ends PROVE Cause(f)'
  BY Zenon DEF CauseInv
<1>1. Cause(f) /\ Cause(e)
  BY Zenon DEF CauseInv
<1>2. CASE f = e
  <2>1. put'[f] = n /\ wr'[f] = w /\ ret'[f] = r
    BY <1>2, Zenon DEF TypeOK
  <2> QED
    BY <2>1, Zenon DEF Cause
<1>3. CASE f # e
  <2>1. put'[f] = put[f] /\ wr'[f] = wr[f] /\ ret'[f] = ret[f]
    BY <1>3, Zenon DEF TypeOK
  <2> QED
    BY <1>1, <2>1, Zenon DEF Cause
<1> QED
  BY <1>2, <1>3, Zenon

\* Every step keeps the causes.
LEMMA CauseStep == TypeOK /\ CauseInv /\ [Next]_vars => CauseInv'
<1> SUFFICES ASSUME TypeOK, CauseInv, [Next]_vars PROVE CauseInv'
  BY Zenon
<1>0. ASSUME NEW e \in Ends
      PROVE  /\ put = [put EXCEPT ![e] = put[e]] /\ wr = [wr EXCEPT ![e] = wr[e]]
             /\ ret = [ret EXCEPT ![e] = ret[e]] /\ Cause(e) /\ put[e] \in 0..4
  BY DEF TypeOK, CauseInv
<1>1. ASSUME put' = put, wr' = wr, ret' = ret, broken => broken' PROVE CauseInv'
  BY <1>1, Zenon DEF CauseInv, Cause
<1>2. ASSUME NEW e \in Ends, Write(e) PROVE CauseInv'
  <2>1. /\ put' = [put EXCEPT ![e] = put[e] + 1] /\ ret' = [ret EXCEPT ![e] = ret[e]] /\ broken' = broken
        /\ wr' = [wr EXCEPT ![e] = IF put[e] = 3 THEN "done" ELSE "run"] /\ wr[e] = "run"
    BY <1>0, <1>2, Zenon DEF Write
  <2>2. (IF put[e] = 3 THEN "done" ELSE "run") = "run" => put[e] + 1 < 4
    BY <1>0, <2>1 DEF Cause
  <2>3. (IF put[e] = 3 THEN "done" ELSE "run") # "err"
    OBVIOUS
  <2> QED
    BY <1>0, <2>1, <2>2, <2>3, CauseKept, Zenon DEF Cause
<1>3. ASSUME NEW e \in Ends, WriteFails(e) \/ WriterClosed(e) PROVE CauseInv'
  <2>1. PICK w : w # "run" /\ wr' = [wr EXCEPT ![e] = w] /\ (w = "err" => broken)
    BY <1>3 DEF WriteFails, WriterClosed
  <2>2. put' = [put EXCEPT ![e] = put[e]] /\ ret' = [ret EXCEPT ![e] = ret[e]] /\ broken' = broken
    BY <1>0, <1>3, Zenon DEF WriteFails, WriterClosed
  <2> QED
    BY <1>0, <2>1, <2>2, CauseKept, Zenon DEF Cause
<1>4. ASSUME NEW e \in Ends, ReadKey(e) \/ SendPrefix(e) \/ SendBody(e) PROVE CauseInv'
  BY <1>1, <1>4, Zenon DEF ReadKey, SendPrefix, SendBody, hsVars
<1>5. ASSUME NEW e \in Ends,
             ReadSecret(e) \/ ReadFails(e) \/ Join(e) \/ ReceiveFrame(e) \/ FrameFails(e)
      PROVE  CauseInv'
  <2>1. PICK r : ret' = [ret EXCEPT ![e] = r] /\ (r \in {"err", "closed", "ended"} => broken')
    <3>1. CASE ReadSecret(e)
      BY <3>1, Zenon DEF ReadSecret, TypeOK
    <3>2. CASE ReadFails(e)
      BY <3>2, Zenon DEF ReadFails
    <3>3. CASE Join(e)
      <4>1. PICK r : ret' = [ret EXCEPT ![e] = r] /\ r \in {"ok", "err"}
        BY <3>3, Zenon DEF Join, Filter
      <4>2. ret'[e] = r
        BY <4>1, Zenon DEF TypeOK
      <4>3. r = "err" => broken'
        BY <3>3, <4>2, Zenon DEF Join
      <4>4. r # "closed" /\ r # "ended"
        BY <4>1
      <4> QED
        BY <4>1, <4>3, <4>4, Zenon
    <3>4. CASE ReceiveFrame(e)
      BY <1>0, <3>4, Zenon DEF ReceiveFrame, Cause
    <3>5. CASE FrameFails(e)
      BY <3>5, Zenon DEF FrameFails
    <3> QED
      BY <1>5, <3>1, <3>2, <3>3, <3>4, <3>5, Zenon
  <2>2. broken => broken'
    BY <1>5, Zenon DEF ReadSecret, ReadFails, Join, ReceiveFrame, FrameFails
  <2>3. put' = [put EXCEPT ![e] = put[e]] /\ wr' = [wr EXCEPT ![e] = wr[e]]
    BY <1>0, <1>5, Zenon DEF ReadSecret, ReadFails, Join, ReceiveFrame, FrameFails
  <2> QED
    BY <1>0, <2>1, <2>2, <2>3, CauseKept, Zenon DEF Cause
<1>6. CASE Break \/ UNCHANGED vars
  <2>1. put' = put /\ wr' = wr /\ ret' = ret /\ (broken => broken')
    BY <1>6 DEF Break, vars, hsVars
  <2> QED
    BY <1>1, <2>1, Zenon
<1> QED
  BY <1>2, <1>3, <1>4, <1>5, <1>6, Zenon DEF Next, Writer, Reader

\* An end whose goroutines both wait, on a connection that has not ended, waits for the
\* other end's next write.
LEMMA WaitsForPeer ==
  ASSUME IInv, CauseInv, ~broken, NEW e \in Ends, NEW p \in Ends, p = Peer(e),
         ~WriterReady(e), ~ReaderReady(e), ret[e] = "run" \/ wr[e] = "run"
  PROVE  /\ ret[e] = "run" /\ got[e] < 3 /\ put[p] < 4
         /\ put[p] = Consumed(got[e]) \/ got[e] = 0
         /\ got[e] = 0 => put[p] < 2
         /\ wr[e] = "run" => got[e] < 2 /\ put[e] = got[e] + 2
         /\ wr[e] # "run" => put[e] = 4
<1> USE DEF Consumed
<1>1. /\ got[e] \in 0..3 /\ put[e] \in 0..4 /\ put[p] \in 0..4 /\ Len(stream[p]) \in Nat
      /\ stream[p] # <<>> <=> Len(stream[p]) > 0
  <2>1. stream[p] \in Seq(Item)
    BY DEF IInv, TypeOK
  <2>2. stream[p] # <<>> <=> Len(stream[p]) > 0
    BY <2>1
  <2> QED
    BY <2>1, <2>2 DEF IInv, TypeOK
<1>2. wr[e] \in {"run", "done", "err"} /\ ret[e] \in {"run", "ok", "err", "closed", "ended"}
  BY DEF IInv, TypeOK
<1>3. Streamed(e, p) /\ InStep(e) /\ Cause(e)
  BY Zenon DEF IInv, CauseInv
<1>4. Len(stream[p]) >= put[p] - Consumed(got[e]) /\ (put[p] < 4 => Len(stream[p]) = put[p] - Consumed(got[e]))
      /\ Consumed(got[e]) <= put[p]
  BY <1>3, Zenon DEF Streamed
<1>5. ret[e] = "run"
  <2>1. CASE wr[e] = "run"
    BY <2>1, Zenon DEF WriterReady
  <2> QED
    BY <2>1, Zenon
<1>6. wr[e] # "run" => wr[e] = "done" /\ put[e] = 4
  BY <1>2, <1>3, <1>5, Zenon DEF Cause, InStep
<1>7. wr[e] = "run" => put[e] < 4 /\ ~(got[e] >= Needs[put[e] + 1])
  BY <1>3, Zenon DEF Cause, WriterReady
<1>8. wr[e] = "run" => got[e] < 2 /\ put[e] = got[e] + 2
  <2> SUFFICES ASSUME wr[e] = "run" PROVE got[e] < 2 /\ put[e] = got[e] + 2
    OBVIOUS
  <2>1. put[e] = 3 => got[e] >= 1
    BY <1>3, Zenon DEF InStep
  <2>2. Needs[1] = 0 /\ Needs[2] = 0 /\ Needs[3] = 1 /\ Needs[4] = 2
    BY DEF Needs
  <2>3. put[e] \in {0, 1, 2, 3}
    BY <1>1, <1>7
  <2> QED
    BY <1>1, <1>7, <2>1, <2>2, <2>3
<1>9. /\ got[e] = 0 => Len(stream[p]) < 2
      /\ got[e] \in {1, 2} => Len(stream[p]) = 0
      /\ got[e] # 3
  <2>1. got[e] = 0 => ~(Len(stream[p]) >= 2)
    BY <1>5, Zenon DEF ReaderReady
  <2>2. got[e] \in {1, 2} => stream[p] = <<>>
    BY <1>5, Zenon DEF ReaderReady
  <2>3. got[e] = 3 => wr[e] = "run"
    BY <1>5, Zenon DEF ReaderReady
  <2> QED
    BY <1>1, <1>8, <2>1, <2>2, <2>3
<1> QED
  BY <1>1, <1>4, <1>5, <1>6, <1>8, <1>9

\* ecies.go: the reader waits for what the remote's writer writes, a writer for what its
\* own reader has got, and the reader at last for its writer.  Where both ends take part
\* one of the four can always go on: the writers write their keys before they wait for
\* anything, and each secret needs only what has been written before it.
THEOREM NoDeadlockHolds ==
  ASSUME Silent = {} PROVE Spec => []NoDeadlock
<1>1. Init => CauseInv
  <2> SUFFICES ASSUME Init, NEW e \in Ends PROVE Cause(e)
    BY Zenon DEF CauseInv
  <2>1. put[e] = 0 /\ wr[e] = "run" /\ ret[e] = "run"
    BY Zenon DEF Init
  <2> QED
    BY <2>1 DEF Cause
<1>2. IInv /\ CauseInv => NoDeadlock
  <2> SUFFICES ASSUME IInv, CauseInv, NEW e \in Ends, ret[e] = "run" \/ wr[e] = "run",
                      \A f \in Ends : ~WriterReady(f) /\ ~ReaderReady(f)
               PROVE  FALSE
    BY Zenon DEF NoDeadlock
  <2>0. PICK p : p = Peer(e)
    BY Zenon
  <2>1. p \in Ends /\ Peer(p) = e
    BY <2>0, Peers, Zenon
  <2>2. got[e] \in 0..3 /\ got[p] \in 0..3 /\ put[e] \in 0..4 /\ put[p] \in 0..4
    BY <2>1 DEF IInv, TypeOK
  <2>3. ~broken
    <3> SUFFICES ASSUME broken PROVE FALSE
      OBVIOUS
    <3>1. ret[e] = "run"
      BY Zenon DEF WriterReady
    <3>2. got[e] = 3
      BY <2>2, <3>1 DEF ReaderReady
    <3>3. wr[e] = "run"
      BY <3>1, <3>2, Zenon DEF ReaderReady
    <3>4. put[e] < 4 /\ ~(got[e] >= Needs[put[e] + 1])
      BY <3>3, Zenon DEF CauseInv, Cause, WriterReady
    <3> QED
      BY <2>2, <3>2, <3>4 DEF Needs
  <2>4. /\ got[e] < 3 /\ put[p] < 4 /\ (put[p] = Consumed(got[e]) \/ got[e] = 0)
        /\ (got[e] = 0 => put[p] < 2)
    BY <2>0, <2>1, <2>3, WaitsForPeer, Zenon
  <2>5. wr[p] = "run"
    <3>1. IInv => InStep(p) /\ wr[p] \in {"run", "done", "err"}
      BY <2>1 DEF IInv, TypeOK
    <3>2. Cause(p) /\ ~broken
      BY <2>1, <2>3, Zenon DEF CauseInv
    <3>3. CASE ret[p] = "run"
      BY <2>2, <2>4, <3>1, <3>2, <3>3 DEF InStep, Cause
    <3>4. CASE ret[p] # "run"
      <4>1. ret[p] \in {"run", "ok", "err", "closed", "ended"}
        BY <2>1 DEF IInv, TypeOK
      <4> QED
        BY <2>2, <2>4, <3>1, <3>2, <3>4, <4>1 DEF InStep, Cause
    <3> QED
      BY <3>3, <3>4, Zenon
  <2>6. /\ got[p] < 2 /\ put[p] = got[p] + 2 /\ put[e] < 4
        /\ (put[e] = Consumed(got[p]) \/ got[p] = 0) /\ (got[p] = 0 => put[e] < 2)
    BY <2>1, <2>3, <2>5, WaitsForPeer, Zenon
  <2>7. wr[e] # "run" => put[e] = 4
    BY <2>0, <2>1, <2>3, WaitsForPeer, Zenon
  <2>8. wr[e] = "run" => put[e] = got[e] + 2
    BY <2>0, <2>1, <2>3, WaitsForPeer, Zenon
  <2> QED
    BY <2>2, <2>4, <2>6, <2>7, <2>8 DEF Consumed
<1>3. IInv => TypeOK
  BY Zenon DEF IInv
<1> QED
  BY <1>1, <1>2, <1>3, CauseStep, Initially, Step, PTL DEF Spec
=============================================================================
