------------------------------- MODULE Outbox -------------------------------
(***************************************************************************)
(* What a Channel promises the goroutines that send on it: a FIFO queue    *)
(* from which messages are emitted one at a time, each exactly once, and   *)
(* from which only a message that cannot be marshaled is ever discarded.   *)
(* Connections, faults, replacements and retries are invisible here.       *)
(***************************************************************************)
EXTENDS Sequences

CONSTANTS Msgs,         \* the messages that may be sent
          Unmarshalable \* those that wire.Msg.Marshal refuses

VARIABLES queue,  \* accepted from senders and not yet emitted
          out     \* emitted, oldest first

outboxVars == <<queue, out>>

OutboxInit == queue = <<>> /\ out = <<>>

Enqueue(msg) == queue' = Append(queue, msg) /\ out' = out

Emit ==
  /\ queue # <<>> /\ Head(queue) \notin Unmarshalable
  /\ out' = Append(out, Head(queue))
  /\ queue' = Tail(queue)

Discard ==
  /\ queue # <<>> /\ Head(queue) \in Unmarshalable
  /\ queue' = Tail(queue)
  /\ out' = out

OutboxNext == (\E msg \in Msgs : Enqueue(msg)) \/ Emit \/ Discard

OutboxSpec == OutboxInit /\ [][OutboxNext]_outboxVars
=============================================================================
