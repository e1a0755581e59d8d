------------------------------- MODULE Syncer -------------------------------
(* Content synchronisation (peer/sync.go): calls of Sync that share the    *)
(* pending entry of a content ID, their waiting goroutines, the Deny that  *)
(* each leaves behind for WiggleTimeout, and the receive loop that signals *)
(* the entry when a synchronisation message arrives.                       *)
(*                                                                         *)
(* An entry (pendingContent) is named after the call that created it.      *)
(* Answers to pulls are counted on the wire: each arrives at any later     *)
(* time, or never.  SyncData is never nil here, since the Channel reads it *)
(* from a frame of its own.                                                *)
EXTENDS SyncFilter, FiniteSets

CONSTANTS
  Calls,        \* calls of Sync
  ContentOf,    \* the content ID of each call
  Alpha,        \* pulls of one call: the hint and opts.Alpha random peers
  Cancellable,  \* calls whose context may end
  NoCall, NoContent

ASSUME SyncerConstants ==
  /\ ContentOf \in [Calls -> Contents] /\ Cancellable \subseteq Calls /\ Alpha \in Nat
  /\ NoCall \notin Calls /\ NoContent \notin Contents /\ NoEntry \notin Int
  /\ IsFiniteSet(Calls)

VARIABLES
  pending,   \* the map of pending entries
  content,   \* entries whose content was set
  pc,        \* where each call is
  entry,     \* the entry that each call holds
  pulls,     \* pulls that each call has started
  ctxDone,   \* calls whose context has ended
  waiter,    \* the goroutine of pending.wait(): "off", "blocked" or "sent"
  result,    \* what each call returned
  wire,      \* answers under way, by content ID
  handler    \* the content ID that DidReceiveMessage let through the filter

vars == <<expecting, pending, content, pc, entry, pulls, ctxDone, waiter, result, wire, handler>>
callVars == <<pc, entry, pulls, waiter, result>>

Init ==
  /\ FilterInit /\ pending = [c \in Contents |-> NoCall] /\ content = {}
  /\ pc = [k \in Calls |-> "idle"] /\ entry = [k \in Calls |-> NoCall]
  /\ pulls = [k \in Calls |-> 0] /\ ctxDone = {} /\ waiter = [k \in Calls |-> "off"]
  /\ result = [k \in Calls |-> "none"] /\ wire = [c \in Contents |-> 0]
  /\ handler = NoContent

Go(k, from, to) == pc[k] = from /\ pc' = [pc EXCEPT ![k] = to]

-----------------------------------------------------------------------------
(* Sync.                                                                   *)

\* Under pendingMu, takes the entry of the content ID or creates it.
Lookup(k) ==
  LET c == ContentOf[k]
      e == IF pending[c] = NoCall THEN k ELSE pending[c]
  IN  /\ Go(k, "idle", "allow")
      /\ entry' = [entry EXCEPT ![k] = e] /\ pending' = [pending EXCEPT ![c] = e]
      /\ UNCHANGED <<expecting, content, pulls, ctxDone, waiter, result, wire, handler>>

\* A call that shares an entry only waits.
AllowContent(k) ==
  /\ Go(k, "allow", IF entry[k] = k THEN "pull" ELSE "wait")
  /\ Allow(ContentOf[k])
  /\ waiter' = [waiter EXCEPT ![k] = IF entry[k] = k THEN "off" ELSE "blocked"]
  /\ UNCHANGED <<pending, content, entry, pulls, ctxDone, result, wire, handler>>

\* The next peer is sent a pull in the background; it answers, or not.
Pull(k) ==
  /\ pc[k] = "pull" /\ k \notin ctxDone /\ pulls[k] < Alpha
  /\ pulls' = [pulls EXCEPT ![k] = @ + 1]
  /\ \E answers \in {0, 1} : wire' = [wire EXCEPT ![ContentOf[k]] = @ + answers]
  /\ UNCHANGED <<expecting, pending, content, pc, entry, ctxDone, waiter, result, handler>>

\* No peer is left: there may be fewer than Alpha.
Wait(k) ==
  /\ Go(k, "pull", "wait")
  /\ waiter' = [waiter EXCEPT ![k] = "blocked"]
  /\ UNCHANGED <<expecting, pending, content, entry, pulls, ctxDone, result, wire, handler>>

\* Bug: cond.Signal in place of cond.Broadcast wakes one goroutine of an entry.
WaiterWake_Bug(k) ==
  /\ waiter[k] = "blocked" /\ entry[k] \in content
  /\ \A j \in Calls : entry[j] = entry[k] => waiter[j] # "sent"
  /\ waiter' = [waiter EXCEPT ![k] = "sent"]
  /\ UNCHANGED <<expecting, pending, content, pc, entry, pulls, ctxDone, result, wire, handler>>

\* The goroutine of pending.wait() finds the content, and its channel has room.
WaiterWake(k) ==
  /\ waiter[k] = "blocked" /\ entry[k] \in content
  /\ waiter' = [waiter EXCEPT ![k] = "sent"]
  /\ UNCHANGED <<expecting, pending, content, pc, entry, pulls, ctxDone, result, wire, handler>>

ReturnContent(k) ==
  /\ waiter[k] = "sent" /\ Go(k, "wait", "cleanup")
  /\ result' = [result EXCEPT ![k] = "content"]
  /\ UNCHANGED <<expecting, pending, content, entry, pulls, ctxDone, waiter, wire, handler>>

\* Bug: a call whose context ends returns without its deferred clean-up of pending.
ReturnCancelled_Bug(k) ==
  /\ k \in ctxDone /\ pc[k] \in {"pull", "wait"}
  /\ pc' = [pc EXCEPT ![k] = "wiggle"]
  /\ result' = [result EXCEPT ![k] = "cancelled"]
  /\ UNCHANGED <<expecting, pending, content, entry, pulls, ctxDone, waiter, wire, handler>>

\* While it starts pulls, and while it waits.
ReturnCancelled(k) ==
  /\ k \in ctxDone /\ pc[k] \in {"pull", "wait"}
  /\ pc' = [pc EXCEPT ![k] = "cleanup"]
  /\ result' = [result EXCEPT ![k] = "cancelled"]
  /\ UNCHANGED <<expecting, pending, content, entry, pulls, ctxDone, waiter, wire, handler>>

\* Deferred: deletes whatever entry the content ID has.
Cleanup(k) ==
  /\ Go(k, "cleanup", "wiggle")
  /\ pending' = [pending EXCEPT ![ContentOf[k]] = NoCall]
  /\ UNCHANGED <<expecting, content, entry, pulls, ctxDone, waiter, result, wire, handler>>

\* Deferred: after WiggleTimeout.
DenyContent(k) ==
  /\ Go(k, "wiggle", "done")
  /\ Deny(ContentOf[k])
  /\ UNCHANGED <<pending, content, entry, pulls, ctxDone, waiter, result, wire, handler>>

Cancel(k) ==
  /\ k \in Cancellable \ ctxDone
  /\ ctxDone' = ctxDone \cup {k}
  /\ UNCHANGED <<expecting, pending, content, callVars, wire, handler>>

-----------------------------------------------------------------------------
(* DidReceiveMessage, in the receive loop: one message at a time.          *)

Receive(c) ==
  /\ handler = NoContent /\ wire[c] > 0
  /\ wire' = [wire EXCEPT ![c] = @ - 1]
  /\ handler' = IF Filter(c) THEN NoContent ELSE c
  /\ UNCHANGED <<expecting, pending, content, callVars, ctxDone>>

Signal(c) ==
  /\ handler = c /\ handler' = NoContent
  /\ content' = content \cup ({pending[c]} \ {NoCall})
  /\ UNCHANGED <<expecting, pending, callVars, ctxDone, wire>>

-----------------------------------------------------------------------------
CallStep(k) ==
  \/ Lookup(k) \/ AllowContent(k) \/ Pull(k) \/ Wait(k) \/ WaiterWake(k)
  \/ ReturnContent(k) \/ ReturnCancelled(k) \/ Cleanup(k) \/ DenyContent(k)

Next ==
  \/ \E k \in Calls : CallStep(k) \/ Cancel(k)
  \/ \E c \in Contents : Receive(c) \/ Signal(c)

Spec == Init /\ [][Next]_vars

\* Goroutines run on; contexts need not end, and answers need not arrive.
Fairness ==
  /\ \A k \in Calls : WF_vars(Wait(k) \/ WaiterWake(k) \/ ReturnContent(k) \/ ReturnCancelled(k)
                              \/ Cleanup(k) \/ DenyContent(k))
  /\ \A c \in Contents : WF_vars(Signal(c))

FairSpec == Spec /\ Fairness

-----------------------------------------------------------------------------
\* The calls of Sync that allowed a content ID and have not denied it yet.
Allowing(c) == {k \in Calls : ContentOf[k] = c /\ pc[k] \in {"pull", "wait", "cleanup", "wiggle"}}

\* The filter expects a content ID exactly as often as there are calls of Sync
\* that allowed it and have not yet, WiggleTimeout after they returned, denied
\* it: answers are never shut out early, nor let in for ever.
AllowedExactly ==
  \A c \in Contents :
    /\ Count(c) = Cardinality(Allowing(c))
    /\ Filter(c) = (Count(c) = 0)

\* An entry is pending only while a call of Sync for its content ID is under way:
\* failed calls leave none behind ("the corresponding pending content condition
\* variable should be deleted", sync_test.go).
PendingOwned ==
  \A c \in Contents : pending[c] # NoCall =>
    \E k \in Calls : ContentOf[k] = c /\ pc[k] \in {"allow", "pull", "wait", "cleanup"}

\* No call for a content ID ends early, and one that cleans up deletes its own entry,
\* unless that is gone already.
Orderly(c) ==
  \A k \in Calls : ContentOf[k] = c =>
    /\ k \notin ctxDone
    /\ pc[k] = "cleanup" => pending[c] \in {entry[k], NoCall}

\* A waiting call returns once an answer for its content ID has passed the filter,
\* however many calls share the entry, if none of them ends early and none deletes the
\* entry of a later call.
AnswerReturns ==
  \A k \in Calls :
    []Orderly(ContentOf[k]) => ((pc[k] = "wait" /\ handler = ContentOf[k]) ~> pc[k] # "wait")

\* When an answer is applied, every call that waits for this content ID has it.
Awakens(c) ==
  handler = c /\ handler' = NoContent =>
    \A k \in Calls : ContentOf[k] = c /\ pc[k] = "wait" => entry[k] \in content'

\* "All goroutines waiting on the content will be awaken" (signal).
AllAwaken == [][\A c \in Contents : Awakens(c)]_vars
=============================================================================
