----------------------------- MODULE SyncFilter -----------------------------
(* The filter of synchronisation messages (channel/filter.go): how many    *)
(* callers expect each content ID.  Each operation holds expectingMu, so   *)
(* it is one step.  A Go map reads as zero where it has no entry.          *)
EXTENDS Integers

CONSTANTS
  Contents,   \* content IDs
  NoEntry     \* the map has no entry for a content ID

VARIABLE expecting

FilterInit == expecting = [c \in Contents |-> NoEntry]

Count(c) == IF expecting[c] = NoEntry THEN 0 ELSE expecting[c]

Allow(c) == expecting' = [expecting EXCEPT ![c] = Count(c) + 1]

\* Bug: Deny forgets the content ID, whoever else allowed it.
Deny_Bug(c) == expecting' = [expecting EXCEPT ![c] = NoEntry]

Deny(c) == expecting' = [expecting EXCEPT ![c] = IF Count(c) = 1 THEN NoEntry ELSE Count(c) - 1]

Filter(c) == expecting[c] = NoEntry

-----------------------------------------------------------------------------
(* The filter on its own, used in any order.                               *)

MaxCount == 2

FilterNext ==
  \E c \in Contents : \/ Count(c) < MaxCount /\ Allow(c)
                      \/ Count(c) > -MaxCount /\ Deny(c)

FilterSpec == FilterInit /\ [][FilterNext]_expecting

\* "If there are no calls to Allow, this method does nothing" (Deny): only
\* Allow creates an entry, and by default content stays denied.
DeniedByDefault ==
  [][\A c \in Contents : expecting[c] = NoEntry => expecting'[c] \in {NoEntry, 1}]_expecting
=============================================================================
