------------------------------ MODULE Listener ------------------------------
(* The accept loop (tcp.ListenWithListener) and the policies it applies to *)
(* connections (policy/allow.go): Max, RateLimit and functions of the      *)
(* application, combined by All or Any.  Accept loops may share the        *)
(* counter of one Max.  RateLimit takes no lock, so one loop only may use  *)
(* it.                                                                     *)
(*                                                                         *)
(* Max is one counter.  The clean-up that a combination returns is the     *)
(* number of slots of that counter that it gives back.  A rate limiter is  *)
(* the number of tokens it has left; time refills it.                      *)
EXTENDS Integers, Sequences, FiniteSets, Functions

CONSTANTS
  Loops,      \* accept loops
  Conns,      \* connections that arrive
  Ip,         \* the address that each one comes from
  Policies,   \* the Allow functions of each loop, in order: "max", "rate" or "other"
  Mode,       \* how each loop combines them: "all" or "any"
  MaxConns,   \* parameter of Max
  Burst,      \* parameter b of RateLimit
  Cap,        \* parameter cap of RateLimit
  Refills,    \* bound on the tokens that time adds
  NoConn

ASSUME ListenerConstants ==
  /\ \A l \in Loops : Policies[l] \in Seq({"max", "rate", "other"}) /\ Mode[l] \in {"all", "any"}
  /\ \A l, k \in Loops : "rate" \in Range(Policies[l]) \cap Range(Policies[k]) => l = k
  /\ MaxConns \in Int /\ Burst \in Nat /\ Cap \in Nat /\ Refills \in Nat
  /\ NoConn \notin Conns

IPs == {Ip[c] : c \in Conns}

VARIABLES
  loop,      \* where each accept loop is
  cur,       \* the connection it has accepted
  i,         \* the Allow function it is calling
  any,       \* Any: one has passed
  state,     \* of each connection: "new", "checked", "handled", "cleaned", "closed"
  conns,     \* Max: connections counted
  cleanup,   \* slots that the clean-up of each connection gives back
  leaked,    \* history: connections that each loop has closed while they held slots
  front,     \* RateLimit: limiters by address; -1 where the map has none
  back,
  refills,   \* tokens added so far
  passed,    \* history: connections passed for an address since RateLimit may last
             \* have forgotten it
  newer      \* history: addresses that got a limiter since an address got its own

loopVars == <<loop, cur, i, any>>
rateVars == <<front, back, refills, passed, newer>>
vars == <<loopVars, state, conns, cleanup, leaked, rateVars>>

NoLimiter == [p \in IPs |-> -1]

Init ==
  /\ loop = [l \in Loops |-> "accept"] /\ cur = [l \in Loops |-> NoConn]
  /\ i = [l \in Loops |-> 1] /\ any = [l \in Loops |-> FALSE]
  /\ state = [c \in Conns |-> "new"] /\ conns = 0 /\ cleanup = [c \in Conns |-> 0]
  /\ leaked = [l \in Loops |-> {}]
  /\ front = NoLimiter /\ back = NoLimiter /\ refills = 0
  /\ passed = [p \in IPs |-> 0] /\ newer = [p \in IPs |-> 0]

-----------------------------------------------------------------------------
(* The accept loop.                                                        *)

AcceptConn(l, c) ==
  /\ loop[l] = "accept" /\ state[c] = "new"
  /\ loop' = [loop EXCEPT ![l] = "allow"] /\ cur' = [cur EXCEPT ![l] = c]
  /\ i' = [i EXCEPT ![l] = 1] /\ any' = [any EXCEPT ![l] = FALSE]
  /\ state' = [state EXCEPT ![c] = "checked"]
  /\ UNCHANGED <<conns, cleanup, leaked, rateVars>>

\* The context is done: the loop returns.  Handlers go on.
Return(l) ==
  /\ loop[l] = "accept" /\ loop' = [loop EXCEPT ![l] = "returned"]
  /\ UNCHANGED <<cur, i, any, state, conns, cleanup, leaked, rateVars>>

\* All: every function has passed.  Any: all were called, one has passed.
\* The connection gets a goroutine of its own.
Handle(l) ==
  /\ loop[l] = "allow" /\ i[l] > Len(Policies[l]) /\ (Mode[l] = "any" => any[l])
  /\ loop' = [loop EXCEPT ![l] = "accept"] /\ cur' = [cur EXCEPT ![l] = NoConn]
  /\ state' = [state EXCEPT ![cur[l]] = "handled"]
  /\ UNCHANGED <<i, any, conns, cleanup, leaked, rateVars>>

\* All: a function has failed.  Any: none has passed.  The connection is closed; the
\* clean-up that came with the error is dropped.
Reject(l) ==
  /\ \/ loop[l] = "failed"
     \/ loop[l] = "allow" /\ i[l] > Len(Policies[l]) /\ Mode[l] = "any" /\ ~any[l]
  /\ loop' = [loop EXCEPT ![l] = "accept"] /\ cur' = [cur EXCEPT ![l] = NoConn]
  /\ state' = [state EXCEPT ![cur[l]] = "closed"]
  /\ leaked' = [leaked EXCEPT ![l] = IF cleanup[cur[l]] > 0 THEN @ \cup {cur[l]} ELSE @]
  /\ UNCHANGED <<i, any, conns, cleanup, rateVars>>

\* Bug: the clean-up is not called when the handler returns.
HandlerCleanup_Bug(c) ==
  /\ state[c] = "handled" /\ state' = [state EXCEPT ![c] = "cleaned"]
  /\ UNCHANGED <<loopVars, conns, cleanup, leaked, rateVars>>

\* handle returns: its deferred functions clean up first, and then close.
HandlerCleanup(c) ==
  /\ state[c] = "handled" /\ state' = [state EXCEPT ![c] = "cleaned"]
  /\ conns' = conns - cleanup[c] /\ cleanup' = [cleanup EXCEPT ![c] = 0]
  /\ UNCHANGED <<loopVars, leaked, rateVars>>

HandlerClose(c) ==
  /\ state[c] = "cleaned" /\ state' = [state EXCEPT ![c] = "closed"]
  /\ UNCHANGED <<loopVars, conns, cleanup, leaked, rateVars>>

-----------------------------------------------------------------------------
(* All and Any: what the result of one Allow function leads to.            *)

Calling(l, f) == loop[l] = "allow" /\ i[l] <= Len(Policies[l]) /\ Policies[l][i[l]] = f

Result(l, ok) ==
  /\ loop' = [loop EXCEPT ![l] = IF ok \/ Mode[l] = "any" THEN "allow" ELSE "failed"]
  /\ i' = [i EXCEPT ![l] = @ + 1] /\ any' = [any EXCEPT ![l] = @ \/ ok]
  /\ UNCHANGED cur

\* A function of the application, which may pass or filter any connection.  It has no
\* clean-up.
OtherAllow(l) ==
  /\ Calling(l, "other") /\ \E ok \in BOOLEAN : Result(l, ok)
  /\ UNCHANGED <<state, conns, cleanup, leaked, rateVars>>

\* Max: a negative maximum passes all; otherwise the count is read first.
MaxRead(l) ==
  /\ Calling(l, "max")
  /\ IF MaxConns < 0 \/ conns >= MaxConns
     THEN Result(l, MaxConns < 0)
     ELSE loop' = [loop EXCEPT ![l] = "max"] /\ UNCHANGED <<cur, i, any>>
  /\ UNCHANGED <<state, conns, cleanup, leaked, rateVars>>

\* Bug: the count is not checked again under the write lock.
MaxTake_Bug(l) ==
  /\ loop[l] = "max"
  /\ Result(l, TRUE)
  /\ conns' = conns + 1
  /\ cleanup' = [cleanup EXCEPT ![cur[l]] = @ + 1]
  /\ UNCHANGED <<state, leaked, rateVars>>

\* Max: the count is checked again, and incremented, under the write lock.
MaxTake(l) ==
  /\ loop[l] = "max"
  /\ Result(l, conns < MaxConns)
  /\ conns' = conns + (IF conns < MaxConns THEN 1 ELSE 0)
  /\ cleanup' = [cleanup EXCEPT ![cur[l]] = @ + (IF conns < MaxConns THEN 1 ELSE 0)]
  /\ UNCHANGED <<state, leaked, rateVars>>

Limiters(map) == Cardinality({p \in IPs : map[p] >= 0})

\* limiter.Allow: takes a token if there is one.
Take(map, p) == [map EXCEPT ![p] = IF @ > 0 THEN @ - 1 ELSE 0]

\* RateLimit of an address that has a limiter.
RateKnown(l) ==
  LET p == Ip[cur[l]] IN
    /\ Calling(l, "rate") /\ (front[p] >= 0 \/ back[p] >= 0)
    /\ IF front[p] >= 0
       THEN /\ Result(l, front[p] > 0) /\ front' = Take(front, p) /\ back' = back
            /\ passed' = [passed EXCEPT ![p] = IF front[p] > 0 THEN @ + 1 ELSE @]
       ELSE /\ Result(l, back[p] > 0) /\ back' = Take(back, p) /\ front' = front
            /\ passed' = [passed EXCEPT ![p] = IF back[p] > 0 THEN @ + 1 ELSE @]
    /\ UNCHANGED <<state, conns, cleanup, leaked, refills, newer>>

\* Bug: the front is rotated one address too late.
RotatedLate_Bug == IF Limiters(front) > Cap \div 2 THEN <<NoLimiter, front>> ELSE <<front, back>>

\* Bug: a full front is dropped, not rotated to the back.
Rotated_Bug == IF Limiters(front) = Cap \div 2 THEN <<NoLimiter, back>> ELSE <<front, back>>

\* The maps after a full front was rotated to the back.
Rotated == IF Limiters(front) = Cap \div 2 THEN <<NoLimiter, front>> ELSE <<front, back>>

\* RateLimit of an address that has none.
RateNew(l) ==
  LET p == Ip[cur[l]] IN
    /\ Calling(l, "rate") /\ front[p] < 0 /\ back[p] < 0
    /\ Result(l, Burst > 0)
    /\ front' = Take([Rotated[1] EXCEPT ![p] = Burst], p) /\ back' = Rotated[2]
    /\ passed' = [passed EXCEPT ![p] = (IF newer[p] > Cap \div 2 THEN 0 ELSE @)
                                       + (IF Burst > 0 THEN 1 ELSE 0)]
    /\ newer' = [q \in IPs |-> IF q = p THEN 0 ELSE newer[q] + 1]
    /\ UNCHANGED <<state, conns, cleanup, leaked, refills>>

\* Time adds a token to the limiter of an address.
Refill(p) ==
  /\ refills < Refills /\ refills' = refills + 1
  /\ \/ front[p] \in 0..(Burst - 1) /\ front' = [front EXCEPT ![p] = @ + 1] /\ back' = back
     \/ back[p] \in 0..(Burst - 1) /\ back' = [back EXCEPT ![p] = @ + 1] /\ front' = front
  /\ UNCHANGED <<loopVars, state, conns, cleanup, leaked, passed, newer>>

-----------------------------------------------------------------------------
Loop(l) ==
  \/ \E c \in Conns : AcceptConn(l, c)
  \/ Return(l) \/ Handle(l) \/ Reject(l) \/ OtherAllow(l) \/ MaxRead(l) \/ MaxTake(l)
  \/ RateKnown(l) \/ RateNew(l)

Next ==
  \/ \E l \in Loops : Loop(l)
  \/ \E c \in Conns : HandlerCleanup(c) \/ HandlerClose(c)
  \/ \E p \in IPs : Refill(p)

Spec == Init /\ [][Next]_vars

-----------------------------------------------------------------------------
\* The slots of Max that the connections of a set hold.
Slots(cs) == Cardinality(UNION {{c} \X (1..cleanup[c]) : c \in cs})

\* Max: however many accept loops race for the last slot, connections that are being
\* checked or handled hold no more than MaxConns of them.
AtMost ==
  MaxConns >= 0 => Slots({c \in Conns : state[c] \in {"checked", "handled"}}) <= MaxConns

\* The loops that call another function after Max, in an All.
Leaky == {l \in Loops : Mode[l] = "all" /\ \E n \in 1..(Len(Policies[l]) - 1) : Policies[l][n] = "max"}

\* The slots taken are those of connections that are not closed, and of those that an All
\* has filtered by a function that comes after Max: the accept loop drops the clean-up
\* that comes with an error, and there only does it lose a slot.
SlotsReturned ==
  conns = Slots({c \in Conns : state[c] # "closed"} \cup UNION {leaked[l] : l \in Leaky})

\* "This function is called after the connection is closed, regardless of whether the
\* closure was caused by filtering or normal control-flow" (Allow): the slots taken
\* are those of connections that are not closed.
FilteredReturned ==
  conns = Slots({c \in Conns : state[c] # "closed"})

\* "Once an accepted connection is closed, it opens up room for another connection to be
\* accepted" (Max): the connections accepted and not yet closed are at most MaxConns.
OpenAtMost ==
  MaxConns >= 0 => Cardinality({c \in Conns : state[c] \in {"handled", "cleaned"}}) <= MaxConns

\* RateLimit: an address passes no more often than its burst and the tokens that time
\* has added, as long as no more than Cap/2 other addresses got a limiter since it got its
\* own; so it keeps its limiter over a rotation.
RateHeld ==
  \A p \in IPs : newer[p] <= Cap \div 2 => passed[p] <= Burst + refills

\* RateLimit remembers a bounded number of addresses, if Cap/2 is not zero.
MapsBounded == Cap >= 2 => Limiters(front) <= Cap \div 2 /\ Limiters(back) <= Cap \div 2
=============================================================================
