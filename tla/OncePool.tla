------------------------------ MODULE OncePool ------------------------------
(* Handshakes that keep one connection between two peers (handshake/once.go)*)
(* Both ends of every connection run Once.  The peer with the greater      *)
(* signatory (G) decides, and tells the other (L) with a keep-alive byte.  *)
(* Each peer has a pool, guarded by connsMu; blocking reads and writes are *)
(* done without the lock.  Connections that a peer makes to itself (equal  *)
(* signatories) pass Once without touching the pool.                       *)
(*                                                                         *)
(* The inner handshake has succeeded where an end starts here.  A write    *)
(* fails only if the connection is closed or broken, but may also succeed  *)
(* on one that the other end has closed.                                   *)
EXTENDS Naturals, FiniteSets

CONSTANTS
  Conns,       \* connections between the two peers, whoever dialed them
  Breakable,   \* those that the network may break
  Drops,       \* those whose handler may return after they were accepted
  MaxAge,      \* how often MinimumExpiryAge passes
  NoConn

ASSUME OnceConstants ==
  /\ Breakable \subseteq Conns /\ Drops \subseteq Conns
  /\ MaxAge \in Nat /\ NoConn \notin Conns

VARIABLES
  gpool,    \* pool.conns[remote] of G
  old,      \* MinimumExpiryAge has passed since that entry's timestamp
  ages,     \* how often it has
  g,        \* where Once of G is, for each connection
  prev,     \* existingConn, for each Once of G that replaces one
  lpool,    \* pool.conns[remote] of L
  l,        \* where Once of L is
  byte,     \* the keep-alive byte: "none", "keep" or "kill"
  closed,   \* who has closed each connection
  broken,   \* connections broken by the network
  dropped   \* history: accepted connections whose handler has returned

poolVars == <<gpool, old, ages, g, prev, lpool, l, byte, closed, broken, dropped>>
gVars == <<gpool, old, ages, g, prev>>
lVars == <<lpool, l>>

PoolInit ==
  /\ gpool = NoConn /\ old = FALSE /\ ages = 0 /\ lpool = NoConn
  /\ g = [c \in Conns |-> "pool"] /\ prev = [c \in Conns |-> NoConn]
  /\ l = [c \in Conns |-> "read"] /\ byte = [c \in Conns |-> "none"]
  /\ closed = [c \in Conns |-> {}] /\ broken = {} /\ dropped = {}

Close(c, who) == closed' = [closed EXCEPT ![c] = @ \cup {who}]

\* No goroutine has panicked, which would end the process of G.
NoPanic == \A c \in Conns : g[c] # "panicked"

At(c, step) == NoPanic /\ g[c] = step

MayFail(c) == closed[c] # {} \/ c \in broken

-----------------------------------------------------------------------------
(* Once of G (cmp > 0).                                                    *)

\* Bug: the entry is replaced however young it is.
GPoolAlways_Bug(c) ==
  /\ At(c, "pool")
  /\ gpool' = c /\ old' = FALSE /\ prev' = [prev EXCEPT ![c] = gpool]
  /\ g' = [g EXCEPT ![c] = IF gpool = NoConn THEN "keep" ELSE "close"]
  /\ UNCHANGED <<ages, lVars, byte, closed, broken, dropped>>

\* Under connsMu, replaces the entry unless it is too young.
GPool(c) ==
  /\ At(c, "pool")
  /\ IF gpool = NoConn \/ old
     THEN /\ gpool' = c /\ old' = FALSE /\ prev' = [prev EXCEPT ![c] = gpool]
          /\ g' = [g EXCEPT ![c] = IF gpool = NoConn THEN "keep" ELSE "close"]
     ELSE g' = [g EXCEPT ![c] = "kill"] /\ UNCHANGED <<gpool, old, prev>>
  /\ UNCHANGED <<ages, lVars, byte, closed, broken, dropped>>

\* Tells L, or fails to, and closes the connection either way.
GKill(c) ==
  /\ At(c, "kill") /\ g' = [g EXCEPT ![c] = "failed"]
  /\ \/ "G" \notin closed[c] /\ byte' = [byte EXCEPT ![c] = "kill"]
     \/ MayFail(c) /\ UNCHANGED byte
  /\ Close(c, "G")
  /\ UNCHANGED <<gpool, old, ages, prev, lVars, broken, dropped>>

GCloseExisting(c) ==
  /\ At(c, "close") /\ g' = [g EXCEPT ![c] = "keep"]
  /\ Close(prev[c], "G")
  /\ UNCHANGED <<gpool, old, ages, prev, lVars, byte, broken, dropped>>

GKeep(c) ==
  /\ At(c, "keep") /\ "G" \notin closed[c]
  /\ g' = [g EXCEPT ![c] = "ok"] /\ byte' = [byte EXCEPT ![c] = "keep"]
  /\ UNCHANGED <<gpool, old, ages, prev, lVars, closed, broken, dropped>>

\* Closes and deletes the entry that the pool has by then.
GKeepFail(c) ==
  /\ At(c, "keep") /\ MayFail(c) /\ gpool # NoConn
  /\ g' = [g EXCEPT ![c] = "failed"]
  /\ Close(gpool, "G") /\ gpool' = NoConn
  /\ UNCHANGED <<old, ages, prev, lVars, byte, broken, dropped>>

\* The pool has no entry left: the code calls Close of a nil net.Conn.
GPanic(c) ==
  /\ At(c, "keep") /\ MayFail(c) /\ gpool = NoConn
  /\ g' = [g EXCEPT ![c] = "panicked"]
  /\ UNCHANGED <<gpool, old, ages, prev, lVars, byte, closed, broken, dropped>>

\* MinimumExpiryAge passes for the entry of G.
GAge ==
  /\ NoPanic /\ gpool # NoConn /\ ~old /\ ages < MaxAge
  /\ old' = TRUE /\ ages' = ages + 1
  /\ UNCHANGED <<gpool, g, prev, lVars, byte, closed, broken, dropped>>

-----------------------------------------------------------------------------
(* Once of L (cmp < 0).                                                    *)

LRead(c) ==
  /\ l[c] = "read" /\ "L" \notin closed[c] /\ byte[c] # "none"
  /\ l' = [l EXCEPT ![c] = IF byte[c] = "kill" THEN "failed" ELSE "pool"]
  /\ UNCHANGED <<gVars, lpool, byte, closed, broken, dropped>>

LReadFail(c) ==
  /\ l[c] = "read" /\ MayFail(c)
  /\ l' = [l EXCEPT ![c] = "failed"]
  /\ UNCHANGED <<gVars, lpool, byte, closed, broken, dropped>>

\* Bug: the entry is overwritten without closing its connection.
LPool_Bug(c) ==
  /\ l[c] = "pool" /\ l' = [l EXCEPT ![c] = "ok"]
  /\ lpool' = c
  /\ UNCHANGED <<gVars, byte, closed, broken, dropped>>

\* Under connsMu, closes the existing connection and takes its place.
LPool(c) ==
  /\ l[c] = "pool" /\ l' = [l EXCEPT ![c] = "ok"]
  /\ lpool' = c
  /\ IF lpool = NoConn THEN UNCHANGED closed ELSE Close(lpool, "L")
  /\ UNCHANGED <<gVars, byte, broken, dropped>>

-----------------------------------------------------------------------------
(* The callers of Once (tcp) close a connection whose handler returns: at  *)
(* once after an error, or when an accepted connection ends.  A process    *)
(* that ends closes all its connections.                                   *)

HangUp(c, who) ==
  /\ LET at == IF who = "G" THEN g[c] ELSE l[c] IN
       /\ at = "failed" \/ (at = "ok" /\ c \in Drops) \/ (who = "G" /\ ~NoPanic)
       /\ dropped' = IF at = "ok" THEN dropped \cup {c} ELSE dropped
  /\ who \notin closed[c] /\ Close(c, who)
  /\ UNCHANGED <<gVars, lVars, byte, broken>>

Break(c) ==
  /\ c \in Breakable \ broken /\ broken' = broken \cup {c}
  /\ UNCHANGED <<gVars, lVars, byte, closed, dropped>>

-----------------------------------------------------------------------------
Once(c) ==
  \/ GPool(c) \/ GKill(c) \/ GCloseExisting(c) \/ GKeep(c) \/ GKeepFail(c) \/ GPanic(c)
  \/ LRead(c) \/ LReadFail(c) \/ LPool(c)

PoolNext ==
  \/ \E c \in Conns : Once(c) \/ Break(c) \/ \E who \in {"G", "L"} : HangUp(c, who)
  \/ GAge

PoolSpec == PoolInit /\ [][PoolNext]_poolVars

\* Each end's goroutine runs on, and a handler that failed returns.
PoolFairSpec ==
  /\ PoolSpec
  /\ \A c \in Conns : WF_poolVars(Once(c))
  /\ \A c \in Conns, who \in {"G", "L"} : WF_poolVars(HangUp(c, who))

-----------------------------------------------------------------------------
States(own) == {"pool", "ok", "failed"} \cup own

\* Types of the two pools and of Once at both ends; an existing connection is closed
\* only where there is one.
PoolTypeOK ==
  /\ gpool \in Conns \cup {NoConn} /\ lpool \in Conns \cup {NoConn}
  /\ old \in BOOLEAN /\ ages \in 0..MaxAge
  /\ g \in [Conns -> States({"close", "keep", "kill", "panicked"})]
  /\ l \in [Conns -> States({"read"})]
  /\ prev \in [Conns -> Conns \cup {NoConn}] /\ \A c \in Conns : g[c] = "close" => prev[c] # NoConn
  /\ byte \in [Conns -> {"none", "keep", "kill"}]
  /\ closed \in [Conns -> SUBSET {"G", "L"}] /\ broken \subseteq Breakable
  /\ dropped \subseteq Conns

\* A connection that an end accepted and has not closed is the one in its pool;
\* on G, it may also be one that a running handshake has replaced and is about to
\* close.  So no connection stays up outside the pool, where nothing replaces it.
NoOrphan ==
  \A c \in Conns :
    /\ g[c] = "ok" /\ "G" \notin closed[c] =>
         gpool = c \/ \E d \in Conns : g[d] = "close" /\ prev[d] = c
    /\ l[c] = "ok" /\ "L" \notin closed[c] => lpool = c

\* No connection breaks or is dropped, and MinimumExpiryAge does not pass.
Calm == broken = {} /\ dropped = {} /\ ages = 0

\* c is up at both ends and in both pools, and every other connection is closed at both.
OneUp(c) ==
  /\ gpool = c /\ lpool = c /\ g[c] = "ok" /\ l[c] = "ok" /\ closed[c] = {}
  /\ \A d \in Conns \ {c} : closed[d] = {"G", "L"}

\* Without faults and before MinimumExpiryAge passes, one connection survives any
\* number of attempts from both sides, and both pools come to agree on it ("should
\* only maintain one connection", once_test.go).
OneSurvives == []Calm => <>[](\E c \in Conns : OneUp(c))

\* Once has returned at both ends of every connection, and whoever it refused has closed.
Settled ==
  \A c \in Conns : /\ g[c] = "ok" \/ (g[c] = "failed" /\ "G" \in closed[c])
                   /\ l[c] = "ok" \/ (l[c] = "failed" /\ "L" \in closed[c])

\* The safety part of OneSurvives: handshakes come to rest only on one connection.
SettlesOnOne == Calm /\ Settled /\ Conns # {} => \E c \in Conns : OneUp(c)

\* "we should recover the state by deleting the recently inserted channel" (Once):
\* a failed keep-alive removes the entry of its own connection.
RecoversOwn ==
  [][\A c \in Conns : g[c] = "keep" /\ g'[c] = "failed" => gpool = c]_poolVars
=============================================================================
