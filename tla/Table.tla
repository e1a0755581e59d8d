------------------------------- MODULE Table -------------------------------
(* The routing table of a peer (dht/table.go): the addresses by signatory, *)
(* the signatories sorted by XOR distance from the local peer, and the     *)
(* expiries that failed dials start.  Its calls come from the goroutines   *)
(* of Transport.dial (AddExpiry then HandleExpired after a failed attempt, *)
(* DeleteExpiry after a success), from peer discovery (AddPeer) and from   *)
(* the application (AddPeer, DeletePeer).                                  *)
(*                                                                         *)
(* Two locks taken together guard sorted and addrs: an operation on them   *)
(* is one step.  expiryBySignatoryMu is held by AddExpiry and HandleExpired*)
(* while they call into the rest of the table, whose operations interleave.*)
EXTENDS Integers, Sequences, FiniteSets, Functions

CONSTANTS
  Peers,       \* remote signatories that the table may hold
  Self,        \* the local signatory
  Dist,        \* XOR distance from Self; distinct for distinct signatories
  Nonces,      \* network addresses, told apart by their nonce
  Dialers,     \* goroutines in dial
  Target,      \* the remote that each of them dials
  AppDeletes,  \* peers that the application itself may delete
  Small,       \* tables of this size are sampled by a permutation (10000)
  Share,       \* and so are samples of at least one in Share (50)
  NoAddr,      \* no address in the map
  NoDialer     \* expiryBySignatoryMu is free

ASSUME TableConstants ==
  /\ Self \notin Peers /\ Nonces \subseteq Nat /\ NoAddr \notin Nonces
  /\ Dist \in [Peers -> Nat] /\ \A p, q \in Peers : Dist[p] = Dist[q] => p = q
  /\ AppDeletes \subseteq Peers /\ Target \in [Dialers -> Peers] /\ NoDialer \notin Dialers
  /\ Small \in Nat /\ Share \in Nat \ {0}

VARIABLES
  sorted,   \* sorted []id.Signatory
  addrs,    \* addrsBySignatory
  expiry,   \* expiryBySignatory: "none", "young", or "old" once past its age
  mu,       \* holder of expiryBySignatoryMu
  pc,       \* where each dial goroutine is in AddExpiry and HandleExpired
  absent    \* history: a peer was deleted that was not in the table

tableVars == <<sorted, addrs, expiry, mu, pc, absent>>

TableInit ==
  /\ sorted = <<>> /\ addrs = [p \in Peers |-> NoAddr]
  /\ expiry = [p \in Peers |-> "none"] /\ mu = NoDialer
  /\ pc = [d \in Dialers |-> "idle"]
  /\ absent = FALSE

-----------------------------------------------------------------------------
(* The sorted list.                                                        *)

\* Signatories compare by the bytes of their XOR with self, the most
\* significant first, that is, by distance.
isCloser(fst, snd) == Dist[fst] < Dist[snd]

\* sort.Search: the first place whose signatory is farther than p.
Search(p) ==
  CHOOSE i \in 1..(Len(sorted) + 1) :
    /\ i <= Len(sorted) => isCloser(p, sorted[i])
    /\ \A j \in 1..(i - 1) : ~isCloser(p, sorted[j])

\* A list with p inserted at k, and without what is at k.
With(s, k, p) == SubSeq(s, 1, k - 1) \o <<p>> \o SubSeq(s, k, Len(s))
Without(s, k) == SubSeq(s, 1, k - 1) \o SubSeq(s, k + 1, Len(s))

\* Bug: the address is not consulted, so a known peer is inserted again.
Inserted_Bug(p) == With(sorted, Search(p), p)

Inserted(p) == IF addrs[p] = NoAddr THEN With(sorted, Search(p), p) ELSE sorted

\* Bug: deletes at the insertion point rather than before it.
Removed_Bug(p) == IF Search(p) <= Len(sorted) THEN Without(sorted, Search(p)) ELSE sorted

\* Removes what precedes p's insertion point: p, if p is there.
Removed(p) == IF Search(p) > 1 THEN Without(sorted, Search(p) - 1) ELSE sorted

\* Peers returns the n closest.
PeersOf(n) == SubSeq(sorted, 1, IF n < Len(sorted) THEN n ELSE Len(sorted))

\* Bug: an index that was drawn before is taken to be new.
Floyd_Bug(n, draw) == {draw[i] : i \in DOMAIN draw}

\* Floyd's algorithm on the indices 0..m-1, given what Intn(i) draws for each i: the
\* indices taken before i are those below i that were drawn, or stand in for one.
Floyd(n, draw) ==
  LET m == Len(sorted)
      set[i \in (m - n)..m] ==
        IF i = m - n THEN {}
        ELSE set[i - 1] \cup {IF draw[i - 1] \in set[i - 1] THEN i - 1 ELSE draw[i - 1]}
  IN  set[m]

\* The sets of peers that RandomPeers may return.
RandomPeers(n) ==
  LET m == Len(sorted)
      Draws == {f \in [(m - n)..(m - 1) -> 0..(m - 1)] : \A i \in DOMAIN f : f[i] < i}
  IN  IF n <= 0 THEN {{}}
      ELSE IF n >= m THEN {Range(sorted)}
      ELSE IF m <= Small \/ n >= m \div Share THEN {ps \in SUBSET Range(sorted) : Cardinality(ps) = n}
      ELSE {{sorted[i + 1] : i \in Floyd(n, f)} : f \in Draws}

AddPeer(p, a) ==
  /\ IF p = Self
     THEN UNCHANGED <<addrs, sorted>>
     ELSE addrs' = [addrs EXCEPT ![p] = a] /\ sorted' = Inserted(p)
  /\ UNCHANGED <<expiry, mu, pc, absent>>

RemovePeer(p) ==
  /\ addrs' = [addrs EXCEPT ![p] = NoAddr] /\ sorted' = Removed(p)
  /\ absent' = (absent \/ addrs[p] = NoAddr)

\* Called by the application.
DeletePeer(p) == RemovePeer(p) /\ UNCHANGED <<expiry, mu, pc>>

-----------------------------------------------------------------------------
(* Expiries.                                                               *)

\* A dial attempt fails: AddExpiry locks, and looks the peer up.
AddExpiry(d) ==
  /\ pc[d] = "idle" /\ mu = NoDialer
  /\ IF addrs[Target[d]] # NoAddr /\ expiry[Target[d]] = "none"
     THEN pc' = [pc EXCEPT ![d] = "set"] /\ mu' = d
     ELSE pc' = [pc EXCEPT ![d] = "handle"] /\ mu' = mu
  /\ UNCHANGED <<sorted, addrs, expiry, absent>>

AddExpirySet(d) ==
  /\ pc[d] = "set"
  /\ expiry' = [expiry EXCEPT ![Target[d]] = "young"]
  /\ pc' = [pc EXCEPT ![d] = "handle"] /\ mu' = NoDialer
  /\ UNCHANGED <<sorted, addrs, absent>>

HandleExpired(d) ==
  /\ pc[d] = "handle" /\ mu = NoDialer
  /\ IF expiry[Target[d]] = "old"
     THEN pc' = [pc EXCEPT ![d] = "delete"] /\ mu' = d
     ELSE pc' = [pc EXCEPT ![d] = "idle"] /\ mu' = mu
  /\ UNCHANGED <<sorted, addrs, expiry, absent>>

\* HandleExpired calls DeletePeer, still holding expiryBySignatoryMu.
HandleExpiredDelete(d) ==
  /\ pc[d] = "delete"
  /\ RemovePeer(Target[d])
  /\ pc' = [pc EXCEPT ![d] = "forget"]
  /\ UNCHANGED <<expiry, mu>>

\* Bug: the entry is left in expiryBySignatory.
HandleExpiredForget_Bug(d) ==
  /\ pc[d] = "forget"
  /\ pc' = [pc EXCEPT ![d] = "idle"] /\ mu' = NoDialer
  /\ UNCHANGED <<sorted, addrs, expiry, absent>>

HandleExpiredForget(d) ==
  /\ pc[d] = "forget"
  /\ expiry' = [expiry EXCEPT ![Target[d]] = "none"]
  /\ pc' = [pc EXCEPT ![d] = "idle"] /\ mu' = NoDialer
  /\ UNCHANGED <<sorted, addrs, absent>>

\* A dial attempt succeeds.
DeleteExpiry(d) ==
  /\ pc[d] = "idle" /\ mu = NoDialer
  /\ expiry' = [expiry EXCEPT ![Target[d]] = "none"]
  /\ UNCHANGED <<sorted, addrs, mu, pc, absent>>

\* Time passes the age of an expiry.
Age(p) ==
  /\ expiry[p] = "young"
  /\ expiry' = [expiry EXCEPT ![p] = "old"]
  /\ UNCHANGED <<sorted, addrs, mu, pc, absent>>

-----------------------------------------------------------------------------
Dialing(d) ==
  \/ AddExpiry(d) \/ AddExpirySet(d) \/ DeleteExpiry(d)
  \/ HandleExpired(d) \/ HandleExpiredDelete(d) \/ HandleExpiredForget(d)

-----------------------------------------------------------------------------
Known == {p \in Peers : addrs[p] # NoAddr}

\* "Peers returns the n closest peers to the local peer" (the Table interface):
\* in order, and each known peer that is left out is farther away.
PeersAreClosest ==
  \A n \in 0..Cardinality(Peers) :
    LET ps == PeersOf(n) IN
      /\ Len(ps) = (IF n < Cardinality(Known) THEN n ELSE Cardinality(Known))
      /\ Range(ps) \subseteq Known
      /\ \A i \in 1..Len(ps), q \in Known :
           Dist[q] < Dist[ps[i]] => \E j \in 1..(i - 1) : ps[j] = q

\* Peers returns the closest peers, whatever dials and discovery interleave, until
\* DeletePeer is called for a peer that is not in the table: it then removes another
\* one from the list.
ClosestPeers == ~absent => PeersAreClosest

\* RandomPeers, by any of its ways, returns n different peers of the table, or all if
\* there are fewer.
SamplesExact ==
  \A n \in 0..Cardinality(Peers) : \A ps \in RandomPeers(n) :
    /\ ps \subseteq Range(sorted)
    /\ Cardinality(ps) = (IF n < Len(sorted) THEN n ELSE Len(sorted))

\* "RandomPeers returns n random peer IDs": each peer of the table may be drawn.
SamplesReachAll == sorted # <<>> => UNION RandomPeers(1) = Range(sorted)

\* An expiry is about a peer that is in the table, unless HandleExpired is just
\* deleting both, or the application has deleted the peer itself: an entry that
\* outlived its peer would let HandleExpired call DeletePeer for an absent peer.
ExpiryHasPeer ==
  \A p \in Peers \ AppDeletes :
    expiry[p] # "none" =>
      addrs[p] # NoAddr \/ \E d \in Dialers : pc[d] = "forget" /\ Target[d] = p

\* Whatever is deleted, and however often, Peers lists peers in strict order of
\* distance and each has an address: what didReceivePing asserts of the table
\* when it looks up the address of every peer it lists.
ListedHaveAddress ==
  /\ Range(sorted) \subseteq Known
  /\ \A i, j \in 1..Len(sorted) : i < j => isCloser(sorted[i], sorted[j])
=============================================================================
