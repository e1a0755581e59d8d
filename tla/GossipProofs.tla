---------------------------- MODULE GossipProofs ----------------------------
(* Proofs about Gossip, for any network, subnets and calls: the windows    *)
(* that overlap are counted exactly, content keeps to its subnets, and it  *)
(* is handed on until all have it who are to.                              *)
EXTENDS Gossip, TLAPS

Named == Subnets \cup {DefaultSubnet}

Message == [type : {"Push", "Pull", "Sync"}, from : Nodes, to : Nodes, id : Contents,
            subnet : Named \cup {NoSubnet}]

\* Types of what is exchanged.
Types ==
  /\ has \in [Nodes -> SUBSET Contents] /\ known \in [Nodes -> SUBSET Subnets]
  /\ msgs \subseteq Message /\ called \subseteq Origins

\* Types of the windows.  A filter has an entry only for a content ID that is expected.
Counters ==
  /\ subnets \in [Keys -> Named \cup {NoSubnet}]
  /\ expecting \in [Keys -> (Nat \ {0}) \cup {NoEntry}]
  /\ open \in [Keys -> Nat] /\ closing \in [Keys -> Nat]
  /\ syncing \in [Syncs -> {"idle", "on", "off"}]

-----------------------------------------------------------------------------
(* Windows.                                                                *)

\* Allow counts one more, and Deny of an expected content ID one less (filter.go).
LEMMA FilterCounts ==
  ASSUME expecting \in [Keys -> (Nat \ {0}) \cup {NoEntry}], NEW k \in Keys
  PROVE  /\ F!Allow(k) =>
              /\ expecting' \in [Keys -> (Nat \ {0}) \cup {NoEntry}]
              /\ F!Count(k)' = F!Count(k) + 1
              /\ \A j \in Keys : j # k => F!Count(j)' = F!Count(j)
         /\ F!Deny(k) /\ F!Count(k) > 0 =>
              /\ expecting' \in [Keys -> (Nat \ {0}) \cup {NoEntry}]
              /\ F!Count(k)' = F!Count(k) - 1
              /\ \A j \in Keys : j # k => F!Count(j)' = F!Count(j)
<1>0. NoEntry \notin Nat
  BY GossipConstants
<1>1. F!Count(k) \in Nat
  BY DEF F!Count
<1>2. ASSUME F!Allow(k)
      PROVE  /\ expecting' \in [Keys -> (Nat \ {0}) \cup {NoEntry}]
             /\ F!Count(k)' = F!Count(k) + 1
             /\ \A j \in Keys : j # k => F!Count(j)' = F!Count(j)
  <2>1. F!Count(k) + 1 \in Nat \ {0}
    BY <1>1
  <2>2. expecting' = [expecting EXCEPT ![k] = F!Count(k) + 1]
    BY <1>2, Zenon DEF F!Allow
  <2>3. expecting'[k] = F!Count(k) + 1 /\ \A j \in Keys : j # k => expecting'[j] = expecting[j]
    BY <2>2, Zenon
  <2>4. F!Count(k)' = F!Count(k) + 1
    BY <1>0, <2>1, <2>3 DEF F!Count
  <2> QED
    BY <2>1, <2>2, <2>3, <2>4, Zenon DEF F!Count
<1>3. ASSUME F!Deny(k), F!Count(k) > 0
      PROVE  /\ expecting' \in [Keys -> (Nat \ {0}) \cup {NoEntry}]
             /\ F!Count(k)' = F!Count(k) - 1
             /\ \A j \in Keys : j # k => F!Count(j)' = F!Count(j)
  <2> DEFINE e == IF F!Count(k) = 1 THEN NoEntry ELSE F!Count(k) - 1
  <2>1. e \in (Nat \ {0}) \cup {NoEntry} /\ (IF e = NoEntry THEN 0 ELSE e) = F!Count(k) - 1
    BY <1>0, <1>1, <1>3
  <2>2. expecting' = [expecting EXCEPT ![k] = e]
    BY <1>3, Zenon DEF F!Deny
  <2> HIDE DEF e
  <2>3. expecting'[k] = e /\ \A j \in Keys : j # k => expecting'[j] = expecting[j]
    BY <2>2, Zenon
  <2>4. F!Count(k)' = F!Count(k) - 1
    BY <2>1, <2>3, Zenon DEF F!Count
  <2> QED
    BY <2>1, <2>2, <2>3, <2>4, Zenon DEF F!Count
<1> QED
  BY <1>2, <1>3, Zenon

\* One content ID at one node: it is expected as often as it was allowed.
Window(k) ==
  /\ F!Count(k) = open[k] + closing[k] + Allowing(k)
  /\ subnets[k] # NoSubnet => open[k] > 0

WindowInv == Counters /\ \A k \in Keys : Window(k)

\* A step that opens, ends or closes a window of one content ID at one node.
LEMMA OneWindow ==
  ASSUME WindowInv, Counters', NEW k \in Keys, Window(k)',
         \A j \in Keys : j # k =>
           /\ F!Count(j)' = F!Count(j) /\ open'[j] = open[j] /\ closing'[j] = closing[j]
           /\ Allowing(j)' = Allowing(j) /\ subnets'[j] = subnets[j]
  PROVE  WindowInv'
<1>1. ASSUME NEW j \in Keys PROVE Window(j)'
  <2>1. CASE j = k
    BY <2>1, Zenon
  <2>2. CASE j # k
    BY <2>2, Zenon DEF WindowInv, Window
  <2> QED
    BY <2>1, <2>2, Zenon
<1> QED
  BY <1>1, Zenon DEF WindowInv

\* The counts of a content ID at a node.
LEMMA Counted ==
  ASSUME WindowInv, NEW k \in Keys
  PROVE  /\ F!Count(k) \in Nat /\ open[k] \in Nat /\ closing[k] \in Nat /\ Allowing(k) \in {0, 1}
         /\ F!Count(k) = open[k] + closing[k] + Allowing(k)
         /\ subnets[k] # NoSubnet => open[k] > 0
<1>1. expecting[k] \in (Nat \ {0}) \cup {NoEntry}
  BY Zenon DEF WindowInv, Counters
<1>2. F!Count(k) \in Nat
  BY <1>1 DEF F!Count
<1> QED
  BY <1>2, Zenon DEF WindowInv, Window, Counters, Allowing

\* The start and the end of a call of Sync.
LEMMA SyncWindow ==
  ASSUME WindowInv, NEW k \in Syncs, Sync(k) \/ SyncDeny(k)
  PROVE  WindowInv'
<1>0. k \in Keys
  BY GossipConstants, Zenon DEF Keys
<1>1. /\ F!Count(k) \in Nat /\ open[k] \in Nat /\ closing[k] \in Nat
      /\ F!Count(k) = open[k] + closing[k] + Allowing(k) /\ (subnets[k] # NoSubnet => open[k] > 0)
  BY <1>0, Counted, Zenon
<1>2. /\ expecting \in [Keys -> (Nat \ {0}) \cup {NoEntry}] /\ Counters
      /\ syncing \in [Syncs -> {"idle", "on", "off"}]
  BY Zenon DEF WindowInv, Counters
<1>3. open' = open /\ closing' = closing /\ subnets' = subnets
  BY Zenon DEF Sync, SyncDeny, windowVars
<1>4. syncing' \in [Syncs -> {"idle", "on", "off"}] /\ \A j \in Keys : j # k => Allowing(j)' = Allowing(j)
  BY <1>2, Zenon DEF Sync, SyncDeny, Allowing
<1>5. CASE Sync(k)
  <2>1. Allowing(k) = 0 /\ Allowing(k)' = 1
    BY <1>2, <1>5, Zenon DEF Sync, Allowing
  <2>2. /\ expecting' \in [Keys -> (Nat \ {0}) \cup {NoEntry}]
        /\ F!Count(k)' = F!Count(k) + 1
        /\ \A j \in Keys : j # k => F!Count(j)' = F!Count(j)
    BY <1>0, <1>2, <1>5, FilterCounts, Zenon DEF Sync
  <2>3. F!Count(k) + 1 = open[k] + closing[k] + 1
    BY <1>1, <2>1
  <2>4. Window(k)' /\ Counters'
    BY <1>1, <1>2, <1>3, <1>4, <2>1, <2>2, <2>3, Zenon DEF Window, Counters
  <2> QED
    BY <1>0, <1>3, <1>4, <2>2, <2>4, OneWindow, Zenon
<1>6. CASE SyncDeny(k)
  <2>1. Allowing(k) = 1 /\ Allowing(k)' = 0
    BY <1>2, <1>6, Zenon DEF SyncDeny, Allowing
  <2>2. F!Count(k) > 0 /\ F!Count(k) - 1 = open[k] + closing[k] + 0
    BY <1>1, <2>1
  <2>3. /\ expecting' \in [Keys -> (Nat \ {0}) \cup {NoEntry}]
        /\ F!Count(k)' = F!Count(k) - 1
        /\ \A j \in Keys : j # k => F!Count(j)' = F!Count(j)
    BY <1>0, <1>2, <1>6, <2>2, FilterCounts, Zenon DEF SyncDeny
  <2>4. Window(k)' /\ Counters'
    BY <1>1, <1>2, <1>3, <1>4, <2>1, <2>2, <2>3, Zenon DEF Window, Counters
  <2> QED
    BY <1>0, <1>3, <1>4, <2>3, <2>4, OneWindow, Zenon
<1> QED
  BY <1>5, <1>6, Zenon

\* A push opens a window.
LEMMA PushWindow ==
  ASSUME WindowInv, NEW m \in Message, didReceivePush(m)
  PROVE  WindowInv'
<1> DEFINE k == <<m.to, m.id>>
<1>0. k \in Keys
  BY Zenon DEF Message, Keys
<1>1. /\ F!Count(k) \in Nat /\ open[k] \in Nat /\ closing[k] \in Nat /\ Allowing(k) \in {0, 1}
      /\ F!Count(k) = open[k] + closing[k] + Allowing(k)
  BY <1>0, Counted, Zenon
<1>2. /\ expecting \in [Keys -> (Nat \ {0}) \cup {NoEntry}] /\ open \in [Keys -> Nat] /\ Counters
      /\ subnets \in [Keys -> Named \cup {NoSubnet}] /\ m.subnet \in Named \cup {NoSubnet}
  BY Zenon DEF WindowInv, Counters, Message
<1>3. closing' = closing /\ syncing' = syncing /\ \A j \in Keys : Allowing(j)' = Allowing(j)
  BY Zenon DEF didReceivePush, Allowing
<1>4. CASE UNCHANGED <<subnets, open, expecting>>
  BY <1>2, <1>3, <1>4, Zenon DEF WindowInv, Window, Counters, F!Count
<1>5. CASE /\ subnets' = [subnets EXCEPT ![k] = m.subnet] /\ F!Allow(k)
           /\ open' = [open EXCEPT ![k] = @ + 1]
  <2>1. /\ expecting' \in [Keys -> (Nat \ {0}) \cup {NoEntry}]
        /\ F!Count(k)' = F!Count(k) + 1
        /\ \A j \in Keys : j # k => F!Count(j)' = F!Count(j)
    BY <1>0, <1>2, <1>5, FilterCounts, Zenon
  <2> HIDE DEF k
  <2>2. open[k] + 1 \in Nat /\ open[k] + 1 > 0
    BY <1>1
  <2>3. /\ open' \in [Keys -> Nat] /\ open'[k] = open[k] + 1
        /\ subnets' \in [Keys -> Named \cup {NoSubnet}]
        /\ \A j \in Keys : j # k => open'[j] = open[j] /\ subnets'[j] = subnets[j]
    BY <1>0, <1>2, <1>5, <2>2, Zenon
  <2>4. F!Count(k) + 1 = (open[k] + 1) + closing[k] + Allowing(k)
    BY <1>1
  <2>5. Window(k)' /\ Counters'
    BY <1>0, <1>2, <1>3, <2>1, <2>2, <2>3, <2>4, Zenon DEF Window, Counters
  <2> QED
    BY <1>0, <1>3, <2>1, <2>3, <2>5, OneWindow, Zenon
<1> QED
  BY <1>4, <1>5, Zenon DEF didReceivePush

\* The end of a window, in the map and then in the filter.
LEMMA EndWindow ==
  ASSUME WindowInv, NEW k \in Keys, WindowEnd(k) \/ WindowDeny(k)
  PROVE  WindowInv'
<1>1. /\ F!Count(k) \in Nat /\ open[k] \in Nat /\ closing[k] \in Nat /\ Allowing(k) \in {0, 1}
      /\ F!Count(k) = open[k] + closing[k] + Allowing(k) /\ (subnets[k] # NoSubnet => open[k] > 0)
  BY Counted, Zenon
<1>2. /\ expecting \in [Keys -> (Nat \ {0}) \cup {NoEntry}] /\ Counters
      /\ open \in [Keys -> Nat] /\ closing \in [Keys -> Nat]
      /\ subnets \in [Keys -> Named \cup {NoSubnet}]
  BY Zenon DEF WindowInv, Counters
<1>3. syncing' = syncing /\ \A j \in Keys : Allowing(j)' = Allowing(j)
  BY Zenon DEF WindowEnd, WindowDeny, Allowing
<1>4. CASE WindowEnd(k)
  <2>1. open[k] - 1 \in Nat /\ closing[k] + 1 \in Nat
    BY <1>1, <1>4 DEF WindowEnd
  <2>2. /\ open' \in [Keys -> Nat] /\ closing' \in [Keys -> Nat] /\ expecting' = expecting
        /\ subnets' \in [Keys -> Named \cup {NoSubnet}]
        /\ open'[k] = open[k] - 1 /\ closing'[k] = closing[k] + 1 /\ subnets'[k] = NoSubnet
        /\ \A j \in Keys : j # k => /\ open'[j] = open[j] /\ closing'[j] = closing[j]
                                    /\ subnets'[j] = subnets[j]
    BY <1>2, <1>4, <2>1, Zenon DEF WindowEnd
  <2>3. F!Count(k) = (open[k] - 1) + (closing[k] + 1) + Allowing(k)
    BY <1>1
  <2>4. \A j \in Keys : F!Count(j)' = F!Count(j)
    BY <2>2, Zenon DEF F!Count
  <2>5. Window(k)' /\ Counters'
    BY <1>2, <1>3, <2>2, <2>3, <2>4, Zenon DEF Window, Counters
  <2> QED
    BY <1>3, <2>2, <2>4, <2>5, OneWindow, Zenon
<1>5. CASE WindowDeny(k)
  <2>1. closing[k] - 1 \in Nat /\ F!Count(k) > 0
    BY <1>1, <1>5 DEF WindowDeny
  <2>2. /\ open' = open /\ subnets' = subnets /\ closing' \in [Keys -> Nat]
        /\ closing'[k] = closing[k] - 1 /\ \A j \in Keys : j # k => closing'[j] = closing[j]
    BY <1>2, <1>5, <2>1, Zenon DEF WindowDeny
  <2>3. /\ expecting' \in [Keys -> (Nat \ {0}) \cup {NoEntry}]
        /\ F!Count(k)' = F!Count(k) - 1
        /\ \A j \in Keys : j # k => F!Count(j)' = F!Count(j)
    BY <1>2, <1>5, <2>1, FilterCounts, Zenon DEF WindowDeny
  <2>4. F!Count(k) - 1 = open[k] + (closing[k] - 1) + Allowing(k)
    BY <1>1
  <2>5. Window(k)' /\ Counters'
    BY <1>1, <1>2, <1>3, <2>2, <2>3, <2>4, Zenon DEF Window, Counters
  <2> QED
    BY <1>3, <2>2, <2>3, <2>5, OneWindow, Zenon
<1> QED
  BY <1>4, <1>5, Zenon

\* The types of what is exchanged are kept.
LEMMA TypesKept == Types /\ Counters /\ [Next]_vars => Types'
<1> SUFFICES ASSUME Types, Counters, [Next]_vars PROVE Types'
  BY Zenon
<1> USE DEF Types
<1>1. ASSUME NEW t \in {"Push", "Pull", "Sync"}, NEW n \in Nodes, NEW ps, NEW c \in Contents,
             NEW s \in Named \cup {NoSubnet}
      PROVE  Send(t, n, ps, c, s) \subseteq Message
  <2>1. ASSUME NEW q \in Nodes
        PROVE  [type |-> t, from |-> n, to |-> q, id |-> c, subnet |-> s] \in Message
    BY SMT DEF Message
  <2>2. ps \cap Table[n] \subseteq Nodes
    BY GossipConstants, Zenon
  <2> QED
    BY <2>1, <2>2, Zenon DEF Send
<1>2. ASSUME NEW o \in Origins, Gossip(o) PROVE Types'
  <2>1. o.node \in Nodes /\ o.id \in Contents /\ o.subnet \in Named
    BY GossipConstants, Zenon DEF Named
  <2> QED
    BY <1>1, <1>2, <2>1, Zenon DEF Gossip, Pushes
<1>3. ASSUME NEW k \in Syncs, Sync(k) \/ SyncDeny(k) PROVE Types'
  <2>1. k[1] \in Nodes /\ k[2] \in Contents
    BY GossipConstants
  <2> QED
    BY <1>1, <1>3, <2>1, Zenon DEF Sync, SyncDeny
<1>4. ASSUME NEW l \in Leaves, DeleteSubnet(l[1], l[2]) \/ AddSubnet(l[1], l[2]) PROVE Types'
  <2>1. l[1] \in Nodes /\ l[2] \in Subnets
    BY GossipConstants
  <2> QED
    <3>1. /\ known[l[1]] \ {l[2]} \in SUBSET Subnets /\ known[l[1]] \cup {l[2]} \in SUBSET Subnets
          /\ UNCHANGED <<has, msgs, called>>
      BY <1>4, <2>1, Zenon DEF DeleteSubnet, AddSubnet
    <3>2. known' \in [Nodes -> SUBSET Subnets]
      BY <1>4, <2>1, <3>1 DEF DeleteSubnet, AddSubnet
    <3> QED
      BY <3>1, <3>2, Zenon
<1>5. ASSUME NEW m \in msgs, DidReceiveMessage(m) PROVE Types'
  <2>1. /\ m \in Message /\ m.to \in Nodes /\ m.from \in Nodes /\ m.id \in Contents
        /\ <<m.to, m.id>> \in Keys
    BY Zenon DEF Message, Keys
  <2>2. CASE didReceivePush(m) \/ didReceivePull(m)
    BY <1>1, <2>1, <2>2, Zenon DEF didReceivePush, didReceivePull
  <2>3. CASE didReceiveSync(m)
    <3>1. subnets[<<m.to, m.id>>] \in Named \cup {NoSubnet}
      BY <2>1, Zenon DEF Counters
    <3>2. Pushes(m.to, m.id, subnets[<<m.to, m.id>>]) \subseteq Message
      BY <1>1, <2>1, <3>1, Zenon DEF Pushes
    <3>3. has' \in [Nodes -> SUBSET Contents]
      <4>1. has[m.to] \cup {m.id} \in SUBSET Contents
        BY <2>1, Zenon
      <4> QED
        BY <2>1, <2>3, <4>1, Zenon DEF didReceiveSync
    <3>4. msgs' \subseteq msgs \cup Pushes(m.to, m.id, subnets[<<m.to, m.id>>])
      BY <2>3, Zenon DEF didReceiveSync
    <3> QED
      BY <2>3, <3>2, <3>3, <3>4, Zenon DEF didReceiveSync
  <2> QED
    BY <1>5, <2>2, <2>3, Zenon DEF DidReceiveMessage
<1>6. ASSUME NEW k \in Keys, WindowEnd(k) \/ WindowDeny(k) PROVE Types'
  BY <1>6, Zenon DEF WindowEnd, WindowDeny
<1>7. CASE UNCHANGED vars
  BY <1>7, Zenon DEF vars
<1> QED
  BY <1>2, <1>3, <1>4, <1>5, <1>6, <1>7, Zenon DEF Next

\* The windows stay counted, whichever step is taken.
LEMMA WindowStep == Types /\ WindowInv /\ [Next]_vars => WindowInv'
<1> SUFFICES ASSUME Types, WindowInv, [Next]_vars PROVE WindowInv'
  BY Zenon
<1>1. ASSUME UNCHANGED <<subnets, open, closing, expecting, syncing>> PROVE WindowInv'
  BY <1>1, Zenon DEF WindowInv, Counters, Window, Allowing, F!Count
<1>2. ASSUME NEW m \in msgs, DidReceiveMessage(m) PROVE WindowInv'
  <2>1. m \in Message
    BY Zenon DEF Types
  <2>2. CASE didReceivePull(m) \/ didReceiveSync(m)
    BY <1>1, <2>2, Zenon DEF didReceivePull, didReceiveSync, windowVars
  <2> QED
    BY <1>2, <2>1, <2>2, PushWindow, Zenon DEF DidReceiveMessage
<1>3. ASSUME NEW o \in Origins, Gossip(o) PROVE WindowInv'
  BY <1>1, <1>3, Zenon DEF Gossip, windowVars
<1>4. ASSUME NEW l \in Leaves, DeleteSubnet(l[1], l[2]) \/ AddSubnet(l[1], l[2]) PROVE WindowInv'
  BY <1>1, <1>4, Zenon DEF DeleteSubnet, AddSubnet, windowVars
<1>5. CASE UNCHANGED vars
  BY <1>1, <1>5, Zenon DEF vars
<1> QED
  BY <1>2, <1>3, <1>4, <1>5, SyncWindow, EndWindow, Zenon DEF Next

\* At first nothing is expected.
LEMMA WindowsAtFirst == Init => Types /\ WindowInv
<1> SUFFICES ASSUME Init PROVE Types /\ WindowInv
  BY Zenon
<1>1. has \in [Nodes -> SUBSET Contents]
  <2>1. \A o \in Origins : o.id \in Contents
    BY GossipConstants
  <2> QED
    BY <2>1, Zenon DEF Init
<1>2. Types
  BY <1>1, Zenon DEF Init, Types
<1>3. Counters
  BY Zenon DEF Init, Counters, F!FilterInit
<1>4. ASSUME NEW k \in Keys PROVE Window(k)
  <2>1. F!Count(k) = 0 /\ open[k] = 0 /\ closing[k] = 0 /\ subnets[k] = NoSubnet
    BY Zenon DEF Init, F!FilterInit, F!Count
  <2>2. Allowing(k) = 0
    BY Zenon DEF Init, Allowing
  <2>3. 0 + 0 + 0 = 0
    OBVIOUS
  <2> QED
    BY <2>1, <2>2, <2>3, Zenon DEF Window
<1> QED
  BY <1>2, <1>3, <1>4, Zenon DEF WindowInv

\* Counted windows are what WindowsExact says.
LEMMA WindowsAreExact == WindowInv => WindowsExact
<1> SUFFICES ASSUME WindowInv, NEW k \in Keys
             PROVE  /\ F!Count(k) = open[k] + closing[k] + Allowing(k)
                    /\ F!Filter(k) = (F!Count(k) = 0)
                    /\ subnets[k] # NoSubnet => open[k] > 0
  BY Zenon DEF WindowsExact
<1>1. expecting[k] \in (Nat \ {0}) \cup {NoEntry}
  BY Zenon DEF WindowInv, Counters
<1>2. F!Filter(k) <=> F!Count(k) = 0
  BY <1>1 DEF F!Filter, F!Count
<1> QED
  BY <1>2, Zenon DEF WindowInv, Window, F!Filter

\* gossip.go, filter.go: the filter counts the windows and calls that allow a content
\* ID, and a subnet is remembered only in a window, for any overlap of them.
THEOREM WindowsExactHolds == Spec => []WindowsExact
<1>1. Init => Types /\ WindowInv
  BY WindowsAtFirst
<1>2. Types /\ WindowInv /\ [Next]_vars => (Types /\ WindowInv)'
  BY TypesKept, WindowStep, Zenon DEF WindowInv
<1> QED
  BY <1>1, <1>2, WindowsAreExact, PTL DEF Spec

-----------------------------------------------------------------------------
(* Subnets.  What a node remembers of a push, a subnet or a window, it     *)
(* remembers of content that was gossiped in a subnet it is in.            *)

\* A content ID was gossiped in a subnet of the node.
Invited(n, c) == \E s \in GossipedIn(c) : InSubnet(n, s)

\* The node may have the content, as Contained says.
Rightful(n, c) ==
  \/ \E o \in Origins : o.node = n /\ o.id = c
  \/ <<n, c>> \in Syncs /\ syncing[<<n, c>>] # "idle"
  \/ Invited(n, c)

PushInside(m) == m.type = "Push" => m.subnet \in GossipedIn(m.id) /\ InSubnet(m.to, m.subnet)

Remembered(k) ==
  /\ subnets[k] # NoSubnet => subnets[k] \in GossipedIn(k[2])
  /\ open[k] # 0 \/ closing[k] # 0 => Invited(k[1], k[2])

SubnetInv ==
  /\ \A m \in msgs : PushInside(m)
  /\ \A n \in Nodes : \A c \in has[n] : Rightful(n, c)
  /\ \A k \in Keys : Remembered(k)

\* What was gossiped stays so, and a call of Sync is not unmade.
LEMMA Onward ==
  ASSUME Types, Counters, [Next]_vars
  PROVE  /\ \A c : GossipedIn(c) \subseteq GossipedIn(c)'
         /\ \A n, c : Rightful(n, c) => Rightful(n, c)'
         /\ \A n, c : Invited(n, c) => Invited(n, c)'
         /\ \A m : PushInside(m) => PushInside(m)'
<1>1. called \subseteq called'
  BY Zenon DEF Next, Gossip, Sync, SyncDeny, DeleteSubnet, AddSubnet, DidReceiveMessage,
               didReceivePush, didReceivePull, didReceiveSync, WindowEnd, WindowDeny, vars
<1>2. \A k \in Syncs : syncing[k] # "idle" => syncing'[k] # "idle"
  <2>1. \/ syncing' = syncing
        \/ \E k \in Syncs : \/ syncing' = [syncing EXCEPT ![k] = "on"]
                             \/ syncing' = [syncing EXCEPT ![k] = "off"]
    BY Zenon DEF Next, Gossip, Sync, SyncDeny, DeleteSubnet, AddSubnet, DidReceiveMessage,
                 didReceivePush, didReceivePull, didReceiveSync, WindowEnd, WindowDeny, vars
  <2>2. "on" # "idle" /\ "off" # "idle"
    OBVIOUS
  <2> QED
    BY <2>1, <2>2, Zenon DEF Counters
<1>3. \A c : GossipedIn(c) \subseteq GossipedIn(c)'
  BY <1>1, Zenon DEF GossipedIn
<1>4. \A n, c : Invited(n, c) => Invited(n, c)'
  BY <1>3, Zenon DEF Invited, InSubnet
<1>5. \A n, c : Rightful(n, c) => Rightful(n, c)'
  BY <1>2, <1>4, Zenon DEF Rightful
<1>6. \A m : PushInside(m) => PushInside(m)'
  BY <1>3, Zenon DEF PushInside, InSubnet
<1> QED
  BY <1>3, <1>4, <1>5, <1>6, Zenon

\* gossip.go pushes content to members of the subnet only.
LEMMA PushedInside ==
  ASSUME Types, NEW n \in Nodes, NEW c, NEW s, NEW m \in Pushes(n, c, s)
  PROVE  /\ s \in GossipedIn(c) => PushInside(m)
         /\ s \in GossipedIn(c)' => PushInside(m)'
<1>1. PICK q \in Recipients(n, s) :
        m = [type |-> "Push", from |-> n, to |-> q, id |-> c, subnet |-> s]
  BY Zenon DEF Pushes, Send
<1>2. s = DefaultSubnet \/ q \in Members[s]
  BY Zenon DEF Recipients, Closest
<1>3. m.type = "Push" /\ m.id = c /\ m.subnet = s /\ m.to = q
  BY <1>1, Zenon
<1> QED
  BY <1>2, <1>3, Zenon DEF InSubnet, PushInside

\* No other message is a push.
LEMMA NoPush ==
  ASSUME NEW t, t # "Push", NEW n, NEW ps, NEW c, NEW s, NEW m \in Send(t, n, ps, c, s)
  PROVE  PushInside(m)'
<1>1. PICK q \in ps : m = [type |-> t, from |-> n, to |-> q, id |-> c, subnet |-> s]
  BY Zenon DEF Send
<1> QED
  BY <1>1, Zenon DEF PushInside

\* A step that neither gives a node content nor opens a window.
LEMMA Idly ==
  ASSUME SubnetInv, Types, Counters, [Next]_vars, has' = has,
         \A m \in msgs' : m \in msgs \/ PushInside(m)',
         \A k \in Keys : /\ subnets'[k] \in {subnets[k], NoSubnet}
                         /\ open'[k] # 0 \/ closing'[k] # 0 => open[k] # 0 \/ closing[k] # 0
  PROVE  SubnetInv'
<1>1. \A m \in msgs' : PushInside(m)'
  BY Onward, Zenon DEF SubnetInv
<1>2. \A n \in Nodes : \A c \in has'[n] : Rightful(n, c)'
  BY Onward, Zenon DEF SubnetInv
<1>3. \A k \in Keys : Remembered(k)'
  BY Onward, Zenon DEF SubnetInv, Remembered
<1> QED
  BY <1>1, <1>2, <1>3, Zenon DEF SubnetInv

\* What is expected is expected of a call of Sync or of a window.
LEMMA ExpectedRightful ==
  ASSUME WindowInv, SubnetInv, NEW n \in Nodes, NEW c \in Contents, ~F!Filter(<<n, c>>)
  PROVE  Rightful(n, c)
<1> DEFINE k == <<n, c>>
<1>0. k \in Keys /\ k[1] = n /\ k[2] = c
  BY DEF Keys
<1>1. F!Count(k) # 0
  <2>1. expecting[k] \in (Nat \ {0}) \cup {NoEntry}
    BY <1>0, Zenon DEF WindowInv, Counters
  <2> QED
    BY <2>1 DEF F!Filter, F!Count
<1>2. /\ open[k] \in Nat /\ closing[k] \in Nat /\ Allowing(k) \in {0, 1}
      /\ F!Count(k) = open[k] + closing[k] + Allowing(k)
  BY <1>0, Counted, Zenon
<1> HIDE DEF k
<1>3. open[k] # 0 \/ closing[k] # 0 \/ Allowing(k) # 0
  BY <1>1, <1>2
<1>4. CASE open[k] # 0 \/ closing[k] # 0
  BY <1>0, <1>4, Zenon DEF SubnetInv, Remembered, Rightful
<1>5. CASE Allowing(k) # 0
  <2>1. k \in Syncs /\ syncing[k] = "on" /\ "on" # "idle"
    BY <1>5, Zenon DEF Allowing
  <2> QED
    BY <2>1, Zenon DEF Rightful, k
<1> QED
  BY <1>3, <1>4, <1>5, Zenon

\* A push opens a window in a subnet that the node is in, and content that comes was
\* expected.
LEMMA ReceiveInside ==
  ASSUME Types, WindowInv, SubnetInv, NEW m \in msgs, DidReceiveMessage(m), [Next]_vars
  PROVE  SubnetInv'
<1> DEFINE k == <<m.to, m.id>>
<1>0. /\ m \in Message /\ m.to \in Nodes /\ m.id \in Contents /\ m.from \in Nodes
      /\ Counters
  BY Zenon DEF Types, Message, WindowInv
<1>1. k \in Keys /\ k[1] = m.to /\ k[2] = m.id
  BY <1>0 DEF Keys
<1>2. ASSUME NEW t, t \in {"Pull", "Sync"}, NEW q \in Send(t, m.to, {m.from}, m.id, NoSubnet)
      PROVE  PushInside(q)'
  <2>1. t # "Push"
    BY <1>2
  <2> QED
    BY <2>1, NoPush, Zenon
<1>3. CASE didReceivePush(m)
  <2>1. CASE UNCHANGED <<subnets, open>> /\ msgs' = msgs \ {m}
    BY <1>0, <1>3, <2>1, Idly, Zenon DEF didReceivePush
  <2>2. CASE /\ subnets' = [subnets EXCEPT ![k] = m.subnet]
             /\ open' = [open EXCEPT ![k] = @ + 1]
             /\ msgs' = (msgs \ {m}) \cup Send("Pull", m.to, {m.from}, m.id, NoSubnet)
    <3>1. has' = has /\ closing' = closing
      BY <1>3, Zenon DEF didReceivePush
    <3>2. m.subnet \in GossipedIn(m.id) /\ InSubnet(m.to, m.subnet)
      BY <1>3, Zenon DEF didReceivePush, SubnetInv, PushInside
    <3>3. Invited(k[1], k[2])' /\ m.subnet \in GossipedIn(k[2])'
      BY <1>0, <1>1, <3>2, Onward, Zenon DEF Invited
    <3>4. subnets'[k] = m.subnet
      BY <1>0, <1>1, <2>2, Zenon DEF Counters
    <3>5. Remembered(k)'
      BY <3>3, <3>4, Zenon DEF Remembered
    <3>6. ASSUME NEW j \in Keys, j # k PROVE Remembered(j)'
      <4>1. subnets'[j] = subnets[j] /\ open'[j] = open[j]
        BY <1>0, <1>1, <2>2, <3>6, Zenon DEF Counters
      <4> QED
        BY <1>0, <3>1, <4>1, Onward, Zenon DEF SubnetInv, Remembered
    <3>7. \A q \in msgs' : PushInside(q)'
      BY <1>0, <1>2, <2>2, Onward, Zenon DEF SubnetInv
    <3>8. \A n \in Nodes : \A c \in has'[n] : Rightful(n, c)'
      BY <1>0, <3>1, Onward, Zenon DEF SubnetInv
    <3> QED
      BY <3>5, <3>6, <3>7, <3>8, Zenon DEF SubnetInv
  <2> QED
    BY <1>3, <2>1, <2>2, Zenon DEF didReceivePush
<1>4. CASE didReceivePull(m)
  <2>1. \A q \in msgs' : q \in msgs \/ PushInside(q)'
    BY <1>2, <1>4, Zenon DEF didReceivePull
  <2> QED
    BY <1>0, <1>4, <2>1, Idly, Zenon DEF didReceivePull, windowVars
<1>5. CASE didReceiveSync(m)
  <2>1. subnets' = subnets /\ open' = open /\ closing' = closing
    BY <1>5, Zenon DEF didReceiveSync, windowVars
  <2>2. \A j \in Keys : Remembered(j)'
    BY <1>0, <2>1, Onward, Zenon DEF SubnetInv, Remembered
  <2>3. CASE has' = has /\ msgs' = msgs \ {m}
    BY <1>0, <2>1, <2>3, Idly, Zenon
  <2>4. CASE /\ ~F!Filter(k) /\ has' = [has EXCEPT ![m.to] = @ \cup {m.id}]
             /\ msgs' = (msgs \ {m}) \cup
                  (IF subnets[k] = NoSubnet THEN {} ELSE Pushes(m.to, m.id, subnets[k]))
    <3>1. Rightful(m.to, m.id)
      BY <1>0, <2>4, ExpectedRightful, Zenon
    <3>2. \A n \in Nodes : \A c \in has'[n] : Rightful(n, c)
      BY <1>0, <2>4, <3>1, Zenon DEF Types, SubnetInv
    <3>3. \A n \in Nodes : \A c \in has'[n] : Rightful(n, c)'
      BY <1>0, <3>2, Onward, Zenon
    <3>4. ASSUME subnets[k] # NoSubnet, NEW q \in Pushes(m.to, m.id, subnets[k])
          PROVE  PushInside(q)
      <4>1. subnets[k] \in GossipedIn(m.id)
        BY <1>1, <3>4, Zenon DEF SubnetInv, Remembered
      <4> QED
        BY <1>0, <3>4, <4>1, PushedInside, Zenon
    <3>5. \A q \in msgs' : PushInside(q)
      BY <2>4, <3>4, Zenon DEF SubnetInv
    <3>6. \A q \in msgs' : PushInside(q)'
      BY <1>0, <3>5, Onward, Zenon
    <3> QED
      BY <2>2, <3>3, <3>6, Zenon DEF SubnetInv
  <2> QED
    BY <1>5, <2>3, <2>4, Zenon DEF didReceiveSync
<1> QED
  BY <1>3, <1>4, <1>5, Zenon DEF DidReceiveMessage

\* Content keeps to its subnets, whichever step is taken.
LEMMA SubnetStep == Types /\ WindowInv /\ SubnetInv /\ [Next]_vars => SubnetInv'
<1> SUFFICES ASSUME Types, WindowInv, SubnetInv, [Next]_vars PROVE SubnetInv'
  BY Zenon
<1>0. Counters
  BY Zenon DEF WindowInv
<1>1. ASSUME NEW o \in Origins, Gossip(o) PROVE SubnetInv'
  <2>1. o.node \in Nodes /\ o.subnet \in GossipedIn(o.id)'
    <3>1. o \in called' /\ o.node \in Nodes
      BY <1>1, GossipConstants, Zenon DEF Gossip
    <3> QED
      BY <3>1, Zenon DEF GossipedIn
  <2>2. ASSUME NEW m \in Pushes(o.node, o.id, o.subnet) PROVE PushInside(m)'
    BY <2>1, <2>2, PushedInside, Zenon
  <2>3. \A m \in msgs' : m \in msgs \/ PushInside(m)'
    BY <1>1, <2>2, Zenon DEF Gossip
  <2> QED
    BY <1>0, <1>1, <2>3, Idly, Zenon DEF Gossip, windowVars
<1>2. ASSUME NEW k \in Syncs, Sync(k) \/ SyncDeny(k) PROVE SubnetInv'
  <2>1. ASSUME NEW ps, NEW m \in Send("Pull", k[1], ps, k[2], NoSubnet) PROVE PushInside(m)'
    <3>1. "Pull" # "Push"
      OBVIOUS
    <3> QED
      BY <3>1, NoPush, Zenon
  <2>2. \A m \in msgs' : m \in msgs \/ PushInside(m)'
    BY <1>2, <2>1, Zenon DEF Sync, SyncDeny
  <2>3. UNCHANGED <<has, subnets, open, closing>>
    BY <1>2, Zenon DEF Sync, SyncDeny, windowVars
  <2> QED
    BY <1>0, <2>2, <2>3, Idly, Zenon
<1>3. ASSUME UNCHANGED <<has, subnets, open, closing, msgs>> PROVE SubnetInv'
  BY <1>0, <1>3, Idly, Zenon
<1>4. ASSUME NEW l \in Leaves, DeleteSubnet(l[1], l[2]) \/ AddSubnet(l[1], l[2]) PROVE SubnetInv'
  BY <1>3, <1>4, Zenon DEF DeleteSubnet, AddSubnet, windowVars
<1>5. ASSUME NEW k \in Keys, WindowEnd(k) \/ WindowDeny(k) PROVE SubnetInv'
  <2>1. has' = has /\ msgs' = msgs
    BY <1>5, Zenon DEF WindowEnd, WindowDeny
  <2>2. open[k] # 0 \/ closing[k] # 0
    BY <1>0, <1>5 DEF WindowEnd, WindowDeny, Counters
  <2>3. \A j \in Keys : subnets'[j] \in {subnets[j], NoSubnet}
    BY <1>0, <1>5, Zenon DEF WindowEnd, WindowDeny, Counters
  <2>4. \A j \in Keys : j # k => open'[j] = open[j] /\ closing'[j] = closing[j]
    BY <1>0, <1>5, Zenon DEF WindowEnd, WindowDeny, Counters
  <2>5. \A j \in Keys : open'[j] # 0 \/ closing'[j] # 0 => open[j] # 0 \/ closing[j] # 0
    BY <2>2, <2>4, Zenon
  <2> QED
    BY <1>0, <2>1, <2>3, <2>5, Idly, Zenon
<1>6. CASE UNCHANGED vars
  BY <1>3, <1>6, Zenon DEF vars
<1> QED
  BY <1>1, <1>2, <1>4, <1>5, <1>6, ReceiveInside, Zenon DEF Next

\* At first nothing has been gossiped.
LEMMA SubnetsAtFirst == Init => Types /\ WindowInv /\ SubnetInv
<1> SUFFICES ASSUME Init PROVE SubnetInv
  BY WindowsAtFirst, Zenon
<1>1. \A n \in Nodes : \A c \in has[n] : Rightful(n, c)
  BY Zenon DEF Init, Rightful
<1>2. \A k \in Keys : subnets[k] = NoSubnet /\ open[k] = 0 /\ closing[k] = 0
  BY Zenon DEF Init
<1> QED
  BY <1>1, <1>2, Zenon DEF Init, SubnetInv, Remembered

\* gossip.go: content that spreads by gossip stays in the subnets it was gossiped in, for
\* any network and any overlap of gossips, calls of Sync and departures from a subnet.
THEOREM ContainedHolds == Spec => []Contained
<1>1. Init => Types /\ WindowInv /\ SubnetInv
  BY SubnetsAtFirst
<1>2. Types /\ WindowInv /\ SubnetInv /\ [Next]_vars => (Types /\ WindowInv /\ SubnetInv)'
  BY TypesKept, WindowStep, SubnetStep, Zenon DEF WindowInv
<1>3. SubnetInv => Contained
  BY Zenon DEF SubnetInv, Contained, PushInside, Rightful, Invited
<1> QED
  BY <1>1, <1>2, <1>3, PTL DEF Spec

-----------------------------------------------------------------------------
(* Content is handed on.  Between a node that has content and one that it  *)
(* pushes to there is always the next message of their exchange, until     *)
(* both have the content.                                                  *)

Due(n, m, c) ==
  \E q \in msgs : /\ q.id = c
                  /\ \/ q.type \in {"Push", "Sync"} /\ q.from = n /\ q.to = m
                     \/ q.type = "Pull" /\ q.from = m /\ q.to = n

\* The application of n has gossiped the content, if it is to.
Announced(n, c) == \A p \in Origins : p.node = n /\ p.id = c => p \in called

HandedOn(c, u) ==
  ~late =>
    /\ \A n \in Nodes : known[n] = Subnets
    /\ \A n \in Nodes : c \in has[n] => n \in Resolvers
    /\ \A n \in Nodes : \A m \in Peers(n, u) :
         c \in has[n] /\ Announced(n, c) => c \in has[m] \/ Due(n, m, c)

\* A message is sent to every recipient in the table.
LEMMA Sent ==
  ASSUME NEW t, NEW n, NEW ps, NEW c, NEW s, NEW m \in ps \cap Table[n]
  PROVE  \E q \in Send(t, n, ps, c, s) : q.type = t /\ q.from = n /\ q.to = m /\ q.id = c
<1>1. PICK q \in Send(t, n, ps, c, s) : q = [type |-> t, from |-> n, to |-> m, id |-> c, subnet |-> s]
  BY Zenon DEF Send
<1> QED
  BY <1>1, Zenon

\* A push is sent to every peer that a gossip is to reach.
LEMMA PushedToPeers ==
  ASSUME NEW n \in Nodes, NEW c, NEW u \in Named, known[n] = Subnets, NEW m \in Peers(n, u)
  PROVE  \E q \in Pushes(n, c, u) : q.type = "Push" /\ q.from = n /\ q.to = m /\ q.id = c
<1>1. m \in Recipients(n, u) \cap Table[n]
  BY Zenon DEF Peers, Recipients, Named
<1>2. \E q \in Send("Push", n, Recipients(n, u), c, u) :
        q.type = "Push" /\ q.from = n /\ q.to = m /\ q.id = c
  BY <1>1, Sent
<1> QED
  BY <1>2, Zenon DEF Pushes

\* What is due is lost only with the message.
LEMMA DueKept ==
  ASSUME NEW n, NEW m, NEW c, Due(n, m, c)
  PROVE  /\ msgs \subseteq msgs' => Due(n, m, c)'
         /\ \A q : msgs \ {q} \subseteq msgs' =>
              \/ Due(n, m, c)'
              \/ /\ q.id = c
                 /\ \/ q.type \in {"Push", "Sync"} /\ q.from = n /\ q.to = m
                    \/ q.type = "Pull" /\ q.from = m /\ q.to = n
  BY Zenon DEF Due

\* A step that gives no node content, and after which all is due that was.
LEMMA StillHandedOn ==
  ASSUME NEW c, NEW u, HandedOn(c, u), late' = late, known' = known, has' = has,
         ASSUME NEW n \in Nodes, NEW m \in Peers(n, u), ~late, c \in has[n], c \notin has[m],
                Announced(n, c)'
         PROVE  (Announced(n, c) => Due(n, m, c)) => Due(n, m, c)'
  PROVE  HandedOn(c, u)'
<1> SUFFICES ASSUME ~late
             PROVE  /\ \A n \in Nodes : known'[n] = Subnets
                    /\ \A n \in Nodes : c \in has'[n] => n \in Resolvers
                    /\ \A n \in Nodes : \A m \in Peers(n, u) :
                         c \in has'[n] /\ Announced(n, c)' => c \in has'[m] \/ Due(n, m, c)'
  BY Zenon DEF HandedOn
<1>1. ASSUME NEW n \in Nodes, NEW m \in Peers(n, u), c \in has[n], Announced(n, c)', c \notin has[m]
      PROVE  Due(n, m, c)'
  <2>1. Announced(n, c) => Due(n, m, c)
    BY <1>1, Zenon DEF HandedOn
  <2> QED
    BY <1>1, <2>1, Zenon
<1> QED
  BY <1>1, Zenon DEF HandedOn

\* The application gossips content: it is pushed to the peers.
LEMMA GossipHandsOn ==
  ASSUME Types, NEW c, NEW u \in Named, \A p \in Origins : p.id = c => p.subnet = u,
         HandedOn(c, u), NEW o \in Origins, Gossip(o)
  PROVE  HandedOn(c, u)'
<1>1. /\ late' = late /\ known' = known /\ has' = has /\ msgs' = msgs \cup Pushes(o.node, o.id, o.subnet)
      /\ called' = called \cup {o}
  BY Zenon DEF Gossip
<1>2. ASSUME NEW n \in Nodes, NEW m \in Peers(n, u), ~late, Announced(n, c)',
             Announced(n, c) => Due(n, m, c)
      PROVE  Due(n, m, c)'
  <2>1. CASE Announced(n, c)
    BY <1>1, <1>2, <2>1, DueKept, Zenon
  <2>2. CASE ~Announced(n, c)
    <3>1. o.node = n /\ o.id = c
      BY <1>1, <1>2, <2>2, Zenon DEF Announced
    <3>2. known[n] = Subnets /\ o.subnet = u
      BY <1>2, <3>1, Zenon DEF HandedOn
    <3>3. PICK q \in Pushes(n, c, u) : q.type = "Push" /\ q.from = n /\ q.to = m /\ q.id = c
      BY <1>2, <3>2, PushedToPeers
    <3>4. q \in msgs'
      BY <1>1, <3>1, <3>2, Zenon
    <3> QED
      BY <3>3, <3>4, Zenon DEF Due
  <2> QED
    BY <2>1, <2>2, Zenon
<1> QED
  BY <1>1, <1>2, StillHandedOn, Zenon

\* A push is answered with a pull, and a pull with the content.
LEMMA AnswerHandsOn ==
  ASSUME Types, NEW c, c # EmptyID, NEW u, HandedOn(c, u), NEW q \in msgs,
         didReceivePush(q) \/ didReceivePull(q)
  PROVE  HandedOn(c, u)'
<1>1. late' = late /\ known' = known /\ has' = has /\ called' = called /\ msgs \ {q} \subseteq msgs'
  BY Zenon DEF didReceivePush, didReceivePull
<1>2. ASSUME NEW n \in Nodes, NEW m \in Peers(n, u), ~late, c \in has[n], c \notin has[m], Announced(n, c)',
             Announced(n, c) => Due(n, m, c)
      PROVE  Due(n, m, c)'
  <2>1. Due(n, m, c)
    BY <1>1, <1>2, Zenon DEF Announced
  <2>2. m \in Table[n] /\ m \in Resolvers /\ n \in Table[m] /\ n \in Resolvers
    BY <1>2, Zenon DEF Peers, HandedOn
  <2>3. CASE q.id = c /\ q.type \in {"Push", "Sync"} /\ q.from = n /\ q.to = m
    <3>1. didReceivePush(q)
      BY <2>3, Zenon DEF didReceivePull
    <3>2. ~Unwanted(q)
      BY <1>2, <2>2, <2>3, Zenon DEF Unwanted
    <3>3. Send("Pull", m, {n}, c, NoSubnet) \subseteq msgs'
      BY <2>3, <3>1, <3>2, Zenon DEF didReceivePush
    <3>4. PICK r \in Send("Pull", m, {n}, c, NoSubnet) :
            r.type = "Pull" /\ r.from = m /\ r.to = n /\ r.id = c
      BY <2>2, Sent
    <3> QED
      BY <3>3, <3>4, Zenon DEF Due
  <2>4. CASE q.id = c /\ q.type = "Pull" /\ q.from = m /\ q.to = n
    <3>1. didReceivePull(q)
      BY <2>4, Zenon DEF didReceivePush
    <3>2. Send("Sync", n, {m}, c, NoSubnet) \subseteq msgs'
      BY <1>2, <2>2, <2>4, <3>1, Zenon DEF didReceivePull
    <3>3. PICK r \in Send("Sync", n, {m}, c, NoSubnet) :
            r.type = "Sync" /\ r.from = n /\ r.to = m /\ r.id = c
      BY <2>2, Sent
    <3> QED
      BY <3>2, <3>3, Zenon DEF Due
  <2> QED
    BY <1>1, <2>1, <2>3, <2>4, DueKept, Zenon
<1> QED
  BY <1>1, <1>2, StillHandedOn, Zenon

\* Content that arrives in its window is pushed on in the subnet of the gossip.
LEMMA ContentHandsOn ==
  ASSUME Types, WindowInv, SubnetInv, NEW c \in Contents, c # EmptyID, NEW u \in Named,
         \A p \in Origins : p.id = c => p.subnet = u,
         HandedOn(c, u), NEW q \in msgs, didReceiveSync(q)
  PROVE  HandedOn(c, u)'
<1> DEFINE k == <<q.to, q.id>>
<1>0. q.to \in Nodes /\ q.id \in Contents /\ k \in Keys /\ k[2] = q.id
  <2>1. q.to \in Nodes /\ q.id \in Contents
    BY Zenon DEF Types, Message
  <2> QED
    BY <2>1 DEF Keys
<1>1. subnets[k] # NoSubnet => ~F!Filter(k)
  <2> SUFFICES ASSUME subnets[k] # NoSubnet PROVE ~F!Filter(k)
    BY Zenon
  <2>1. /\ F!Count(k) \in Nat /\ open[k] \in Nat /\ closing[k] \in Nat /\ Allowing(k) \in {0, 1}
        /\ F!Count(k) = open[k] + closing[k] + Allowing(k) /\ open[k] > 0
    BY <1>0, Counted, Zenon
  <2> HIDE DEF k
  <2>2. F!Count(k) # 0
    BY <2>1
  <2> QED
    BY <2>2, Zenon DEF F!Count, F!Filter
<1> SUFFICES ASSUME ~late'
             PROVE  /\ \A n \in Nodes : known'[n] = Subnets
                    /\ \A n \in Nodes : c \in has'[n] => n \in Resolvers
                    /\ \A n \in Nodes : \A m \in Peers(n, u) :
                         c \in has'[n] /\ Announced(n, c)' => c \in has'[m] \/ Due(n, m, c)'
  BY Zenon DEF HandedOn
<1>2. /\ ~late /\ (subnets[k] # NoSubnet \/ Unwanted(q)) /\ known' = known /\ called' = called
      /\ q.type = "Sync" /\ msgs \ {q} \subseteq msgs'
  BY Zenon DEF didReceiveSync
<1>3. /\ \A n \in Nodes : known[n] = Subnets /\ (c \in has[n] => n \in Resolvers)
      /\ \A n \in Nodes : \A m \in Peers(n, u) :
           c \in has[n] /\ Announced(n, c) => c \in has[m] \/ Due(n, m, c)
  BY <1>2, Zenon DEF HandedOn
<1>4. /\ Unwanted(q) => has' = has
      /\ ~Unwanted(q) => /\ has' = [has EXCEPT ![q.to] = @ \cup {q.id}]
                         /\ Pushes(q.to, q.id, subnets[k]) \subseteq msgs'
                         /\ q.to \in Resolvers
  <2>1. CASE Unwanted(q)
    BY <2>1, Zenon DEF didReceiveSync
  <2>2. CASE ~Unwanted(q)
    <3>1. subnets[k] # NoSubnet /\ ~F!Filter(k)
      BY <1>1, <1>2, <2>2, Zenon
    <3> QED
      BY <2>2, <3>1, Zenon DEF didReceiveSync, Unwanted
  <2> QED
    BY <2>1, <2>2, Zenon
<1>5. \A n \in Nodes :
        /\ has[n] \subseteq has'[n]
        /\ c \in has'[n] => c \in has[n] \/ (n = q.to /\ c = q.id /\ ~Unwanted(q))
  <2>1. CASE Unwanted(q)
    BY <1>4, <2>1, Zenon
  <2>2. CASE ~Unwanted(q)
    <3>1. has'[q.to] = has[q.to] \cup {q.id} /\ \A n \in Nodes : n # q.to => has'[n] = has[n]
      BY <1>0, <1>4, <2>2, Zenon DEF Types
    <3> QED
      BY <2>2, <3>1, Zenon
  <2> QED
    BY <2>1, <2>2, Zenon
<1>6. ~Unwanted(q) => q.id \in has'[q.to]
  BY <1>0, <1>4, Zenon DEF Types
<1>7. ASSUME NEW n \in Nodes, NEW m \in Peers(n, u), c \in has'[n], Announced(n, c)', c \notin has'[m]
      PROVE  Due(n, m, c)'
  <2>0. m \in Nodes /\ m \in Resolvers
    BY GossipConstants, Zenon DEF Peers
  <2>1. CASE c \in has[n]
    <3>1. Due(n, m, c)
      BY <1>2, <1>3, <1>5, <1>7, <2>0, <2>1, Zenon DEF Announced
    <3>2. CASE q.id = c /\ q.to = m
      <4>1. Unwanted(q)
        BY <1>6, <1>7, <3>2, Zenon
      <4>2. c \in has[m]
        BY <2>0, <3>2, <4>1, Zenon DEF Unwanted
      <4> QED
        BY <1>5, <1>7, <2>0, <4>2, Zenon
    <3>3. q.type # "Pull"
      BY <1>2
    <3> QED
      BY <1>2, <3>1, <3>2, <3>3, DueKept, Zenon
  <2>2. CASE c \notin has[n]
    <3>1. n = q.to /\ c = q.id /\ ~Unwanted(q)
      BY <1>5, <1>7, <2>2, Zenon
    <3>2. subnets[k] = u
      <4>1. subnets[k] \in GossipedIn(c)
        BY <1>0, <1>2, <3>1, Zenon DEF SubnetInv, Remembered
      <4>2. PICK o \in called : o.id = c /\ o.subnet = subnets[k]
        BY <4>1, Zenon DEF GossipedIn
      <4> QED
        BY <4>2, Zenon DEF Types
    <3>3. known[n] = Subnets
      BY <1>3, Zenon
    <3>4. PICK r \in Pushes(n, c, u) : r.type = "Push" /\ r.from = n /\ r.to = m /\ r.id = c
      BY <1>7, <3>3, PushedToPeers
    <3>5. r \in msgs'
      BY <1>4, <3>1, <3>2, Zenon
    <3> QED
      BY <3>4, <3>5, Zenon DEF Due
  <2> QED
    BY <2>1, <2>2, Zenon
<1> QED
  BY <1>2, <1>3, <1>4, <1>5, <1>7, Zenon

\* Content is handed on, whichever step is taken.
LEMMA HandOnStep ==
  ASSUME Types, WindowInv, SubnetInv, NEW o \in Origins, Spreadable(o),
         HandedOn(o.id, o.subnet), [Next]_vars
  PROVE  HandedOn(o.id, o.subnet)'
<1> DEFINE c == o.id
           u == o.subnet
<1>0. /\ c \in Contents /\ u \in Named /\ c # EmptyID /\ \A p \in Origins : p.id = c => p.subnet = u
      /\ HandedOn(c, u)
  BY GossipConstants, Zenon DEF Named, Spreadable
<1> HIDE DEF c, u
<1>1. ASSUME late' = late, known' = known, has' = has, called' = called, msgs \subseteq msgs'
      PROVE  HandedOn(c, u)'
  <2>1. ASSUME NEW n \in Nodes, NEW m \in Peers(n, u), Announced(n, c)', Announced(n, c) => Due(n, m, c)
        PROVE  Due(n, m, c)'
    <3>1. Due(n, m, c)
      BY <1>1, <2>1, Zenon DEF Announced
    <3> QED
      BY <1>1, <3>1, DueKept, Zenon
  <2> QED
    BY <1>0, <1>1, <2>1, StillHandedOn, Zenon
<1>2. ASSUME NEW p \in Origins, Gossip(p) PROVE HandedOn(c, u)'
  BY <1>0, <1>2, GossipHandsOn, Zenon
<1>3. ASSUME NEW k \in Syncs, Sync(k) \/ SyncDeny(k) PROVE HandedOn(c, u)'
  BY <1>1, <1>3, Zenon DEF Sync, SyncDeny
<1>4. ASSUME NEW l \in Leaves, DeleteSubnet(l[1], l[2]) PROVE HandedOn(c, u)'
  BY <1>4, Zenon DEF DeleteSubnet, HandedOn
<1>5. ASSUME NEW l \in Leaves, AddSubnet(l[1], l[2]) PROVE HandedOn(c, u)'
  <2>1. l[1] \in Nodes /\ l[2] \in Subnets
    BY GossipConstants
  <2>2. late' = late /\ l[2] \notin known[l[1]]
    BY <1>5, Zenon DEF AddSubnet
  <2>3. late
    BY <1>0, <2>1, <2>2, Zenon DEF HandedOn
  <2> QED
    BY <2>2, <2>3, Zenon DEF HandedOn
<1>6. ASSUME NEW q \in msgs, DidReceiveMessage(q) PROVE HandedOn(c, u)'
  BY <1>0, <1>6, AnswerHandsOn, ContentHandsOn, Zenon DEF DidReceiveMessage
<1>7. ASSUME NEW k \in Keys, WindowEnd(k) \/ WindowDeny(k) PROVE HandedOn(c, u)'
  BY <1>1, <1>7, Zenon DEF WindowEnd, WindowDeny
<1>8. ASSUME UNCHANGED vars PROVE HandedOn(c, u)'
  <2>1. late' = late /\ known' = known /\ has' = has /\ called' = called /\ msgs \subseteq msgs'
    BY <1>8 DEF vars
  <2> QED
    BY <1>1, <2>1, Zenon
<1>9. HandedOn(c, u)'
  BY <1>2, <1>3, <1>4, <1>5, <1>6, <1>7, <1>8, Zenon DEF Next
<1> QED
  BY <1>9, Zenon DEF c, u

AllHandedOn ==
  \A o \in Origins : Spreadable(o) => o.id \in has[o.node] /\ HandedOn(o.id, o.subnet)

\* Content that a node has stays there.
LEMMA HasGrows ==
  ASSUME Types, [Next]_vars, NEW n \in Nodes
  PROVE  has[n] \subseteq has'[n]
<1>1. ASSUME NEW q \in msgs, DidReceiveMessage(q) PROVE has[n] \subseteq has'[n]
  <2>1. has' = has \/ (q.to \in Nodes /\ has' = [has EXCEPT ![q.to] = @ \cup {q.id}])
    BY <1>1, Zenon DEF DidReceiveMessage, didReceivePush, didReceivePull, didReceiveSync, Types, Message
  <2> QED
    BY <2>1, Zenon DEF Types
<1> QED
  BY <1>1, Zenon DEF Next, Gossip, Sync, SyncDeny, DeleteSubnet, AddSubnet, WindowEnd, WindowDeny, vars

\* gossip.go: when every gossip has been called and every message received, content that
\* was gossiped in one subnet is at every node that a chain of recipients leads to, or
\* some node got it outside its window, or left a subnet: for any network and subnets,
\* and whatever order the messages came in.
THEOREM SpreadAtRestHolds == Spec => []SpreadAtRest
<1> DEFINE Inv == Types /\ WindowInv /\ SubnetInv /\ AllHandedOn
<1>1. Init => AllHandedOn
  <2> SUFFICES ASSUME Init, NEW o \in Origins, Spreadable(o)
               PROVE  o.id \in has[o.node] /\ HandedOn(o.id, o.subnet)
    BY Zenon DEF AllHandedOn
  <2>0. o.node \in Nodes /\ o.node \in Resolvers
    BY GossipConstants, Zenon DEF Spreadable
  <2>1. ASSUME NEW n \in Nodes, o.id \in has[n]
        PROVE  n \in Resolvers /\ ~Announced(n, o.id)
    <3>1. PICK p \in Origins : p.node = n /\ n \in Resolvers /\ p.id = o.id
      BY <2>1, Zenon DEF Init
    <3> QED
      BY <3>1, Zenon DEF Init, Announced
  <2>2. o.id \in has[o.node]
    BY <2>0, Zenon DEF Init
  <2> QED
    BY <2>1, <2>2, Zenon DEF Init, HandedOn
<1>2. Init => Types /\ WindowInv /\ SubnetInv
  BY SubnetsAtFirst
<1>3. Inv /\ [Next]_vars => Inv'
  <2> SUFFICES ASSUME Types, WindowInv, SubnetInv, AllHandedOn, [Next]_vars PROVE Inv'
    BY Zenon
  <2>1. Types' /\ WindowInv' /\ SubnetInv'
    BY TypesKept, WindowStep, SubnetStep, Zenon DEF WindowInv
  <2>2. ASSUME NEW o \in Origins, Spreadable(o) PROVE HandedOn(o.id, o.subnet)'
    BY <2>2, HandOnStep, Zenon DEF AllHandedOn
  <2>3. ASSUME NEW o \in Origins, Spreadable(o) PROVE o.id \in has'[o.node]
    <3>1. o.node \in Nodes
      BY GossipConstants, Zenon
    <3> QED
      BY <2>3, <3>1, HasGrows, Zenon DEF AllHandedOn
  <2> QED
    BY <2>1, <2>2, <2>3, Zenon DEF AllHandedOn
<1>4. Inv => SpreadAtRest
  <2> SUFFICES ASSUME Inv, called = Origins, msgs = {}, ~late, NEW o \in Origins, Spreadable(o),
                      NEW n \in Reached[o]
               PROVE  o.id \in has[n]
    BY Zenon DEF SpreadAtRest
  <2> DEFINE S == {q \in Nodes : o.id \in has[q]}
  <2>1. \A q \in S : Peers(q, o.subnet) \subseteq S
    <3> SUFFICES ASSUME NEW q \in Nodes, o.id \in has[q], NEW m \in Peers(q, o.subnet)
                 PROVE  m \in Nodes /\ o.id \in has[m]
      BY Zenon
    <3>1. m \in Nodes
      BY GossipConstants, Zenon DEF Peers
    <3>2. Announced(q, o.id) /\ ~Due(q, m, o.id)
      BY Zenon DEF Announced, Due
    <3> QED
      BY <3>1, <3>2, Zenon DEF AllHandedOn, HandedOn
  <2>2. o.node \in S
    BY GossipConstants, Zenon DEF AllHandedOn
  <2> QED
    BY <2>1, <2>2, Zenon DEF Reached
<1> QED
  BY <1>1, <1>2, <1>3, <1>4, PTL DEF Spec
=============================================================================
