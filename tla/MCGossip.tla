------------------------------ MODULE MCGossip ------------------------------
(* Instances of Gossip for TLC.                                            *)
EXTENDS Gossip, TLC

CONSTANTS n1, n2, n3, n4, n5, x, s, t

\* Signatories 0 to 4: the distances are their XOR.
Number == (n1 :> 0) @@ (n2 :> 1) @@ (n3 :> 2) @@ (n4 :> 3) @@ (n5 :> 4)
Bit(i, b) == (i \div b) % 2
Xor(i, j) == LET D(b) == b * ((Bit(i, b) + Bit(j, b)) % 2) IN D(1) + D(2) + D(4)
Distances == [n \in Nodes |-> [m \in Nodes |-> Xor(Number[n], Number[m])]]

\* A star around n2.
Star == [n \in Nodes |-> IF n = n2 THEN Nodes \ {n2} ELSE {n2}]

\* s: all but n5; t: n1, n2 and n3.
Groups == [u \in Subnets |-> IF u = s THEN {n1, n2, n3, n4} ELSE {n1, n2, n3}]

O(n, c, u) == [node |-> n, id |-> c, subnet |-> u]
Two == {O(n1, x, s), O(n3, x, s), O(n5, EmptyID, DefaultSubnet)}
Both == {O(n1, x, s), O(n1, x, t)}
Fetch == {<<n4, x>>}
Leave == {<<n2, s>>}
=============================================================================
