---------------------------- MODULE MCDiscovery ----------------------------
(* Instances of Discovery for TLC.                                         *)
EXTENDS Discovery, TLC

CONSTANTS a, b, c

\* Three peers, at distances 3, 2 and 1: a round pings the far end of the line last.
Distances == (a :> 3) @@ (b :> 2) @@ (c :> 1)

\* A line: the local peer, c, b, a.
Line == (c :> <<b, Self>>) @@ (b :> <<c, a>>) @@ (a :> <<b>>)

\* All dials are to the far end.
FarEnd == [d \in Dialers |-> a]
=============================================================================
