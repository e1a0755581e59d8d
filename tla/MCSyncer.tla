------------------------------ MODULE MCSyncer ------------------------------
(* Instances of Syncer for TLC.                                            *)
EXTENDS Syncer, TLC

CONSTANTS k1, k2, k3, x

\* Three calls for one content ID: the second may still hold an entry when the third
\* makes its own.
ThreeCalls == (k1 :> x) @@ (k2 :> x) @@ (k3 :> x)
=============================================================================
