--------------------------- MODULE MCDoubleCache ---------------------------
(* Instances of DoubleCache for TLC.                                       *)
EXTENDS DoubleCache, TLC

CONSTANTS u, v, w

\* Up to, and beyond, a capacity of three bytes.
Sizes == (u :> 1) @@ (v :> 2) @@ (w :> 4)
=============================================================================
