----------------------------- MODULE MCSession -----------------------------
(* Instances of Session for TLC.                                           *)
EXTENDS Session, TLC

CONSTANTS a, b

\* Signatories in order, and one peer at both ends.
Ordered == (a :> 1) @@ (b :> 2)
Same == (a :> 1) @@ (b :> 1)
=============================================================================
