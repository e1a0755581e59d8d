----------------------------- MODULE MCListener -----------------------------
(* Instances of Listener for TLC.                                          *)
EXTENDS Listener, TLC

CONSTANTS l1, l2, c1, c2, c3, c4, p1, p2

\* Four connections from two addresses.
Addresses == (c1 :> p1) @@ (c2 :> p1) @@ (c3 :> p2) @@ (c4 :> p2)

\* Any(RateLimit, Max) in one loop; in the other All, with the same Max and then a
\* function of the application.
SharedMax == (l1 :> <<"rate", "max">>) @@ (l2 :> <<"max", "other">>)
AnyAll == (l1 :> "any") @@ (l2 :> "all")

\* All(Max, RateLimit).
MaxRate == l1 :> <<"max", "rate">>
JustAll == l1 :> "all"
=============================================================================
