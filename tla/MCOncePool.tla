----------------------------- MODULE MCOncePool -----------------------------
(* Instances of OncePool for TLC.                                          *)
EXTENDS OncePool, TLC

\* Connections are interchangeable (safety only).
Symmetry == Permutations(Conns)
=============================================================================
