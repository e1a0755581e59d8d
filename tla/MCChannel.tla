----------------------------- MODULE MCChannel -----------------------------
(* Instances of Channel for TLC.                                           *)
EXTENDS Channel, TLC

\* Connections that differ in no constant are interchangeable (safety only).
Symmetry == Permutations(Conns)
=============================================================================
