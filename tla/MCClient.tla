------------------------------ MODULE MCClient ------------------------------
(* Instances of Client for TLC.                                            *)
EXTENDS Client, TLC

\* Users, receivers and remotes are interchangeable (safety only).
Symmetry == Permutations(Users) \cup Permutations(Receivers) \cup Permutations(Remotes)
=============================================================================
