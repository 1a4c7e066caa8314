------------------------------- MODULE MCClaims -------------------------------
(* Instances of Claims for TLC.                                                *)
EXTENDS Claims, TLC

Symmetry == Permutations(Task) \cup Permutations(Adj) \cup Permutations(Mover)

=============================================================================
