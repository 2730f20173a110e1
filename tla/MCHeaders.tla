------------------------------ MODULE MCHeaders ------------------------------
(* Instances of Headers for TLC. *)
EXTENDS Headers, TLC

Symmetry == Permutations(Labels)
=============================================================================
