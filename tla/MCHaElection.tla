----------------------------- MODULE MCHaElection -----------------------------
(* Bounded instance of HaElection: the members are interchangeable.        *)
EXTENDS HaElection, TLC

Symmetry == Permutations(Node)
=============================================================================
