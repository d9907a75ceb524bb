--------------------------- MODULE MCHaWriteBarrier ---------------------------
(* Bounded instance of HaWriteBarrier: tasks and promotions are interchangeable. *)
EXTENDS HaWriteBarrier, TLC

Symmetry == Permutations(Task) \union Permutations(Promotion)
=============================================================================
