---------------------------- MODULE MCHaChangelog ----------------------------
(* Bounded instance of HaChangelog: members with the same kind of database *)
(* are interchangeable.                                                    *)
EXTENDS HaChangelog, TLC

Symmetry == Permutations(Sqlite) \union Permutations(Node \ Sqlite)

(* The properties say nothing of the rest of a tainted history.            *)
Clean == ~tainted

(* Rows confirmed without a majority are not told from unconfirmed ones:   *)
(* no property speaks of them, and nobody can wait for them again, because *)
(* their reign is over or the cluster stays below the floor.               *)
Observed == <<config, changelog, replication, rows, link, election, faults, reign,
              confirmed \ waived, marks>>
=============================================================================
