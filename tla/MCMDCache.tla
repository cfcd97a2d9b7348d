------------------------------ MODULE MCMDCache ------------------------------
(* Small instances of MDCache for TLC: the constants are model values and  *)
(* sets of model values given in the .cfg files.                           *)
EXTENDS MDCache, TLC

\* Entries, exports and threads are interchangeable.
Symmetry == Permutations(Entries) \cup Permutations(Exports)
                \cup Permutations(Threads)

=============================================================================
