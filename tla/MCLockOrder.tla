----------------------------- MODULE MCLockOrder -----------------------------
(* TLC instance of LockOrder: entries, exports and linkers are model      *)
(* values given in the .cfg file.                                         *)
EXTENDS LockOrder, TLC

\* Entries and exports are interchangeable, and so are the linkers.
LockSymmetry == Permutations(Entries) \cup Permutations(Exports)
                    \cup Permutations(Linkers)

=============================================================================
