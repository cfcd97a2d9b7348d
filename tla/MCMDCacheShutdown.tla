-------------------------- MODULE MCMDCacheShutdown --------------------------
EXTENDS MDCacheShutdown, TLC

Symmetry == Permutations(Entries) \cup Permutations(Threads)

=============================================================================
