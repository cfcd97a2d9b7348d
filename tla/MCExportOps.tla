----------------------------- MODULE MCExportOps -----------------------------
(* TLC instances of ExportOps: the sets of exports, threads, users and    *)
(* states are model values given in the .cfg files.                       *)
EXTENDS ExportOps, TLC

\* A quota of zero (over quota for check_quota) and a positive one.
MCQuotas == {0, 1}

\* One quota value, for the runs about threads rather than quotas.
MCQuotaZero == {0}

\* The threads are interchangeable.
ThreadSymmetry == Permutations(Threads)

=============================================================================
