--------------------------- MODULE MDCacheShutdown ---------------------------
(***************************************************************************)
(* do_shutdown (src/unnamed/part_001) run against the cache of             *)
(* mdcache_export.c.  The stages of do_shutdown switch the other actors    *)
(* off one by one:                                                         *)
(*   - the request decoders stop at "req_fridge": no request is admitted   *)
(*     afterwards;                                                         *)
(*   - worker_shutdown at "workers" waits for the running requests, or     *)
(*     fails and abandons them;                                            *)
(*   - reaper_shutdown at "reaper" stops a reaper thread of the server;   *)
(*     nothing in the source ties it to the cache's LRU reaper and cleanup *)
(*     queue, which keep running through the shutdown;                     *)
(*   - remove_all_exports at "exports" unexports every export, each one    *)
(*     through mdcache_unexport, and returns when every loop has ended;    *)
(*   - the FSALs are torn down at "fsals".                                 *)
(* Exports are created before the shutdown and only removed by it.         *)
(***************************************************************************)
EXTENDS Naturals

CONSTANTS Entries, Exports, Threads, NoEntry, NoExport, UnexportQuiesced

VARIABLES cached, refcnt, unreachable, export_list, first_export,
          exp_state, exp_cur, fsal_refcount, req,
          admin_shutdown, admin_pc, disorderly, failed, fsal_fate

C == INSTANCE MDCache
S == INSTANCE Shutdown

\* The cache's constants satisfy the cache's own assumption.
ASSUME MDCacheShutdownAssumption == C!CacheConstants

cache_vars == <<cached, refcnt, unreachable, export_list, first_export,
                exp_state, exp_cur, fsal_refcount, req>>
shutdown_vars == <<admin_shutdown, admin_pc, disorderly, failed, fsal_fate>>
all_vars == <<cache_vars, shutdown_vars>>

Init == C!Init /\ S!ShutdownInit

TypeOK == C!TypeOK /\ S!ShutdownTypeOK

\* Which actors still run.
BeforeShutdown == S!PcIndex(admin_pc) = 0
Decoding == ~S!Past("req_fridge")
Working == ~S!Past("workers")

\* remove_all_exports has nothing left to wait for: every unexport loop
\* has ended (an export still used by an abandoned request stays "done").
ExportsRemoved == \A x \in Exports : exp_state[x] \in {"absent", "done"}

\* A stage of do_shutdown; worker_shutdown returns 0 only once the
\* requests have drained, remove_all_exports only once every export
\* went through mdcache_unexport.
ShutdownStage ==
    \E s \in S!Stages : \E rc \in S!Outcomes(s) :
        /\ S!StageStep(s, rc)
        /\ s = "workers" /\ rc = "ok" => \A t \in Threads : req[t] = C!Idle
        /\ s = "exports" => ExportsRemoved
        /\ UNCHANGED cache_vars

AdminStep ==
    /\ S!AdminHalt \/ S!DbusShutdown \/ S!AdminCheck \/ S!SpuriousWake
    /\ UNCHANGED cache_vars

\* The unexport thread of each export, under remove_all_exports.
UnexportStep(x) ==
    \/ C!UnexportSub(x) /\ admin_pc = "exports"
    \/ C!UnexportLoop(x) \/ C!UnexportRemove(x) \/ C!UnexportPush(x)
    \/ C!UnexportPut(x) \/ C!ExpRelease(x)

CacheStep ==
    /\ \/ \E x \in Exports : C!CreateExport(x) /\ BeforeShutdown
       \/ \E x \in Exports : UnexportStep(x)
       \/ \E t \in Threads, x \in Exports : C!Admit(t, x) /\ Decoding
       \/ \E t \in Threads, e \in Entries : C!Lookup(t, e) /\ Working
       \/ \E t \in Threads : C!Done(t) /\ Working
       \/ \E e \in Entries : C!Kill(e) /\ fsal_fate = "loaded"
       \/ \E e \in Entries : C!ReapCleanup(e) \/ C!ReclaimLRU(e)
    /\ UNCHANGED shutdown_vars

Next == AdminStep \/ ShutdownStage \/ CacheStep

\* The admin thread, every unexport loop, the workers while they run and
\* the cache's reaper are scheduled.
Fairness ==
    /\ WF_all_vars(S!AdminCheck /\ UNCHANGED cache_vars)
    /\ WF_all_vars(ShutdownStage)
    /\ \A x \in Exports : WF_all_vars(UnexportStep(x) /\ UNCHANGED shutdown_vars)
    /\ \A t \in Threads :
         WF_all_vars((\E e \in Entries : C!Lookup(t, e)) /\ Working
                     /\ UNCHANGED shutdown_vars)
    /\ \A t \in Threads :
         WF_all_vars(C!Done(t) /\ Working /\ UNCHANGED shutdown_vars)
    /\ \A e \in Entries :
         WF_all_vars(C!ReapCleanup(e) /\ UNCHANGED shutdown_vars)

Spec == Init /\ [][Next]_all_vars

FairSpec == Spec /\ Fairness

-----------------------------------------------------------------------------
(* Properties.                                                             *)

\* When destroy_fsals or emergency_cleanup_fsals runs, no cached entry is
\* still linked to an export: remove_all_exports ran after the workers
\* stopped, so no request could link an entry to an export it removed.
NoExportMapAtTeardown ==
    fsal_fate # "loaded" => \A e \in Entries : export_list[e] = {}

\* A shutdown in which no stage has failed, once it reaches
\* remove_all_exports, runs to its end.
OrderlyShutdownCompletes ==
    (admin_pc = "exports" /\ failed = {}) ~> admin_pc = "exited"

=============================================================================
