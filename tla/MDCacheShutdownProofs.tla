------------------------ MODULE MDCacheShutdownProofs ------------------------
(***************************************************************************)
(* Proofs about do_shutdown run against the cache.                         *)
(*                                                                         *)
(* Every step of the composition is a step of the cache (MDCache) with the *)
(* admin thread unchanged, or a step of the admin thread (Shutdown) with   *)
(* the cache unchanged; the composition only adds guards.  So it           *)
(* implements both specifications, and every invariant proved of them     *)
(* holds here.  NoExportMapAtTeardown needs more: that remove_all_exports  *)
(* runs only after the workers stopped, so that no lookup links an entry   *)
(* to an export after its unexport has started.                            *)
(***************************************************************************)
EXTENDS MDCacheShutdown, TLAPS

CP == INSTANCE MDCacheProofs
SP == INSTANCE ShutdownProofs

-----------------------------------------------------------------------------
(* The composition's operators are those of the two components.            *)

LEMMA InitComponents == Init => CP!Init /\ SP!ShutdownInit
BY DEF Init, C!Init, CP!Init, C!Idle, CP!Idle, S!ShutdownInit, SP!ShutdownInit

\* A step of the admin thread leaves the cache alone.
LEMMA AdminStepIsShutdownNext ==
    AdminStep => SP!ShutdownNext /\ UNCHANGED CP!vars
BY DEF AdminStep, SP!ShutdownNext, S!AdminHalt, SP!AdminHalt,
       S!DbusShutdown, SP!DbusShutdown, S!AdminCheck, SP!AdminCheck,
       S!SpuriousWake, SP!SpuriousWake, S!StageOrder, SP!StageOrder,
       cache_vars, CP!vars

LEMMA ShutdownStageIsShutdownNext ==
    ShutdownStage => SP!ShutdownNext /\ UNCHANGED CP!vars
<1> SUFFICES ASSUME ShutdownStage PROVE SP!ShutdownNext /\ UNCHANGED CP!vars
  OBVIOUS
<1>1. S!Stages = SP!Stages
  BY DEF S!Stages, SP!Stages, S!StageOrder, SP!StageOrder
<1> PICK s \in S!Stages : \E rc \in S!Outcomes(s) :
        S!StageStep(s, rc) /\ UNCHANGED cache_vars
  BY DEF ShutdownStage
<1>2. PICK rc \in S!Outcomes(s) : S!StageStep(s, rc) /\ UNCHANGED cache_vars
  OBVIOUS
<1>3. S!Outcomes(s) = SP!Outcomes(s)
  BY DEF S!Outcomes, SP!Outcomes
<1>4. S!NextStage(s) = SP!NextStage(s)
  BY DEF S!NextStage, SP!NextStage, S!StageOrder, SP!StageOrder
<1>5. SP!StageStep(s, rc)
  BY <1>2, <1>3, <1>4 DEF S!StageStep, SP!StageStep
<1>6. QED
  BY <1>1, <1>2, <1>3, <1>5 DEF SP!ShutdownNext, SP!DoShutdown, cache_vars,
                                CP!vars

\* A step of the cache leaves the admin thread alone and is a step of the
\* cache's own specification.
LEMMA CacheStepIsCacheNext ==
    CacheStep => CP!Next /\ UNCHANGED SP!shutdown_vars
<1> SUFFICES ASSUME CacheStep PROVE CP!Next /\ UNCHANGED SP!shutdown_vars
  OBVIOUS
<1>1. UNCHANGED SP!shutdown_vars
  BY DEF CacheStep, shutdown_vars, SP!shutdown_vars
<1>2. CP!Next
  <2>1. CASE \E x \in Exports : C!CreateExport(x)
    BY <2>1 DEF C!CreateExport, CP!CreateExport, C!MdcInitExportPin,
                CP!MdcInitExportPin, CP!Next
  <2>2. CASE \E x \in Exports : C!UnexportSub(x)
    BY <2>2 DEF C!UnexportSub, CP!UnexportSub, CP!Next
  <2>3. CASE \E x \in Exports : C!UnexportLoop(x)
    BY <2>3 DEF C!UnexportLoop, CP!UnexportLoop, C!EntryList, CP!EntryList,
                C!GetOK, CP!GetOK, CP!Next
  <2>4. CASE \E x \in Exports :
               C!UnexportRemove(x) \/ C!UnexportPush(x) \/ C!UnexportPut(x)
    BY <2>4 DEF C!UnexportRemove, CP!UnexportRemove, C!UnexportPush,
                CP!UnexportPush, C!CleanupTryPush, CP!CleanupTryPush,
                C!UnexportPut, CP!UnexportPut, CP!Next
  <2>5. CASE \E x \in Exports : C!ExpRelease(x)
    BY <2>5 DEF C!ExpRelease, CP!ExpRelease, CP!Next
  <2>6. CASE \E t \in Threads, x \in Exports : C!Admit(t, x)
    BY <2>6 DEF C!Admit, CP!Admit, C!Idle, CP!Idle, CP!Next
  <2>7. CASE \E t \in Threads, e \in Entries : C!Lookup(t, e)
    BY <2>7 DEF C!Lookup, CP!Lookup, C!Idle, CP!Idle, CP!Next
  <2>8. CASE \E t \in Threads : C!Done(t)
    BY <2>8 DEF C!Done, CP!Done, C!Idle, CP!Idle, CP!Next
  <2>9. CASE \E e \in Entries : C!Kill(e)
    BY <2>9 DEF C!Kill, CP!Kill, CP!Next
  <2>10. CASE \E e \in Entries : C!ReapCleanup(e) \/ C!ReclaimLRU(e)
    BY <2>10 DEF C!ReapCleanup, CP!ReapCleanup, C!ReclaimLRU, CP!ReclaimLRU,
                 C!Reap, CP!Reap, CP!Next
  <2>11. QED
    BY <2>1, <2>2, <2>3, <2>4, <2>5, <2>6, <2>7, <2>8, <2>9, <2>10
       DEF CacheStep, UnexportStep
<1>3. QED
  BY <1>1, <1>2

\* The composition implements the cache's specification ...
THEOREM ImplementsCache == Spec => CP!Spec
<1>1. Init => CP!Init
  BY InitComponents
<1>2. [Next]_all_vars => [CP!Next]_CP!vars
  BY AdminStepIsShutdownNext, ShutdownStageIsShutdownNext,
     CacheStepIsCacheNext DEF Next, all_vars, cache_vars, CP!vars
<1>3. QED
  BY <1>1, <1>2, PTL DEF Spec, CP!Spec

\* ... and the admin thread's.
THEOREM ImplementsShutdown == Spec => SP!ShutdownSpec
<1>1. Init => SP!ShutdownInit
  BY InitComponents
<1>2. [Next]_all_vars => [SP!ShutdownNext]_SP!shutdown_vars
  BY AdminStepIsShutdownNext, ShutdownStageIsShutdownNext,
     CacheStepIsCacheNext DEF Next, all_vars, shutdown_vars, SP!shutdown_vars
<1>3. QED
  BY <1>1, <1>2, PTL DEF Spec, SP!ShutdownSpec

-----------------------------------------------------------------------------
(* Which stage do_shutdown is in.  Working, BeforeShutdown and Past(s)     *)
(* compare the admin thread's position PcIndex with a stage's.             *)

LEMMA PcIndexBridge ==
    ASSUME NEW p
    PROVE  S!PcIndex(p) = SP!PcIndex(p)
BY DEF S!PcIndex, SP!PcIndex, S!Stages, SP!Stages, S!StageOrder, SP!StageOrder

LEMMA PhaseNumbers ==
    /\ S!PcIndex("check") = 0 /\ S!PcIndex("wait") = 0
    /\ S!PcIndex("delayed") = 1 /\ S!PcIndex("workers") = 6
    /\ S!PcIndex("exports") = 10 /\ S!PcIndex("pidfile") = 12
    /\ S!PcIndex("exited") = 13
<1>1. /\ SP!StageOrder[1] = "delayed" /\ SP!StageOrder[6] = "workers"
      /\ SP!StageOrder[10] = "exports" /\ SP!StageOrder[12] = "pidfile"
  BY DEF SP!StageOrder
<1>2. QED
  BY <1>1, PcIndexBridge, SP!PcIndexOf

\* The admin thread's own steps keep it before do_shutdown, or enter the
\* first stage.
LEMMA AdminStepPhase ==
    AdminStep => \/ UNCHANGED admin_pc
                 \/ S!PcIndex(admin_pc) = 0 /\ S!PcIndex(admin_pc') \in {0, 1}
BY PhaseNumbers DEF AdminStep, S!AdminHalt, S!DbusShutdown, S!AdminCheck,
                    S!SpuriousWake, S!StageOrder

\* A stage moves the admin thread one stage on; remove_all_exports, the
\* tenth, returns only once every export is removed.
LEMMA ShutdownStagePhase ==
    ShutdownStage => /\ S!PcIndex(admin_pc') = S!PcIndex(admin_pc) + 1
                     /\ S!PcIndex(admin_pc) = 10 => ExportsRemoved
<1> SUFFICES ASSUME ShutdownStage
             PROVE  /\ S!PcIndex(admin_pc') = S!PcIndex(admin_pc) + 1
                    /\ S!PcIndex(admin_pc) = 10 => ExportsRemoved
  OBVIOUS
<1> PICK s \in S!Stages : \E rc \in S!Outcomes(s) :
        /\ S!StageStep(s, rc)
        /\ s = "exports" => ExportsRemoved
  BY DEF ShutdownStage
<1>1. /\ s \in SP!Stages
      /\ admin_pc = s
      /\ admin_pc' = SP!NextStage(s)
  BY DEF S!StageStep, S!NextStage, SP!NextStage, S!Stages, SP!Stages,
         S!StageOrder, SP!StageOrder
<1>2. SP!PcIndex(SP!NextStage(s)) = SP!PcIndex(s) + 1
  BY <1>1, SP!NextStageIndex
<1>3. PICK i \in 1..12 : s = SP!StageOrder[i]
  BY <1>1 DEF SP!Stages, SP!StageOrder
<1>4. SP!PcIndex(s) = 10 => s = "exports"
  BY <1>3, SP!PcIndexOf DEF SP!StageOrder
<1>5. QED
  BY <1>1, <1>2, <1>4, PcIndexBridge

LEMMA PcIndexRange ==
    ASSUME NEW p
    PROVE  S!PcIndex(p) \in 0..13
<1>1. CASE p \in S!Stages
  <2>1. \E j \in 1..S!Len(S!StageOrder) : S!StageOrder[j] = p
    BY <1>1 DEF S!Stages
  <2>2. S!Len(S!StageOrder) = 12
    BY DEF S!StageOrder
  <2>3. QED
    BY <1>1, <2>1, <2>2 DEF S!PcIndex
<1>2. QED
  BY <1>1 DEF S!PcIndex, S!StageOrder

-----------------------------------------------------------------------------
(* The inductive invariant behind NoExportMapAtTeardown.                   *)

\* A request's export exists: mdcache_exp_release waits until no request
\* refers to the export.
ReqExportExists ==
    \A t \in Threads : req[t].exp # NoExport => exp_state[req[t].exp] # "absent"

\* While the workers run, no export is being unexported:
\* remove_all_exports comes after worker_shutdown.
NoUnexportWhileWorking ==
    Working => \A x \in Exports : exp_state[x] \in {"absent", "live"}

\* An export that was never created, was released, or whose unexport
\* loop has ended has no entry.
GoneUnlinked ==
    \A x \in Exports : exp_state[x] \in {"absent", "done"} => C!EntryList(x) = {}

\* Past remove_all_exports every unexport loop has ended.
RemovedAfterExports == S!Past("exports") => ExportsRemoved

TInv == ReqExportExists /\ NoUnexportWhileWorking /\ GoneUnlinked
        /\ RemovedAfterExports

LEMMA CacheTypeOK == CP!IInv => C!TypeOK
BY DEF CP!IInv, CP!TypeOK, C!TypeOK, CP!ExpStates, C!ExpStates

\* The invariants together give NoExportMapAtTeardown: the FSALs are torn
\* down only past remove_all_exports, when every export is removed and so
\* linked to no entry.
LEMMA TeardownFromTInv ==
    ASSUME CP!IInv, SP!SIInv, TInv
    PROVE  NoExportMapAtTeardown
<1> SUFFICES ASSUME fsal_fate # "loaded", NEW e \in Entries
             PROVE  export_list[e] = {}
  BY DEF NoExportMapAtTeardown
<1>1. admin_pc \in {"pidfile", "exited"}
  BY DEF SP!SIInv, SP!FsalsTornDownLate
<1>2. S!Past("exports")
  BY <1>1, PhaseNumbers DEF S!Past
<1>3. \A x \in Exports : C!EntryList(x) = {}
  BY <1>2 DEF TInv, RemovedAfterExports, ExportsRemoved, GoneUnlinked
<1>4. QED
  BY <1>3, CacheTypeOK DEF C!EntryList, C!TypeOK

\* Facts every cache step of the composition can use.
LEMMA CacheStepFacts ==
    ASSUME CP!IInv, UNCHANGED shutdown_vars
    PROVE  /\ C!TypeOK
           /\ NoExport \notin Exports
           /\ Working' = Working
           /\ S!Past("exports")' = S!Past("exports")
BY CacheTypeOK, MDCacheShutdownAssumption
   DEF C!CacheConstants, shutdown_vars, Working, S!Past

\* mdcache_fsal_create_export runs before the shutdown.
LEMMA CreateExportTInv ==
    ASSUME CP!IInv, TInv, NEW x \in Exports, C!CreateExport(x),
           BeforeShutdown, UNCHANGED shutdown_vars
    PROVE  TInv'
<1>1. /\ Working /\ ~S!Past("exports")
      /\ Working' /\ ~S!Past("exports")'
  BY CacheStepFacts, PhaseNumbers DEF BeforeShutdown, Working, S!Past
<1>2. /\ exp_state'[x] \in {"absent", "live"}
      /\ \A y \in Exports \ {x} : exp_state'[y] = exp_state[y]
      /\ exp_state[x] = "absent"
      /\ UNCHANGED <<export_list, req>>
  BY CacheStepFacts DEF C!CreateExport, C!TypeOK
<1>3. QED
  BY <1>1, <1>2, CacheStepFacts
     DEF TInv, ReqExportExists, NoUnexportWhileWorking, GoneUnlinked,
         RemovedAfterExports, C!EntryList, C!TypeOK

\* remove_all_exports starts an unexport only in its own stage, after the
\* workers stopped.
LEMMA UnexportSubTInv ==
    ASSUME CP!IInv, TInv, NEW x \in Exports, C!UnexportSub(x),
           admin_pc = "exports", UNCHANGED shutdown_vars
    PROVE  TInv'
<1>1. ~Working' /\ ~S!Past("exports")'
  BY CacheStepFacts, PhaseNumbers DEF Working, S!Past
<1>2. /\ exp_state[x] = "live" /\ exp_state'[x] = "loop"
      /\ \A y \in Exports \ {x} : exp_state'[y] = exp_state[y]
      /\ UNCHANGED <<export_list, req>>
  BY CacheStepFacts DEF C!UnexportSub, C!TypeOK
<1>3. QED
  BY <1>1, <1>2, CacheStepFacts
     DEF TInv, ReqExportExists, NoUnexportWhileWorking, GoneUnlinked,
         RemovedAfterExports, C!EntryList, C!TypeOK

\* The steps of an unexport loop that has started: the loop ends only
\* with the export's entry list empty, and the list only shrinks.
LEMMA UnexportLoopStepTInv ==
    ASSUME CP!IInv, TInv, NEW x \in Exports, UNCHANGED shutdown_vars,
           \/ C!UnexportLoop(x) \/ C!UnexportRemove(x)
           \/ C!UnexportPush(x) \/ C!UnexportPut(x)
    PROVE  TInv'
<1>0. C!TypeOK
  BY CacheTypeOK
<1>1. exp_state[x] \in {"loop", "remove", "push", "put"}
  BY DEF C!UnexportLoop, C!UnexportRemove, C!UnexportPush, C!UnexportPut
<1>2. ~Working' /\ ~S!Past("exports")'
  BY <1>1, CacheStepFacts
     DEF TInv, NoUnexportWhileWorking, RemovedAfterExports, ExportsRemoved
<1>3. /\ \/ exp_state'[x] \in {"loop", "remove", "push", "put"}
         \/ exp_state'[x] = "done" /\ C!EntryList(x) = {}
      /\ \A y \in Exports \ {x} : exp_state'[y] = exp_state[y]
      /\ \A e \in Entries : export_list'[e] \subseteq export_list[e]
      /\ UNCHANGED req
  <2>1. CASE C!UnexportLoop(x)
    BY <2>1, <1>0 DEF C!UnexportLoop, C!TypeOK
  <2>2. CASE C!UnexportRemove(x)
    BY <2>2, <1>0 DEF C!UnexportRemove, C!TypeOK
  <2>3. CASE C!UnexportPush(x)
    BY <2>3, <1>0 DEF C!UnexportPush, C!CleanupTryPush, C!TypeOK
  <2>4. CASE C!UnexportPut(x)
    BY <2>4, <1>0 DEF C!UnexportPut, C!TypeOK
  <2>5. QED
    BY <2>1, <2>2, <2>3, <2>4
<1>4. QED
  BY <1>1, <1>2, <1>3, CacheStepFacts
     DEF TInv, ReqExportExists, NoUnexportWhileWorking, GoneUnlinked,
         RemovedAfterExports, C!EntryList, C!TypeOK

\* mdcache_exp_release: the loop has ended and no request uses the export.
LEMMA ExpReleaseTInv ==
    ASSUME CP!IInv, TInv, NEW x \in Exports, C!ExpRelease(x),
           UNCHANGED shutdown_vars
    PROVE  TInv'
<1>1. /\ exp_state[x] = "done" /\ exp_state'[x] = "absent"
      /\ \A t \in Threads : req[t].exp # x
      /\ \A y \in Exports \ {x} : exp_state'[y] = exp_state[y]
      /\ UNCHANGED <<export_list, req>>
  BY CacheStepFacts DEF C!ExpRelease, C!TypeOK
<1>2. QED
  BY <1>1, CacheStepFacts
     DEF TInv, ReqExportExists, NoUnexportWhileWorking, GoneUnlinked,
         RemovedAfterExports, ExportsRemoved, C!EntryList, C!TypeOK

\* A request is admitted only on a live export.
LEMMA AdmitTInv ==
    ASSUME CP!IInv, TInv, NEW t \in Threads, NEW x \in Exports,
           C!Admit(t, x), UNCHANGED shutdown_vars
    PROVE  TInv'
<1>1. /\ exp_state[x] = "live"
      /\ req' = [req EXCEPT ![t].exp = x]
      /\ UNCHANGED <<export_list, exp_state>>
  BY DEF C!Admit
<1>2. QED
  BY <1>1, CacheStepFacts
     DEF TInv, ReqExportExists, NoUnexportWhileWorking, GoneUnlinked,
         RemovedAfterExports, ExportsRemoved, C!EntryList, C!TypeOK

\* A lookup runs only while the workers run, so the export it links the
\* entry to is live.
LEMMA LookupTInv ==
    ASSUME CP!IInv, TInv, NEW t \in Threads, NEW e \in Entries,
           C!Lookup(t, e), Working, UNCHANGED shutdown_vars
    PROVE  TInv'
<1>0. /\ C!TypeOK /\ NoExport \notin Exports
      /\ Working' /\ S!Past("exports")' = S!Past("exports")
  BY CacheStepFacts
<1>1. /\ req[t].exp \in Exports
      /\ exp_state[req[t].exp] = "live"
  BY <1>0 DEF C!Lookup, C!TypeOK, TInv, ReqExportExists,
              NoUnexportWhileWorking
<1>2. /\ \A g \in Entries : export_list'[g] \subseteq export_list[g] \cup {req[t].exp}
      /\ \A s \in Threads : req'[s].exp \in {req[s].exp, NoExport}
      /\ UNCHANGED exp_state
  <2>1. CASE cached[e] /\ unreachable[e]
    BY <1>0, <2>1 DEF C!Lookup, C!TypeOK, C!Idle
  <2>2. CASE ~(cached[e] /\ unreachable[e])
    <3>1. /\ export_list' = [export_list EXCEPT ![e] = @ \cup {req[t].exp}]
          /\ req' = [req EXCEPT ![t].ent = e]
          /\ UNCHANGED exp_state
      BY <2>2 DEF C!Lookup
    <3>2. \A s \in Threads : req'[s].exp = req[s].exp
      BY <1>0, <3>1 DEF C!TypeOK
    <3>3. QED
      BY <1>0, <3>1, <3>2 DEF C!TypeOK
  <2>3. QED
    BY <2>1, <2>2
<1>3. GoneUnlinked'
  BY <1>0, <1>1, <1>2 DEF TInv, GoneUnlinked, C!EntryList, C!TypeOK
<1>4. QED
  BY <1>0, <1>2, <1>3
     DEF TInv, ReqExportExists, NoUnexportWhileWorking, RemovedAfterExports,
         ExportsRemoved

\* A completed request refers to no export.
LEMMA DoneTInv ==
    ASSUME CP!IInv, TInv, NEW t \in Threads, C!Done(t),
           UNCHANGED shutdown_vars
    PROVE  TInv'
<1>1. /\ req' = [req EXCEPT ![t] = C!Idle]
      /\ UNCHANGED <<export_list, exp_state>>
  BY DEF C!Done
<1>2. QED
  BY <1>1, CacheStepFacts
     DEF TInv, ReqExportExists, NoUnexportWhileWorking, GoneUnlinked,
         RemovedAfterExports, ExportsRemoved, C!EntryList, C!TypeOK, C!Idle

\* mdcache_kill_entry and the reaper only unlink entries.
LEMMA KillReapTInv ==
    ASSUME CP!IInv, TInv, NEW e \in Entries, UNCHANGED shutdown_vars,
           C!Kill(e) \/ C!Reap(e)
    PROVE  TInv'
<1>1. /\ \A g \in Entries : export_list'[g] \subseteq export_list[g]
      /\ UNCHANGED <<exp_state, req>>
  BY CacheStepFacts DEF C!Kill, C!Reap, C!TypeOK
<1>2. QED
  BY <1>1, CacheStepFacts
     DEF TInv, ReqExportExists, NoUnexportWhileWorking, GoneUnlinked,
         RemovedAfterExports, ExportsRemoved, C!EntryList, C!TypeOK

LEMMA CacheStepTInv ==
    ASSUME CP!IInv, TInv, CacheStep
    PROVE  TInv'
<1>0. UNCHANGED shutdown_vars
  BY DEF CacheStep
<1>1. CASE \E x \in Exports : C!CreateExport(x) /\ BeforeShutdown
  BY <1>0, <1>1, CreateExportTInv
<1>2. CASE \E x \in Exports : UnexportStep(x)
  <2> PICK x \in Exports : UnexportStep(x)
    BY <1>2
  <2>1. CASE C!UnexportSub(x) /\ admin_pc = "exports"
    BY <1>0, <2>1, UnexportSubTInv
  <2>2. CASE \/ C!UnexportLoop(x) \/ C!UnexportRemove(x)
             \/ C!UnexportPush(x) \/ C!UnexportPut(x)
    BY <1>0, <2>2, UnexportLoopStepTInv
  <2>3. CASE C!ExpRelease(x)
    BY <1>0, <2>3, ExpReleaseTInv
  <2>4. QED
    BY <2>1, <2>2, <2>3 DEF UnexportStep
<1>3. CASE \E t \in Threads, x \in Exports : C!Admit(t, x) /\ Decoding
  BY <1>0, <1>3, AdmitTInv
<1>4. CASE \E t \in Threads, e \in Entries : C!Lookup(t, e) /\ Working
  BY <1>0, <1>4, LookupTInv
<1>5. CASE \E t \in Threads : C!Done(t) /\ Working
  BY <1>0, <1>5, DoneTInv
<1>6. CASE \E e \in Entries : C!Kill(e) /\ fsal_fate = "loaded"
  BY <1>0, <1>6, KillReapTInv
<1>7. CASE \E e \in Entries : C!ReapCleanup(e) \/ C!ReclaimLRU(e)
  BY <1>0, <1>7, KillReapTInv DEF C!ReapCleanup, C!ReclaimLRU
<1>8. QED
  BY <1>1, <1>2, <1>3, <1>4, <1>5, <1>6, <1>7 DEF CacheStep

\* The admin thread's own steps keep it before the first stage.
LEMMA AdminStepTInv ==
    ASSUME TInv, AdminStep
    PROVE  TInv'
<1>0. UNCHANGED cache_vars
  BY DEF AdminStep
<1>1. CASE UNCHANGED admin_pc
  BY <1>0, <1>1 DEF TInv, ReqExportExists, NoUnexportWhileWorking,
                    GoneUnlinked, RemovedAfterExports, ExportsRemoved,
                    C!EntryList, cache_vars, Working, S!Past
<1>2. CASE S!PcIndex(admin_pc) = 0 /\ S!PcIndex(admin_pc') \in {0, 1}
  <2>1. Working /\ Working' /\ ~S!Past("exports")'
    BY <1>2, PhaseNumbers DEF Working, S!Past
  <2>2. QED
    BY <1>0, <2>1 DEF TInv, ReqExportExists, NoUnexportWhileWorking,
                      GoneUnlinked, RemovedAfterExports, C!EntryList,
                      cache_vars
<1>3. QED
  BY <1>1, <1>2, AdminStepPhase

\* A stage of do_shutdown changes no cache state and moves on by one.
LEMMA ShutdownStageTInv ==
    ASSUME TInv, ShutdownStage
    PROVE  TInv'
<1>0. UNCHANGED cache_vars
  BY DEF ShutdownStage
<1>1. /\ S!PcIndex(admin_pc') = S!PcIndex(admin_pc) + 1
      /\ S!PcIndex(admin_pc) = 10 => ExportsRemoved
      /\ S!PcIndex(admin_pc) \in 0..13
  BY ShutdownStagePhase, PcIndexRange
<1>2. /\ Working' => Working
      /\ S!Past("exports")' => S!Past("exports") \/ S!PcIndex(admin_pc) = 10
  BY <1>1, PhaseNumbers DEF Working, S!Past
<1>3. QED
  BY <1>0, <1>1, <1>2
     DEF TInv, ReqExportExists, NoUnexportWhileWorking, GoneUnlinked,
         RemovedAfterExports, ExportsRemoved, C!EntryList, cache_vars

LEMMA InitTInv == Init => TInv
<1> SUFFICES ASSUME Init PROVE TInv
  OBVIOUS
<1>1. admin_pc = "check" /\ exp_state = [x \in Exports |-> "absent"]
      /\ export_list = [e \in Entries |-> {}]
      /\ \A t \in Threads : req[t].exp = NoExport
  BY DEF Init, C!Init, S!ShutdownInit, C!Idle
<1>2. ~S!Past("exports")
  BY <1>1, PhaseNumbers DEF S!Past
<1>3. QED
  BY <1>1, <1>2 DEF TInv, ReqExportExists, NoUnexportWhileWorking,
                    GoneUnlinked, RemovedAfterExports, C!EntryList

LEMMA NextTInv ==
    CP!IInv /\ TInv /\ [Next]_all_vars => TInv'
<1> SUFFICES ASSUME CP!IInv, TInv, [Next]_all_vars PROVE TInv'
  OBVIOUS
<1>1. CASE AdminStep
  BY <1>1, AdminStepTInv
<1>2. CASE ShutdownStage
  BY <1>2, ShutdownStageTInv
<1>3. CASE CacheStep
  BY <1>3, CacheStepTInv
<1>4. CASE UNCHANGED all_vars
  BY <1>4 DEF all_vars, cache_vars, shutdown_vars, TInv, ReqExportExists,
              NoUnexportWhileWorking, GoneUnlinked, RemovedAfterExports,
              ExportsRemoved, C!EntryList, Working, S!Past
<1>5. QED
  BY <1>1, <1>2, <1>3, <1>4 DEF Next

\* The cache's and the admin thread's invariants hold in the composition.
LEMMA ComponentInvariants == Spec => [](CP!IInv /\ SP!SIInv)
<1>0. CP!CacheConstants
  BY MDCacheShutdownAssumption
     DEF C!CacheConstants, CP!CacheConstants, C!IsFiniteSet, CP!IsFiniteSet
<1>1. Spec => []CP!IInv
  BY <1>0, ImplementsCache, CP!IInvHolds, CP!ConstantsAssumption
<1>2. Spec => []SP!SIInv
  BY ImplementsShutdown, SP!SIInvHolds
<1>3. QED
  BY <1>1, <1>2, PTL

\* Every variable of the cache and of the admin thread keeps its type
\* while do_shutdown tears the server down.
THEOREM ShutdownWithCacheTypeCorrect == Spec => []TypeOK
<1>1. CP!IInv /\ SP!SIInv => TypeOK
  BY CacheTypeOK DEF SP!SIInv, SP!ShutdownTypeOK, S!ShutdownTypeOK,
                     SP!AdminStates, S!AdminStates, SP!Stages, S!Stages,
                     SP!StageOrder, S!StageOrder, TypeOK
<1>2. QED
  BY <1>1, ComponentInvariants, PTL

\* When destroy_fsals or emergency_cleanup_fsals runs, no entry is linked
\* to an export any more: do_shutdown calls remove_all_exports after
\* worker_shutdown, so no lookup re-links an entry to an export whose
\* unexport has started, for every number of entries, exports and
\* threads and every outcome of every stage.
THEOREM NoExportMapAtTeardownHolds == Spec => []NoExportMapAtTeardown
<1>1. Spec => []TInv
  BY ComponentInvariants, InitTInv, NextTInv, PTL DEF Spec
<1>2. QED
  BY <1>1, ComponentInvariants, TeardownFromTInv, PTL

=============================================================================
