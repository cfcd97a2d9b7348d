------------------------------ MODULE Shutdown ------------------------------
(***************************************************************************)
(* The admin thread of nfs_admin_thread.c (src/unnamed/part_001).          *)
(*                                                                         *)
(* admin_halt sets admin_shutdown under admin_control_mtx and broadcasts   *)
(* admin_control_cv; admin_thread waits on the condition variable until    *)
(* the flag is set and then runs do_shutdown, which stops the server's     *)
(* subsystems one after the other.  Every stage that returns a status may  *)
(* fail; a failure makes the shutdown "disorderly", and a disorderly       *)
(* shutdown ends in emergency_cleanup_fsals instead of destroy_fsals.      *)
(*                                                                         *)
(* The subsystems themselves are not modelled here: a stage is one step    *)
(* whose outcome is chosen among the return codes the code tests.  The     *)
(* module MDCacheShutdown composes these stages with the cache.            *)
(***************************************************************************)
EXTENDS Naturals, Sequences, FiniteSets

VARIABLES
    admin_shutdown,  \* the flag protected by admin_control_mtx
    admin_pc,        \* where the admin thread is
    disorderly,      \* do_shutdown's local flag
    failed,          \* history: the stages whose call reported an error
    fsal_fate        \* what became of the FSALs

shutdown_vars == <<admin_shutdown, admin_pc, disorderly, failed, fsal_fate>>

\* (Mutant) remove_all_exports moved before worker_shutdown.
StageOrderExportsFirst ==
    <<"delayed", "state_async", "dispatch", "clean_rpc", "req_fridge",
      "exports", "workers", "svc", "general_fridge", "reaper", "fsals",
      "pidfile">>

\* The calls of do_shutdown, in the order of the code (lines 360-450).
StageOrder == <<"delayed", "state_async", "dispatch", "clean_rpc",
                "req_fridge", "workers", "svc", "general_fridge", "reaper",
                "exports", "fsals", "pidfile">>

Stages == {StageOrder[i] : i \in 1..Len(StageOrder)}

\* The stage after stage s; the last one leads out of the thread.
NextStage(s) ==
    LET i == CHOOSE j \in 1..Len(StageOrder) : StageOrder[j] = s
    IN  IF i = Len(StageOrder) THEN "exited" ELSE StageOrder[i + 1]

\* "check": about to take the mutex and test the flag; "wait": blocked in
\* pthread_cond_wait with the mutex released.
AdminStates == {"check", "wait", "exited"} \cup Stages

\* The return codes do_shutdown distinguishes for each call: rc != 0,
\* ETIMEDOUT for the request fridge, and calls whose result is ignored.
Outcomes(s) ==
    CASE s = "req_fridge" -> {"ok", "timeout", "error"}
      [] s \in {"state_async", "workers", "general_fridge", "reaper"}
                          -> {"ok", "error"}
      [] OTHER            -> {"ok"}

\* Position of the admin thread: 0 before do_shutdown, then the stage
\* number, and one more once the thread has returned.
PcIndex(pc) ==
    CASE pc \in Stages  -> CHOOSE i \in 1..Len(StageOrder) : StageOrder[i] = pc
      [] pc = "exited" -> Len(StageOrder) + 1
      [] OTHER         -> 0

\* Stage s has completed: the admin thread is past it.
Past(s) == PcIndex(admin_pc) > PcIndex(s)

ShutdownTypeOK ==
    /\ admin_shutdown \in BOOLEAN
    /\ admin_pc \in AdminStates
    /\ disorderly \in BOOLEAN
    /\ failed \subseteq Stages
    /\ fsal_fate \in {"loaded", "destroyed", "emergency"}

ShutdownInit ==
    /\ admin_shutdown = FALSE
    /\ admin_pc = "check"
    /\ disorderly = FALSE
    /\ failed = {}
    /\ fsal_fate = "loaded"

-----------------------------------------------------------------------------
(* admin_halt and its callers.                                             *)

\* (Mutant) the flag is set without the broadcast.
AdminHaltNoBroadcast ==
    /\ ~admin_shutdown
    /\ admin_shutdown' = TRUE
    /\ UNCHANGED <<admin_pc, disorderly, failed, fsal_fate>>

\* admin_halt: under the mutex, set the flag once and wake the waiters.
\* When the flag is already set it does nothing.
AdminHalt ==
    /\ ~admin_shutdown
    /\ admin_shutdown' = TRUE
    /\ admin_pc' = IF admin_pc = "wait" THEN "check" ELSE admin_pc
    /\ UNCHANGED <<disorderly, failed, fsal_fate>>

\* The DBus "shutdown" method calls admin_halt when it got no arguments;
\* with arguments it only replies with an error.
DbusShutdown ==
    \E has_args \in BOOLEAN :
        /\ ~has_args
        /\ AdminHalt

-----------------------------------------------------------------------------
(* admin_thread.                                                           *)

\* Under the mutex: leave the loop if the flag is set, else wait on the
\* condition variable, which releases the mutex in the same step.
AdminCheck ==
    /\ admin_pc = "check"
    /\ admin_pc' = IF admin_shutdown THEN StageOrder[1] ELSE "wait"
    /\ UNCHANGED <<admin_shutdown, disorderly, failed, fsal_fate>>

\* (Mutant) an "if" instead of the "while": any return of
\* pthread_cond_wait starts the shutdown.
SpuriousWakeProceeds ==
    /\ admin_pc = "wait"
    /\ admin_pc' = StageOrder[1]
    /\ UNCHANGED <<admin_shutdown, disorderly, failed, fsal_fate>>

\* pthread_cond_wait may return without a broadcast; the while loop
\* tests the flag again.
SpuriousWake ==
    /\ admin_pc = "wait"
    /\ admin_pc' = "check"
    /\ UNCHANGED <<admin_shutdown, disorderly, failed, fsal_fate>>

\* (Mutant) the stage bookkeeping records the return code in place of
\* the stage.
StageStepRecordsRc(s, rc) ==
    /\ admin_pc = s
    /\ rc \in Outcomes(s)
    /\ admin_pc' = NextStage(s)
    /\ disorderly' = (disorderly \/ rc # "ok")
    /\ failed' = IF rc = "ok" THEN failed ELSE failed \cup {rc}
    /\ fsal_fate' = IF s = "fsals"
                      THEN IF disorderly THEN "emergency" ELSE "destroyed"
                      ELSE fsal_fate
    /\ UNCHANGED admin_shutdown

\* (Mutant) the ETIMEDOUT branch cancels the threads but forgets to set
\* disorderly.
StageStepTimeoutOrderly(s, rc) ==
    /\ admin_pc = s
    /\ rc \in Outcomes(s)
    /\ admin_pc' = NextStage(s)
    /\ disorderly' = (disorderly \/ rc = "error")
    /\ failed' = IF rc = "ok" THEN failed ELSE failed \cup {s}
    /\ fsal_fate' = IF s = "fsals"
                      THEN IF disorderly THEN "emergency" ELSE "destroyed"
                      ELSE fsal_fate
    /\ UNCHANGED admin_shutdown

\* One call of do_shutdown with return code rc.  Any error sets
\* disorderly; the "fsals" stage tears the FSALs down by the flag.
StageStep(s, rc) ==
    /\ admin_pc = s
    /\ rc \in Outcomes(s)
    /\ admin_pc' = NextStage(s)
    /\ disorderly' = (disorderly \/ rc # "ok")
    /\ failed' = IF rc = "ok" THEN failed ELSE failed \cup {s}
    /\ fsal_fate' = IF s = "fsals"
                      THEN IF disorderly THEN "emergency" ELSE "destroyed"
                      ELSE fsal_fate
    /\ UNCHANGED admin_shutdown

DoShutdown == \E s \in Stages : \E rc \in Outcomes(s) : StageStep(s, rc)

ShutdownNext ==
    \/ AdminHalt
    \/ DbusShutdown
    \/ AdminCheck
    \/ SpuriousWake
    \/ DoShutdown

\* The admin thread is scheduled; halt requests and spurious wakeups are
\* not owed.
ShutdownFairness == WF_shutdown_vars(AdminCheck) /\ WF_shutdown_vars(DoShutdown)

ShutdownSpec == ShutdownInit /\ [][ShutdownNext]_shutdown_vars

ShutdownFairSpec == ShutdownSpec /\ ShutdownFairness

-----------------------------------------------------------------------------
(* Properties.                                                             *)

\* do_shutdown only runs after somebody called admin_halt: a spurious
\* return of pthread_cond_wait must not start the teardown.
ShutdownOnlyWhenRequested == admin_pc \notin {"check", "wait"} => admin_shutdown

\* The FSALs are destroyed the orderly way only when no stage of
\* do_shutdown failed, and by emergency_cleanup_fsals only when one did.
FsalTeardownMatchesFailures ==
    /\ fsal_fate = "destroyed" => failed = {}
    /\ fsal_fate = "emergency" => failed # {}

\* Once admin_halt has been called, the admin thread wakes up and runs
\* do_shutdown to its end, whatever the stages return.
HaltLeadsToExit == admin_shutdown ~> admin_pc = "exited"

=============================================================================
