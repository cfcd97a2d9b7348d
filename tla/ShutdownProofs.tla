--------------------------- MODULE ShutdownProofs ---------------------------
(***************************************************************************)
(* Proofs about the admin thread of nfs_admin_thread.c.                    *)
(*                                                                         *)
(* FsalTeardownMatchesFailures is not inductive: the "fsals" stage picks   *)
(* the teardown by do_shutdown's local flag disorderly, and later stages   *)
(* could in principle still fail.  The inductive invariant therefore adds  *)
(* that disorderly is set exactly when some stage failed, and that the     *)
(* FSALs are still loaded until the thread is past the "fsals" stage.      *)
(***************************************************************************)
EXTENDS Shutdown, TLAPS

\* do_shutdown's flag records exactly whether a call failed.
DisorderlyIffFailed == disorderly <=> failed # {}

\* destroy_fsals / emergency_cleanup_fsals run in the "fsals" stage, and
\* only "pidfile" comes after it.
FsalsTornDownLate == fsal_fate # "loaded" => admin_pc \in {"pidfile", "exited"}

SIInv ==
    /\ ShutdownTypeOK
    /\ ShutdownOnlyWhenRequested
    /\ DisorderlyIffFailed
    /\ FsalsTornDownLate
    /\ FsalTeardownMatchesFailures

-----------------------------------------------------------------------------
(* The stage table.                                                        *)

LEMMA StagesList ==
    Stages = {"delayed", "state_async", "dispatch", "clean_rpc",
              "req_fridge", "workers", "svc", "general_fridge", "reaper",
              "exports", "fsals", "pidfile"}
<1>1. Len(StageOrder) = 12
  BY DEF StageOrder
<1>2. QED
  BY <1>1 DEF Stages, StageOrder

\* The stage after a stage is a stage, or the exit of the thread.
LEMMA NextStageType ==
    ASSUME NEW s \in Stages
    PROVE  NextStage(s) \in Stages \cup {"exited"}
<1>1. Len(StageOrder) = 12
  BY DEF StageOrder
<1>2. \E j \in 1..Len(StageOrder) : StageOrder[j] = s
  BY DEF Stages
<1> DEFINE i == CHOOSE j \in 1..Len(StageOrder) : StageOrder[j] = s
<1>3. i \in 1..12
  BY <1>1, <1>2
<1>4. i < 12 => StageOrder[i + 1] \in Stages
  BY <1>1, <1>3 DEF Stages
<1>5. QED
  BY <1>1, <1>4 DEF NextStage

\* The FSALs are torn down by the last stage but one.
LEMMA NextStageLate ==
    /\ NextStage("fsals") = "pidfile"
    /\ NextStage("pidfile") = "exited"
<1>1. Len(StageOrder) = 12
  BY DEF StageOrder
<1>2. \A j \in 1..12 : StageOrder[j] = "fsals" <=> j = 11
  BY DEF StageOrder
<1>3. \A j \in 1..12 : StageOrder[j] = "pidfile" <=> j = 12
  BY DEF StageOrder
<1>4. (CHOOSE j \in 1..Len(StageOrder) : StageOrder[j] = "fsals") = 11
  BY <1>1, <1>2
<1>5. (CHOOSE j \in 1..Len(StageOrder) : StageOrder[j] = "pidfile") = 12
  BY <1>1, <1>3
<1>6. QED
  BY <1>1, <1>4, <1>5 DEF NextStage, StageOrder

\* The last two stages ignore their results.
LEMMA LateStagesCannotFail ==
    Outcomes("fsals") = {"ok"} /\ Outcomes("pidfile") = {"ok"}
BY DEF Outcomes

\* The stage names are pairwise distinct.
LEMMA StageIndexUnique ==
    \A i, j \in 1..12 : StageOrder[i] = StageOrder[j] => i = j
BY DEF StageOrder

\* The index of the i-th stage in do_shutdown's order is i.
LEMMA StageIndex ==
    ASSUME NEW i \in 1..12
    PROVE  (CHOOSE j \in 1..Len(StageOrder) : StageOrder[j] = StageOrder[i]) = i
<1>1. Len(StageOrder) = 12
  BY DEF StageOrder
<1>2. QED
  BY <1>1, StageIndexUnique

\* do_shutdown calls the stages one after the other.
LEMMA NextStageOf ==
    ASSUME NEW i \in 1..12
    PROVE  NextStage(StageOrder[i]) = IF i = 12 THEN "exited" ELSE StageOrder[i + 1]
<1>1. Len(StageOrder) = 12
  BY DEF StageOrder
<1>2. (CHOOSE j \in 1..Len(StageOrder) : StageOrder[j] = StageOrder[i]) = i
  BY StageIndex
<1>3. QED
  BY <1>1, <1>2 DEF NextStage

\* The position of the admin thread, stage by stage.
LEMMA PcIndexOf ==
    /\ \A i \in 1..12 : PcIndex(StageOrder[i]) = i
    /\ PcIndex("check") = 0 /\ PcIndex("wait") = 0
    /\ PcIndex("exited") = 13
<1>1. Len(StageOrder) = 12
  BY DEF StageOrder
<1>2. ASSUME NEW i \in 1..12 PROVE PcIndex(StageOrder[i]) = i
  <2>1. StageOrder[i] \in Stages /\ StageOrder[i] # "exited"
    BY <1>1 DEF Stages, StageOrder
  <2>2. QED
    BY <2>1, StageIndex DEF PcIndex
<1>3. "check" \notin Stages /\ "wait" \notin Stages /\ "exited" \notin Stages
  BY StagesList
<1>4. QED
  BY <1>1, <1>2, <1>3 DEF PcIndex


\* Each call of do_shutdown moves the admin thread one stage on.
LEMMA NextStageIndex ==
    ASSUME NEW s \in Stages
    PROVE  PcIndex(NextStage(s)) = PcIndex(s) + 1
<1>1. PICK i \in 1..12 : s = StageOrder[i]
  BY DEF Stages, StageOrder
<1>2. NextStage(s) = IF i = 12 THEN "exited" ELSE StageOrder[i + 1]
  BY <1>1, NextStageOf
<1>3. QED
  BY <1>1, <1>2, PcIndexOf

-----------------------------------------------------------------------------
LEMMA InitSIInv == ShutdownInit => SIInv
BY DEF ShutdownInit, SIInv, ShutdownTypeOK, AdminStates,
       ShutdownOnlyWhenRequested, DisorderlyIffFailed, FsalsTornDownLate,
       FsalTeardownMatchesFailures

\* admin_halt sets the flag and wakes a waiting admin thread.
LEMMA AdminHaltSIInv ==
    ASSUME SIInv, AdminHalt
    PROVE  SIInv'
BY DEF AdminHalt, SIInv, ShutdownTypeOK, AdminStates,
       ShutdownOnlyWhenRequested, DisorderlyIffFailed, FsalsTornDownLate,
       FsalTeardownMatchesFailures

\* The admin thread leaves its wait loop only with the flag set.
LEMMA AdminCheckSIInv ==
    ASSUME SIInv, AdminCheck
    PROVE  SIInv'
<1>1. StageOrder[1] \in Stages /\ StageOrder[1] \notin {"check", "wait"}
  BY StagesList DEF StageOrder
<1>2. QED
  BY <1>1 DEF AdminCheck, SIInv, ShutdownTypeOK, AdminStates,
              ShutdownOnlyWhenRequested, DisorderlyIffFailed,
              FsalsTornDownLate, FsalTeardownMatchesFailures

\* A spurious wakeup goes back to testing the flag.
LEMMA SpuriousWakeSIInv ==
    ASSUME SIInv, SpuriousWake
    PROVE  SIInv'
BY DEF SpuriousWake, SIInv, ShutdownTypeOK, AdminStates,
       ShutdownOnlyWhenRequested, DisorderlyIffFailed, FsalsTornDownLate,
       FsalTeardownMatchesFailures

\* One call of do_shutdown: a failure is recorded in both disorderly and
\* the history, and the FSAL teardown follows the flag.
LEMMA StageStepSIInv ==
    ASSUME SIInv, NEW s \in Stages, NEW rc \in Outcomes(s), StageStep(s, rc)
    PROVE  SIInv'
<1>0. /\ NextStage(s) \in Stages \cup {"exited"}
      /\ s \notin {"check", "wait", "exited"}
  BY NextStageType, StagesList
<1>1. ShutdownTypeOK' /\ ShutdownOnlyWhenRequested' /\ DisorderlyIffFailed'
  BY <1>0 DEF StageStep, SIInv, ShutdownTypeOK, AdminStates,
              ShutdownOnlyWhenRequested, DisorderlyIffFailed
<1>2. FsalsTornDownLate' /\ FsalTeardownMatchesFailures'
  <2>1. CASE s = "fsals"
    <3>1. rc = "ok" /\ admin_pc' = "pidfile"
      BY <2>1, LateStagesCannotFail, NextStageLate DEF StageStep
    <3>2. QED
      BY <2>1, <3>1 DEF StageStep, SIInv, DisorderlyIffFailed,
                        FsalsTornDownLate, FsalTeardownMatchesFailures
  <2>2. CASE s = "pidfile"
    <3>1. rc = "ok" /\ admin_pc' = "exited"
      BY <2>2, LateStagesCannotFail, NextStageLate DEF StageStep
    <3>2. QED
      BY <2>2, <3>1 DEF StageStep, SIInv, FsalsTornDownLate,
                        FsalTeardownMatchesFailures
  <2>3. CASE s \notin {"fsals", "pidfile"}
    <3>1. fsal_fate = "loaded" /\ fsal_fate' = "loaded"
      BY <1>0, <2>3 DEF StageStep, SIInv, FsalsTornDownLate
    <3>2. QED
      BY <3>1 DEF FsalsTornDownLate, FsalTeardownMatchesFailures
  <2>4. QED
    BY <2>1, <2>2, <2>3
<1>3. QED
  BY <1>1, <1>2 DEF SIInv

LEMMA NextSIInv == SIInv /\ [ShutdownNext]_shutdown_vars => SIInv'
<1> SUFFICES ASSUME SIInv, [ShutdownNext]_shutdown_vars PROVE SIInv'
  OBVIOUS
<1>1. CASE AdminHalt \/ DbusShutdown
  BY <1>1, AdminHaltSIInv DEF DbusShutdown
<1>2. CASE AdminCheck
  BY <1>2, AdminCheckSIInv
<1>3. CASE SpuriousWake
  BY <1>3, SpuriousWakeSIInv
<1>4. CASE DoShutdown
  BY <1>4, StageStepSIInv DEF DoShutdown
<1>5. CASE UNCHANGED shutdown_vars
  BY <1>5 DEF shutdown_vars, SIInv, ShutdownTypeOK,
              ShutdownOnlyWhenRequested, DisorderlyIffFailed,
              FsalsTornDownLate, FsalTeardownMatchesFailures
<1>6. QED
  BY <1>1, <1>2, <1>3, <1>4, <1>5 DEF ShutdownNext

\* The strengthened invariant holds in every reachable state.
THEOREM SIInvHolds == ShutdownSpec => []SIInv
BY InitSIInv, NextSIInv, PTL DEF ShutdownSpec

\* Every variable of the admin thread keeps its type.
THEOREM ShutdownTypeCorrect == ShutdownSpec => []ShutdownTypeOK
BY SIInvHolds, PTL DEF SIInv

\* admin_thread runs do_shutdown only after admin_halt set
\* admin_shutdown, however often pthread_cond_wait returns spuriously.
THEOREM ShutdownOnlyWhenRequestedHolds == ShutdownSpec => []ShutdownOnlyWhenRequested
BY SIInvHolds, PTL DEF SIInv

\* do_shutdown calls destroy_fsals only when no call failed, and
\* emergency_cleanup_fsals only when one did, for every combination of
\* return codes.
THEOREM FsalTeardownHolds == ShutdownSpec => []FsalTeardownMatchesFailures
BY SIInvHolds, PTL DEF SIInv

=============================================================================
