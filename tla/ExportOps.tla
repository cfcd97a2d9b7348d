------------------------------ MODULE ExportOps ------------------------------
(***************************************************************************)
(* The export operations of the MDCACHE export (mdcache_export.c, lines    *)
(* 196-790): every one forwards to the same operation of the sub-export,   *)
(* inside subcall_raw, and returns the sub-export's answer.  A call is two *)
(* steps: the sub-FSAL runs the operation (its effect and its answer), and *)
(* later the call returns through subcall_raw to the caller.  Between the  *)
(* two the thread is still inside the MDCACHE export's code.               *)
(*                                                                         *)
(* mdcache_free_state is the one operation that does not reach the export *)
(* through the caller's export: it applies mdc_export() to                 *)
(* state->state_exp.  The MDCACHE export and its sub-export are different  *)
(* fsal_export handles, MdcHdl(x) and SubHdl(x): mdcache_alloc_state hands *)
(* only SubHdl(x) to the sub-FSAL, and mdc_export() (container_of) yields  *)
(* an MDCACHE export only from an MdcHdl.                                  *)
(*                                                                         *)
(* The module implements SubExport under a refinement mapping that takes   *)
(* a pending call's answer as the caller's result.                        *)
(***************************************************************************)
EXTENDS SubExport

CONSTANT Wild   \* where a call through a pointer that is no export lands

ASSUME ExportOpsAssumption == Wild \notin Exports \cup {NoExport}

VARIABLES
    call,       \* call[t]: the export operation thread t is inside of
    state_hdl   \* state_hdl[s]: the fsal_export pointer in state->state_exp

vars == <<exp_live, req, sub_quota, state_exp, result, call, state_hdl>>

\* The fsal_export handles: the MDCACHE export of x and the sub-export it
\* stacks on (exp->export.sub_export).
MdcHdl(x) == <<"mdc", x>>
SubHdl(x) == <<"sub", x>>
Handles == {MdcHdl(x) : x \in Exports} \cup {SubHdl(x) : x \in Exports}

\* mdc_export(h): container_of(h, struct mdcache_fsal_export, export).  On
\* an MDCACHE export's handle it is that export; on any other handle it
\* points into memory that is no MDCACHE export, and the sub_export read
\* through it is whatever lies there: some export's sub-export, or none.
MdcExportOf(h) ==
    IF \E x \in Exports : h = MdcHdl(x)
      THEN {CHOOSE x \in Exports : h = MdcHdl(x)}
      ELSE Exports \cup {Wild}

NoCall == [op |-> "none", exp |-> NoExport, st |-> NoExport, ans |-> NoResult]

Calls == [op : OpNames, exp : Exports \cup {Wild}, st : StateIds \cup {NoExport},
          ans : Replies]

\* (Mutant) the ops_init line for fs_maxwrite is missing.
MdcExportOpsNoMaxwrite ==
    (OpNames \ {"fs_maxwrite"})
        \cup {"get_name", "unexport", "release", "lookup_path", "create_handle"}

\* mdcache_export_ops_init: the operations the MDCACHE export installs over
\* the defaults of fsal_export_init (lookup_junction is left out).
MdcExportOps ==
    OpNames \cup {"get_name", "unexport", "release", "lookup_path",
                  "create_handle"}

\* (Mutant) mdcache_fs_maxwrite copy-pasted from mdcache_fs_maxread.
LimitSubOpMaxwriteReadsMaxread ==
    [o \in LimitOps |-> IF o = "fs_maxwrite" THEN "fs_maxread" ELSE o]

\* The sub-export operation each usage, feature and limit query calls
\* (mdcache_get_dynamic_info ... mdcache_fs_maxpathlen).
LimitSubOp == [o \in LimitOps |-> o]

\* ... each capability query calls (mdcache_fs_lease_time ...
\* mdcache_fs_xattr_access_rights).
CapSubOp == [o \in CapOps |-> o]

\* ... each pNFS, verifier and handle query calls (mdcache_getdevicelist
\* ... mdcache_extract_handle).
PnfsSubOp == [o \in PnfsOps |-> o]

SubOpOf(o) == CASE o \in LimitOps -> LimitSubOp[o]
               [] o \in CapOps   -> CapSubOp[o]
               [] o \in PnfsOps  -> PnfsSubOp[o]

\* A state some thread is freeing right now.
Freeing(s) == \E t \in Threads : call[t].op = "free_state" /\ call[t].st = s

TypeOK ==
    /\ SubTypeOK
    /\ call \in [Threads -> Calls \cup {NoCall}]
    /\ state_hdl \in [StateIds -> Handles \cup {NoExport}]

Init ==
    /\ SubInit
    /\ call = [t \in Threads |-> NoCall]
    /\ state_hdl = [s \in StateIds |-> NoExport]

-----------------------------------------------------------------------------
(* One action per MDCACHE export operation: the sub-FSAL's part of it.    *)

\* Entering an export operation on the export of t's request.
Calling(t) == call[t] = NoCall /\ req[t] # NoExport

StartCall(t, o, st, ans) ==
    call' = [call EXCEPT ![t] = [op |-> o, exp |-> req[t], st |-> st,
                                 ans |-> ans]]

\* mdcache_get_dynamic_info ... mdcache_extract_handle: the query goes to
\* the sub-export's operation when the vector has the MDCACHE method, else
\* to the default method, which knows nothing of the sub-export.
MdcQuery(t, o) ==
    /\ Calling(t)
    /\ StartCall(t, o, NoExport,
                 IF o \in MdcExportOps THEN Answer(req[t], SubOpOf(o))
                                       ELSE NoResult)
    /\ UNCHANGED <<exp_live, req, sub_quota, state_exp, result, state_hdl>>

MdcCheckQuota(t, u) ==
    /\ Calling(t)
    /\ StartCall(t, "check_quota", NoExport, WithinQuota(sub_quota[req[t]][u] > 0))
    /\ UNCHANGED <<exp_live, req, sub_quota, state_exp, result, state_hdl>>

MdcGetQuota(t, u) ==
    /\ Calling(t)
    /\ StartCall(t, "get_quota", NoExport, QuotaIs(sub_quota[req[t]][u]))
    /\ UNCHANGED <<exp_live, req, sub_quota, state_exp, result, state_hdl>>

MdcSetQuota(t, u, q) ==
    /\ Calling(t)
    /\ sub_quota' = [sub_quota EXCEPT ![req[t]][u] = q]
    /\ StartCall(t, "set_quota", NoExport, QuotaIs(q))
    /\ UNCHANGED <<exp_live, req, state_exp, result, state_hdl>>

\* mdcache_alloc_state: the sub-FSAL's alloc_state is given sub_export, the
\* only handle it is shown, allocates its state s and records that handle
\* in state->state_exp; mdcache_alloc_state returns the state as it is.
MdcAllocState(t, s) ==
    /\ Calling(t)
    /\ state_exp[s] = NoExport
    /\ state_exp' = [state_exp EXCEPT ![s] = req[t]]
    /\ state_hdl' = [state_hdl EXCEPT ![s] = SubHdl(req[t])]
    /\ StartCall(t, "alloc_state", s, StateIs(s))
    /\ UNCHANGED <<exp_live, req, sub_quota, result>>

\* (Mutant) the export is taken from op_ctx, not from state->state_exp.
MdcFreeStateViaOpCtx(t, s) ==
    /\ call[t] = NoCall
    /\ state_exp[s] # NoExport
    /\ ~Freeing(s)
    /\ call' = [call EXCEPT ![t] = [op |-> "free_state", exp |-> req[t],
                                   st |-> s, ans |-> Freed]]
    /\ UNCHANGED <<exp_live, req, sub_quota, state_exp, result, state_hdl>>

\* mdcache_free_state: any thread, in a request or not, frees a state
\* through exp = mdc_export(state->state_exp) and exp->export.sub_export.
MdcFreeState(t, s) ==
    /\ call[t] = NoCall
    /\ state_exp[s] # NoExport
    /\ ~Freeing(s)
    /\ \E y \in MdcExportOf(state_hdl[s]) :
          call' = [call EXCEPT ![t] = [op |-> "free_state", exp |-> y,
                                       st |-> s, ans |-> Freed]]
    /\ UNCHANGED <<exp_live, req, sub_quota, state_exp, result, state_hdl>>

\* subcall_raw returns to the caller with the sub-export's answer; a freed
\* state is gone once mdcache_free_state has returned.
SubcallReturn(t) ==
    /\ call[t] # NoCall
    /\ Returns(t, call[t].op, call[t].ans)
    /\ state_exp' = IF call[t].op = "free_state"
                      THEN [state_exp EXCEPT ![call[t].st] = NoExport]
                      ELSE state_exp
    /\ state_hdl' = IF call[t].op = "free_state"
                      THEN [state_hdl EXCEPT ![call[t].st] = NoExport]
                      ELSE state_hdl
    /\ call' = [call EXCEPT ![t] = NoCall]
    /\ UNCHANGED <<exp_live, req, sub_quota>>

\* A request ends once its export operation has returned.
MdcEnd(t) == SubEnd(t) /\ call[t] = NoCall /\ UNCHANGED <<call, state_hdl>>

\* mdcache_exp_release, called when nothing pins the export any more.
MdcRelease(x) == SubRelease(x) /\ UNCHANGED <<call, state_hdl>>

Next ==
    \/ \E t \in Threads, x \in Exports : SubBegin(t, x) /\ UNCHANGED <<call, state_hdl>>
    \/ \E t \in Threads : MdcEnd(t) \/ SubcallReturn(t)
    \/ \E x \in Exports : MdcRelease(x)
    \/ \E t \in Threads, o \in QueryOps : MdcQuery(t, o)
    \/ \E t \in Threads, u \in Users : MdcCheckQuota(t, u) \/ MdcGetQuota(t, u)
    \/ \E t \in Threads, u \in Users, q \in Quotas : MdcSetQuota(t, u, q)
    \/ \E t \in Threads, s \in StateIds : MdcAllocState(t, s) \/ MdcFreeState(t, s)

Spec == Init /\ [][Next]_vars

-----------------------------------------------------------------------------
(* Refinement and properties.                                              *)

\* A pending call's answer is already the caller's result; a state being
\* freed is already gone.
AbsResult == [t \in Threads |-> IF call[t] # NoCall THEN <<call[t].op, call[t].ans>>
                                                   ELSE result[t]]

AbsStateExp == [s \in StateIds |-> IF Freeing(s) THEN NoExport
                                                 ELSE state_exp[s]]

Abs == INSTANCE SubExport WITH result <- AbsResult, state_exp <- AbsStateExp

\* Every MDCACHE export query and quota call answers exactly as the same
\* operation of the sub-export of the caller's export, and alloc_state and
\* free_state create and destroy states as the sub-FSAL's own do, each
\* applied atomically at the moment the sub-FSAL ran it (the backend
\* contract: the cache forwards the export-level operations unchanged).
\* Which sub-export serves free_state is FreeStateReachesOwner's question.
ImplementsSubExport == Abs!SubSpec

\* mdcache_free_state calls free_state on the sub-export that allocated the
\* state (the backend contract: state allocate/free is forwarded to the
\* sub-backend), whichever thread frees it and whatever export its request
\* is on.
FreeStateReachesOwner ==
    \A t \in Threads :
        call[t].op = "free_state" => call[t].exp = state_exp[call[t].st]

=============================================================================
