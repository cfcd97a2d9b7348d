--------------------------- MODULE ExportOpsProofs ---------------------------
(***************************************************************************)
(* Proofs about ExportOps for every value of the constants: the MDCACHE    *)
(* export operations are type-correct and the layer implements SubExport.  *)
(*                                                                         *)
(* The refinement needs more than TypeOK: a call other than free_state     *)
(* runs on the live export of the caller's request, and a free_state call  *)
(* is the only one on its state, which is still allocated.  IInv says so.  *)
(***************************************************************************)
EXTENDS ExportOps, TLAPS

\* A request works on a live export.
ReqLive == \A t \in Threads : req[t] # NoExport => exp_live[req[t]]

\* An operation other than free_state runs on the export of its request.
CallOnReq ==
    \A t \in Threads :
        call[t] # NoCall /\ call[t].op # "free_state" => call[t].exp = req[t]

\* A free_state call is on a state still allocated, and no two threads
\* free the same state.
FreeingOwnState ==
    /\ \A t \in Threads :
          call[t].op = "free_state" =>
              call[t].st \in StateIds /\ state_exp[call[t].st] # NoExport
    /\ \A t1, t2 \in Threads :
          /\ call[t1].op = "free_state" /\ call[t2].op = "free_state"
          /\ call[t1].st = call[t2].st
          => t1 = t2

IInv == TypeOK /\ ReqLive /\ CallOnReq /\ FreeingOwnState

-----------------------------------------------------------------------------
(* Facts about the operators the model is built from.                      *)

\* Every query reaches the sub-export operation of the same name, and the
\* MDCACHE vector has a method for it.
LEMMA SubOpOfIdentity ==
    ASSUME NEW o \in QueryOps
    PROVE  SubOpOf(o) = o /\ o \in MdcExportOps
BY DEF QueryOps, LimitOps, CapOps, PnfsOps, SubOpOf, LimitSubOp, CapSubOp,
       PnfsSubOp, MdcExportOps, OpNames

\* The replies the operations produce are replies.
LEMMA ReplyTypes ==
    /\ \A x \in Exports, o \in QueryOps : Answer(x, o) \in Replies
    /\ \A q \in Quotas : QuotaIs(q) \in Replies
    /\ \A b \in BOOLEAN : WithinQuota(b) \in Replies
    /\ \A s \in StateIds : StateIs(s) \in Replies
    /\ NoResult \in Replies /\ Freed \in Replies
BY DEF Replies

\* A thread is in an operation exactly when its call is a real call.
LEMMA CallShape ==
    ASSUME TypeOK, NEW t \in Threads
    PROVE  /\ call[t] = NoCall \/ call[t] \in Calls
           /\ call[t] = NoCall <=> call[t].op = "none"
           /\ call[t] # NoCall => call[t].exp \in Exports \cup {Wild}
<1>1. "none" \notin OpNames
  BY DEF OpNames, QueryOps, LimitOps, CapOps, PnfsOps
<1>2. QED
  BY <1>1 DEF TypeOK, Calls, NoCall

\* mdc_export() of any handle, or of none, yields an export or Wild.
LEMMA MdcExportOfType ==
    ASSUME NEW h
    PROVE  MdcExportOf(h) \subseteq Exports \cup {Wild}
BY DEF MdcExportOf

\* Freeing(s) only looks at the op and the state of each thread's call.
LEMMA FreeingUnchanged ==
    ASSUME NEW t \in Threads, NEW s,
           \A u \in Threads \ {t} : call'[u] = call[u],
           ~(call[t].op = "free_state" /\ call[t].st = s),
           ~(call'[t].op = "free_state" /\ call'[t].st = s)
    PROVE  Freeing(s)' = Freeing(s)
BY DEF Freeing

-----------------------------------------------------------------------------
LEMMA InitIInv == Init => IInv
<1> SUFFICES ASSUME Init PROVE IInv
  OBVIOUS
<1>1. TypeOK
  BY ReplyTypes, SubExportAssumption
     DEF Init, SubInit, TypeOK, SubTypeOK, Results
<1>2. QED
  BY <1>1, SubExportAssumption
     DEF Init, SubInit, IInv, ReqLive, CallOnReq, FreeingOwnState, NoCall

-----------------------------------------------------------------------------
(* Entering an operation other than free_state on the request's export:   *)
(* the query, quota and alloc_state actions all have this shape.           *)

LEMMA StartCallIInv ==
    ASSUME IInv, NEW t \in Threads, NEW o \in OpNames \ {"free_state"},
           NEW st \in StateIds \cup {NoExport}, NEW a \in Replies,
           Calling(t), StartCall(t, o, st, a),
           UNCHANGED <<exp_live, req, result>>,
           sub_quota' \in [Exports -> [Users -> Quotas]],
           state_hdl' \in [StateIds -> Handles \cup {NoExport}],
           \/ state_exp' = state_exp
           \/ /\ st \in StateIds /\ state_exp[st] = NoExport
              /\ state_exp' = [state_exp EXCEPT ![st] = req[t]]
    PROVE  IInv'
<1> USE DEF IInv
<1>1. req[t] \in Exports /\ exp_live[req[t]]
  BY DEF Calling, TypeOK, SubTypeOK, ReqLive
<1>2. /\ call'[t] = [op |-> o, exp |-> req[t], st |-> st, ans |-> a]
      /\ \A u \in Threads \ {t} : call'[u] = call[u]
      /\ call' \in [Threads -> Calls \cup {NoCall}]
  BY <1>1 DEF StartCall, TypeOK, Calls
<1>3. \A u \in StateIds : state_exp'[u] # state_exp[u] =>
          state_exp[u] = NoExport /\ state_exp'[u] = req[t]
  BY DEF TypeOK, SubTypeOK
<1>4. TypeOK'
  BY <1>1, <1>2 DEF TypeOK, SubTypeOK, Calls
<1>5. ReqLive' /\ CallOnReq'
  BY <1>2 DEF ReqLive, CallOnReq
<1>6. FreeingOwnState'
  <2>1. ASSUME NEW u \in Threads, call'[u].op = "free_state"
        PROVE  u # t /\ call'[u] = call[u] /\ call[u] # NoCall
    BY <1>2, <2>1, CallShape DEF NoCall
  <2>2. ASSUME NEW u \in Threads, call[u] # NoCall, call[u].op = "free_state"
        PROVE  state_exp[call[u].st] # NoExport
    BY <2>2, CallShape, SubExportAssumption DEF FreeingOwnState
  <2>3. QED
    BY <1>3, <2>1, <2>2 DEF FreeingOwnState
<1>8. QED
  BY <1>4, <1>5, <1>6

LEMMA QueryIInv ==
    ASSUME IInv, NEW t \in Threads, NEW o \in QueryOps, MdcQuery(t, o)
    PROVE  IInv'
<1>1. o \in OpNames \ {"free_state"}
  BY DEF OpNames, QueryOps, LimitOps, CapOps, PnfsOps
<1>2. req[t] \in Exports /\ sub_quota \in [Exports -> [Users -> Quotas]]
  BY DEF MdcQuery, Calling, IInv, TypeOK, SubTypeOK
<1>3. (IF o \in MdcExportOps THEN Answer(req[t], SubOpOf(o)) ELSE NoResult)
        \in Replies
  BY <1>2, SubOpOfIdentity, ReplyTypes
<1>4. QED
  BY <1>1, <1>2, <1>3, StartCallIInv DEF MdcQuery, IInv, TypeOK

LEMMA QuotaIInv ==
    ASSUME IInv, NEW t \in Threads, NEW u \in Users, NEW q \in Quotas,
           MdcCheckQuota(t, u) \/ MdcGetQuota(t, u) \/ MdcSetQuota(t, u, q)
    PROVE  IInv'
<1>1. /\ req[t] \in Exports
      /\ sub_quota \in [Exports -> [Users -> Quotas]]
      /\ sub_quota[req[t]][u] \in Quotas
  BY DEF MdcCheckQuota, MdcGetQuota, MdcSetQuota, Calling, IInv, TypeOK,
         SubTypeOK
<1>2. /\ WithinQuota(sub_quota[req[t]][u] > 0) \in Replies
      /\ QuotaIs(sub_quota[req[t]][u]) \in Replies
      /\ QuotaIs(q) \in Replies
  <2>1. (sub_quota[req[t]][u] > 0) \in BOOLEAN
    OBVIOUS
  <2>2. QED
    BY <1>1, <2>1, ReplyTypes
<1>3. /\ "check_quota" \in OpNames \ {"free_state"}
      /\ "get_quota" \in OpNames \ {"free_state"}
      /\ "set_quota" \in OpNames \ {"free_state"}
  BY DEF OpNames
<1>4. CASE MdcCheckQuota(t, u)
  BY <1>1, <1>2, <1>3, <1>4, StartCallIInv DEF MdcCheckQuota, IInv, TypeOK
<1>5. CASE MdcGetQuota(t, u)
  BY <1>1, <1>2, <1>3, <1>5, StartCallIInv DEF MdcGetQuota, IInv, TypeOK
<1>6. CASE MdcSetQuota(t, u, q)
  <2>1. sub_quota' \in [Exports -> [Users -> Quotas]]
    BY <1>1, <1>6 DEF MdcSetQuota
  <2>2. QED
    BY <1>2, <1>3, <1>6, <2>1, StartCallIInv DEF MdcSetQuota, IInv, TypeOK
<1>7. QED
  BY <1>4, <1>5, <1>6

LEMMA AllocIInv ==
    ASSUME IInv, NEW t \in Threads, NEW s \in StateIds, MdcAllocState(t, s)
    PROVE  IInv'
<1>1. sub_quota \in [Exports -> [Users -> Quotas]]
  BY DEF IInv, TypeOK, SubTypeOK
<1>2. StateIs(s) \in Replies /\ "alloc_state" \in OpNames \ {"free_state"}
  BY ReplyTypes DEF OpNames
<1>3. state_hdl' \in [StateIds -> Handles \cup {NoExport}]
  BY DEF MdcAllocState, Calling, IInv, TypeOK, SubTypeOK, Handles
<1>4. QED
  BY <1>1, <1>2, <1>3, StartCallIInv DEF MdcAllocState

-----------------------------------------------------------------------------
(* free_state, the return through subcall_raw, and the request steps.      *)

LEMMA FreeIInv ==
    ASSUME IInv, NEW t \in Threads, NEW s \in StateIds, MdcFreeState(t, s)
    PROVE  IInv'
<1> USE DEF IInv
<1>1. PICK y \in MdcExportOf(state_hdl[s]) :
        call' = [call EXCEPT ![t] = [op |-> "free_state", exp |-> y,
                                     st |-> s, ans |-> Freed]]
  BY DEF MdcFreeState
<1>2. /\ call'[t] = [op |-> "free_state", exp |-> y, st |-> s, ans |-> Freed]
      /\ \A u \in Threads \ {t} : call'[u] = call[u]
      /\ UNCHANGED <<exp_live, req, sub_quota, state_exp, result, state_hdl>>
  BY <1>1 DEF MdcFreeState, TypeOK
<1>3. TypeOK'
  <2>1. [op |-> "free_state", exp |-> y, st |-> s, ans |-> Freed] \in Calls
    BY MdcExportOfType, ReplyTypes DEF Calls, OpNames
  <2>2. call' \in [Threads -> Calls \cup {NoCall}]
    BY <1>1, <2>1 DEF TypeOK
  <2>3. QED
    BY <1>2, <2>2 DEF TypeOK, SubTypeOK
<1>4. ReqLive' /\ CallOnReq'
  BY <1>2 DEF ReqLive, CallOnReq
<1>5. \A u \in Threads \ {t} : ~(call[u].op = "free_state" /\ call[u].st = s)
  BY DEF MdcFreeState, Freeing
<1>6. FreeingOwnState'
  BY <1>2, <1>5 DEF FreeingOwnState, MdcFreeState
<1>7. QED
  BY <1>3, <1>4, <1>6

LEMMA ReturnIInv ==
    ASSUME IInv, NEW t \in Threads, SubcallReturn(t)
    PROVE  IInv'
<1> USE DEF IInv
<1>1. call[t] \in Calls
  BY CallShape DEF SubcallReturn
<1>2. /\ call'[t] = NoCall
      /\ \A u \in Threads \ {t} : call'[u] = call[u]
      /\ call' \in [Threads -> Calls \cup {NoCall}]
  BY DEF SubcallReturn, TypeOK
<1>3. call[t].op = "free_state" => call[t].st \in StateIds
  BY DEF FreeingOwnState
<1>4. \A v \in StateIds :
         \/ state_exp'[v] = state_exp[v]
         \/ /\ state_exp'[v] = NoExport
            /\ call[t].op = "free_state" /\ v = call[t].st
  BY <1>3 DEF SubcallReturn
<1>5. TypeOK'
  <2>1. result' \in [Threads -> Results]
    BY <1>1 DEF SubcallReturn, Returns, TypeOK, SubTypeOK, Calls, Results
  <2>2. state_exp' \in [StateIds -> Exports \cup {NoExport}]
    BY <1>3 DEF SubcallReturn, TypeOK, SubTypeOK
  <2>3. state_hdl' \in [StateIds -> Handles \cup {NoExport}]
    BY <1>3 DEF SubcallReturn, TypeOK
  <2>4. QED
    BY <1>2, <2>1, <2>2, <2>3 DEF SubcallReturn, TypeOK, SubTypeOK
<1>6. ReqLive' /\ CallOnReq'
  BY <1>2 DEF SubcallReturn, ReqLive, CallOnReq
<1>7. FreeingOwnState'
  <2>1. "none" # "free_state"
    OBVIOUS
  <2>2. ASSUME NEW u \in Threads, call'[u].op = "free_state"
        PROVE  /\ u # t /\ call'[u] = call[u]
               /\ call[u].st \in StateIds
               /\ state_exp'[call[u].st] = state_exp[call[u].st]
    BY <1>2, <1>4, <2>1, <2>2 DEF NoCall, FreeingOwnState
  <2>3. QED
    BY <2>2 DEF FreeingOwnState
<1>9. QED
  BY <1>5, <1>6, <1>7

LEMMA BeginIInv ==
    ASSUME IInv, NEW t \in Threads, NEW x \in Exports, SubBegin(t, x),
           UNCHANGED <<call, state_hdl>>
    PROVE  IInv'
<1> USE DEF IInv
<1>1. call[t] # NoCall => call[t].op = "free_state"
  BY CallShape, SubExportAssumption, ExportOpsAssumption
     DEF SubBegin, CallOnReq
<1>2. QED
  BY <1>1 DEF SubBegin, TypeOK, SubTypeOK, ReqLive, CallOnReq,
              FreeingOwnState

LEMMA EndIInv ==
    ASSUME IInv, NEW t \in Threads, MdcEnd(t)
    PROVE  IInv'
BY DEF MdcEnd, SubEnd, IInv, TypeOK, SubTypeOK, ReqLive, CallOnReq,
       FreeingOwnState

LEMMA ReleaseIInv ==
    ASSUME IInv, NEW x \in Exports, MdcRelease(x)
    PROVE  IInv'
BY DEF MdcRelease, SubRelease, Pinned, IInv, TypeOK, SubTypeOK, ReqLive,
       CallOnReq, FreeingOwnState

LEMMA StutterIInv ==
    ASSUME IInv, UNCHANGED vars
    PROVE  IInv'
BY DEF vars, IInv, TypeOK, SubTypeOK, ReqLive, CallOnReq, FreeingOwnState,
       Freeing

LEMMA NextIInv == IInv /\ [Next]_vars => IInv'
<1> SUFFICES ASSUME IInv, [Next]_vars PROVE IInv'
  OBVIOUS
<1>1. CASE \E t \in Threads, x \in Exports :
             SubBegin(t, x) /\ UNCHANGED <<call, state_hdl>>
  BY <1>1, BeginIInv
<1>2. CASE \E t \in Threads : MdcEnd(t) \/ SubcallReturn(t)
  BY <1>2, EndIInv, ReturnIInv
<1>3. CASE \E x \in Exports : MdcRelease(x)
  BY <1>3, ReleaseIInv
<1>4. CASE \E t \in Threads, o \in QueryOps : MdcQuery(t, o)
  BY <1>4, QueryIInv
<1>5. CASE \E t \in Threads, u \in Users :
             MdcCheckQuota(t, u) \/ MdcGetQuota(t, u)
  <2>1. PICK q \in Quotas : TRUE
    BY <1>5 DEF MdcCheckQuota, MdcGetQuota, Calling, IInv, TypeOK, SubTypeOK
  <2>2. QED
    BY <1>5, <2>1, QuotaIInv
<1>6. CASE \E t \in Threads, u \in Users, q \in Quotas : MdcSetQuota(t, u, q)
  BY <1>6, QuotaIInv
<1>7. CASE \E t \in Threads, s \in StateIds :
             MdcAllocState(t, s) \/ MdcFreeState(t, s)
  BY <1>7, AllocIInv, FreeIInv
<1>8. CASE UNCHANGED vars
  BY <1>8, StutterIInv
<1>9. QED
  BY <1>1, <1>2, <1>3, <1>4, <1>5, <1>6, <1>7, <1>8 DEF Next

-----------------------------------------------------------------------------
(* The theorems on the invariants.                                         *)

\* The inductive invariant holds in every reachable state of the export
\* operations, for every set of exports, threads, users, quotas and states.
THEOREM IInvHolds == Spec => []IInv
BY InitIInv, NextIInv, PTL DEF Spec

\* Every reachable state of the MDCACHE export operations is well typed.
THEOREM ExportOpsTypeCorrect == Spec => []TypeOK
BY IInvHolds, PTL DEF IInv

-----------------------------------------------------------------------------
(* Refinement: each step of ExportOps is a step of SubExport under the     *)
(* mapping AbsResult, AbsStateExp, or leaves the mapped state unchanged.   *)

\* A thread entering an operation: its pending answer is its result.
LEMMA AbsResultOnCall ==
    ASSUME NEW t \in Threads, call[t] = NoCall, call'[t] # NoCall,
           \A u \in Threads \ {t} : call'[u] = call[u], result' = result
    PROVE  AbsResult' = [AbsResult EXCEPT ![t] = <<call'[t].op, call'[t].ans>>]
BY DEF AbsResult

\* A step on no state being freed leaves the mapped states as they are.
LEMMA AbsStateExpUnchanged ==
    ASSUME NEW t \in Threads, \A u \in Threads \ {t} : call'[u] = call[u],
           call[t].op # "free_state", call'[t].op # "free_state",
           state_exp' = state_exp
    PROVE  AbsStateExp' = AbsStateExp
BY DEF AbsStateExp, Freeing

LEMMA InitRefines == Init => Abs!SubInit
BY DEF Init, SubInit, Abs!SubInit, AbsResult, AbsStateExp, Freeing, NoCall,
       Abs!NoResult, NoResult

\* The shape shared by the query and quota steps: the abstract operation
\* returns what the call recorded and changes no state object.
LEMMA StartRefines ==
    ASSUME IInv, NEW t \in Threads, NEW o \in OpNames \ {"free_state"},
           NEW a, Calling(t), StartCall(t, o, NoExport, a),
           UNCHANGED <<exp_live, req, state_exp, result>>
    PROVE  /\ AbsResult' = [AbsResult EXCEPT ![t] = <<o, a>>]
           /\ AbsStateExp' = AbsStateExp
<1>1. /\ call'[t] = [op |-> o, exp |-> req[t], st |-> NoExport, ans |-> a]
      /\ \A u \in Threads \ {t} : call'[u] = call[u]
  BY DEF StartCall, IInv, TypeOK
<1>2. call'[t] # NoCall /\ call[t].op # "free_state"
  BY <1>1 DEF Calling, NoCall
<1>3. QED
  BY <1>1, <1>2, AbsResultOnCall, AbsStateExpUnchanged DEF Calling

LEMMA QueryRefines ==
    ASSUME IInv, NEW t \in Threads, NEW o \in QueryOps, MdcQuery(t, o)
    PROVE  Abs!SubQuery(t, o)
<1>1. o \in OpNames \ {"free_state"}
  BY DEF OpNames, QueryOps, LimitOps, CapOps, PnfsOps
<1>2. (IF o \in MdcExportOps THEN Answer(req[t], SubOpOf(o)) ELSE NoResult)
        = Answer(req[t], o)
  BY SubOpOfIdentity
<1>3. /\ AbsResult' = [AbsResult EXCEPT ![t] = <<o, Answer(req[t], o)>>]
      /\ AbsStateExp' = AbsStateExp
  BY <1>1, <1>2, StartRefines DEF MdcQuery
<1>4. QED
  BY <1>3 DEF MdcQuery, Calling, Abs!SubQuery, Abs!Returns, Abs!Answer, Answer

LEMMA QuotaRefines ==
    ASSUME IInv, NEW t \in Threads, NEW u \in Users, NEW q \in Quotas
    PROVE  /\ MdcCheckQuota(t, u) => Abs!SubCheckQuota(t, u)
           /\ MdcGetQuota(t, u) => Abs!SubGetQuota(t, u)
           /\ MdcSetQuota(t, u, q) => Abs!SubSetQuota(t, u, q)
<1>1. /\ "check_quota" \in OpNames \ {"free_state"}
      /\ "get_quota" \in OpNames \ {"free_state"}
      /\ "set_quota" \in OpNames \ {"free_state"}
  BY DEF OpNames
<1>2. MdcCheckQuota(t, u) => Abs!SubCheckQuota(t, u)
  BY <1>1, StartRefines
     DEF MdcCheckQuota, Calling, Abs!SubCheckQuota, Abs!Returns,
         Abs!WithinQuota, WithinQuota
<1>3. MdcGetQuota(t, u) => Abs!SubGetQuota(t, u)
  BY <1>1, StartRefines
     DEF MdcGetQuota, Calling, Abs!SubGetQuota, Abs!Returns, Abs!QuotaIs,
         QuotaIs
<1>4. MdcSetQuota(t, u, q) => Abs!SubSetQuota(t, u, q)
  BY <1>1, StartRefines
     DEF MdcSetQuota, Calling, Abs!SubSetQuota, Abs!Returns, Abs!QuotaIs,
         QuotaIs
<1>5. QED
  BY <1>2, <1>3, <1>4

LEMMA AllocRefines ==
    ASSUME IInv, NEW t \in Threads, NEW s \in StateIds, MdcAllocState(t, s)
    PROVE  Abs!SubAllocState(t, s)
<1>1. /\ call'[t] = [op |-> "alloc_state", exp |-> req[t], st |-> s,
                     ans |-> StateIs(s)]
      /\ \A u \in Threads \ {t} : call'[u] = call[u]
      /\ call[t] = NoCall /\ req[t] # NoExport
  BY DEF MdcAllocState, StartCall, Calling, IInv, TypeOK
<1>2. AbsResult' = [AbsResult EXCEPT ![t] = <<"alloc_state", StateIs(s)>>]
  BY <1>1, AbsResultOnCall DEF MdcAllocState, NoCall
<1>3. \A u \in Threads : ~(call[u].op = "free_state" /\ call[u].st = s)
  BY CallShape, SubExportAssumption
     DEF MdcAllocState, IInv, FreeingOwnState, NoCall
<1>4. ~Freeing(s) /\ ~Freeing(s)'
  BY <1>1, <1>3 DEF Freeing
<1>5. \A v \in StateIds \ {s} : Freeing(v)' = Freeing(v)
  BY <1>1, FreeingUnchanged DEF NoCall
<1>6. AbsStateExp' = [AbsStateExp EXCEPT ![s] = req[t]]
  BY <1>4, <1>5 DEF MdcAllocState, AbsStateExp, IInv, TypeOK, SubTypeOK
<1>7. AbsStateExp[s] = NoExport
  BY <1>4 DEF MdcAllocState, AbsStateExp
<1>8. QED
  BY <1>1, <1>2, <1>6, <1>7
     DEF MdcAllocState, Abs!SubAllocState, Abs!Returns, Abs!StateIs, StateIs

LEMMA FreeRefines ==
    ASSUME IInv, NEW t \in Threads, NEW s \in StateIds, MdcFreeState(t, s)
    PROVE  Abs!SubFreeState(t, s)
<1>0. PICK y \in MdcExportOf(state_hdl[s]) :
        call' = [call EXCEPT ![t] = [op |-> "free_state", exp |-> y,
                                     st |-> s, ans |-> Freed]]
  BY DEF MdcFreeState
<1>1. /\ call'[t] = [op |-> "free_state", exp |-> y, st |-> s, ans |-> Freed]
      /\ \A u \in Threads \ {t} : call'[u] = call[u]
      /\ call[t] = NoCall
  BY <1>0 DEF MdcFreeState, IInv, TypeOK
<1>2. AbsResult' = [AbsResult EXCEPT ![t] = <<"free_state", Freed>>]
  BY <1>1, AbsResultOnCall DEF MdcFreeState, NoCall
<1>3. ~Freeing(s) /\ Freeing(s)'
  BY <1>1 DEF MdcFreeState, Freeing
<1>4. \A v \in StateIds \ {s} : Freeing(v)' = Freeing(v)
  BY <1>1, FreeingUnchanged DEF NoCall
<1>5. AbsStateExp' = [AbsStateExp EXCEPT ![s] = NoExport]
  BY <1>3, <1>4 DEF MdcFreeState, AbsStateExp
<1>6. AbsStateExp[s] = state_exp[s]
  BY <1>3 DEF AbsStateExp
<1>7. QED
  BY <1>2, <1>5, <1>6
     DEF MdcFreeState, Abs!SubFreeState, Abs!Returns, Abs!Freed, Freed

LEMMA ReturnRefines ==
    ASSUME IInv, NEW t \in Threads, SubcallReturn(t)
    PROVE  UNCHANGED <<exp_live, req, sub_quota, AbsStateExp, AbsResult>>
<1>1. /\ call[t] # NoCall /\ call'[t] = NoCall
      /\ \A u \in Threads \ {t} : call'[u] = call[u]
  BY DEF SubcallReturn, IInv, TypeOK
<1>2. AbsResult' = AbsResult
  BY <1>1 DEF SubcallReturn, Returns, AbsResult, IInv, TypeOK, SubTypeOK
<1>3. CASE call[t].op = "free_state"
  <2>1. PICK st \in StateIds : st = call[t].st
    BY <1>3 DEF IInv, FreeingOwnState
  <2>2. Freeing(st)
    BY <1>3, <2>1 DEF Freeing
  <2>3. ~Freeing(st)'
    BY <1>1, <1>3, <2>1 DEF IInv, FreeingOwnState, Freeing, NoCall
  <2>4. \A v \in StateIds \ {st} : Freeing(v)' = Freeing(v)
    BY <1>1, <2>1, FreeingUnchanged DEF NoCall
  <2>5. state_exp' = [state_exp EXCEPT ![st] = NoExport]
    BY <1>3, <2>1 DEF SubcallReturn
  <2>6. QED
    BY <1>2, <2>2, <2>3, <2>4, <2>5 DEF SubcallReturn, AbsStateExp, IInv,
                                        TypeOK, SubTypeOK
<1>4. CASE call[t].op # "free_state"
  <2>1. state_exp' = state_exp
    BY <1>4 DEF SubcallReturn
  <2>2. AbsStateExp' = AbsStateExp
    BY <1>1, <1>4, <2>1, AbsStateExpUnchanged DEF NoCall
  <2>3. QED
    BY <1>2, <2>2 DEF SubcallReturn
<1>5. QED
  BY <1>3, <1>4

LEMMA BeginRefines ==
    ASSUME NEW t \in Threads, NEW x \in Exports, SubBegin(t, x),
           UNCHANGED <<call, state_hdl>>
    PROVE  Abs!SubBegin(t, x)
BY DEF SubBegin, Abs!SubBegin, AbsResult, AbsStateExp, Freeing

LEMMA EndRefines ==
    ASSUME NEW t \in Threads, MdcEnd(t)
    PROVE  Abs!SubEnd(t)
BY DEF MdcEnd, SubEnd, Abs!SubEnd, AbsResult, AbsStateExp, Freeing

LEMMA ReleaseRefines ==
    ASSUME NEW x \in Exports, MdcRelease(x)
    PROVE  Abs!SubRelease(x)
<1>2. ~Abs!Pinned(x)
  BY DEF MdcRelease, SubRelease, Pinned, Abs!Pinned
<1>3. QED
  BY <1>2 DEF MdcRelease, SubRelease, Abs!SubRelease, AbsResult,
              AbsStateExp, Freeing

LEMMA NextRefines ==
    IInv /\ [Next]_vars =>
        [Abs!SubNext]_<<exp_live, req, sub_quota, AbsStateExp, AbsResult>>
<1> SUFFICES ASSUME IInv, [Next]_vars
             PROVE  [Abs!SubNext]_<<exp_live, req, sub_quota, AbsStateExp,
                                    AbsResult>>
  OBVIOUS
<1>1. CASE \E t \in Threads, x \in Exports :
             SubBegin(t, x) /\ UNCHANGED <<call, state_hdl>>
  BY <1>1, BeginRefines DEF Abs!SubNext
<1>2. CASE \E t \in Threads : MdcEnd(t)
  BY <1>2, EndRefines DEF Abs!SubNext
<1>3. CASE \E t \in Threads : SubcallReturn(t)
  BY <1>3, ReturnRefines
<1>4. CASE \E x \in Exports : MdcRelease(x)
  BY <1>4, ReleaseRefines DEF Abs!SubNext
<1>5. CASE \E t \in Threads, o \in QueryOps : MdcQuery(t, o)
  BY <1>5, QueryRefines
     DEF Abs!SubNext, Abs!QueryOps, Abs!LimitOps, Abs!CapOps, Abs!PnfsOps,
         QueryOps, LimitOps, CapOps, PnfsOps
<1>6. CASE \E t \in Threads, u \in Users :
             MdcCheckQuota(t, u) \/ MdcGetQuota(t, u)
  <2>1. PICK q \in Quotas : TRUE
    BY <1>6 DEF MdcCheckQuota, MdcGetQuota, Calling, IInv, TypeOK, SubTypeOK
  <2>2. QED
    BY <1>6, <2>1, QuotaRefines DEF Abs!SubNext
<1>7. CASE \E t \in Threads, u \in Users, q \in Quotas : MdcSetQuota(t, u, q)
  BY <1>7, QuotaRefines DEF Abs!SubNext
<1>8. CASE \E t \in Threads, s \in StateIds :
             MdcAllocState(t, s) \/ MdcFreeState(t, s)
  BY <1>8, AllocRefines, FreeRefines DEF Abs!SubNext
<1>9. CASE UNCHANGED vars
  BY <1>9 DEF vars, AbsResult, AbsStateExp, Freeing
<1>10. QED
  BY <1>1, <1>2, <1>3, <1>4, <1>5, <1>6, <1>7, <1>8, <1>9 DEF Next

\* Every behaviour of the MDCACHE export operations (each a sub call inside
\* subcall_raw and a return) is a behaviour of the sub-export called
\* directly: every query and quota call reaches the same operation of the
\* caller's sub-export and returns its answer, and alloc_state and
\* free_state create and destroy each state once.  It says nothing of which
\* sub-export serves free_state; FreeStateReachesOwner, which fails, does.
THEOREM ExportOpsRefinesSubExport == Spec => ImplementsSubExport
<1>1. Init => Abs!SubInit
  BY InitRefines
<1>2. IInv /\ [Next]_vars =>
          [Abs!SubNext]_<<exp_live, req, sub_quota, AbsStateExp, AbsResult>>
  BY NextRefines
<1>3. QED
  BY <1>1, <1>2, IInvHolds, PTL
     DEF Spec, ImplementsSubExport, Abs!SubSpec, Abs!sub_vars

=============================================================================
